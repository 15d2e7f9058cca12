---------------------------- MODULE ChangeProofs ----------------------------
(***************************************************************************)
(* Proofs about ChangeBuilder: of any number of rows, instructions, runs    *)
(* and transactions, the changes turn the old rows into the new ones, moves *)
(* are of one row, and the modified rows are told.                          *)
(*                                                                         *)
(* Changes are Exact when they turn the rows x into y, their moves are good *)
(* and they tell of the modified rows T.  Every instruction keeps changes   *)
(* exact, calculate makes exact ones of any two runs of a query, and merge  *)
(* makes of exact changes from x to y and from y to z exact ones from x to  *)
(* z.  That the folds and the recursive function of the model are what      *)
(* their loops compute rests on there being a least counterexample.         *)
(***************************************************************************)
EXTENDS ChangeBuilder, FiniteSetTheorems, WellFoundedInduction, TLAPS

(* Sets of positions have an end.                                           *)
PositionSets == {S \in SUBSET Nat : \E n \in Nat : \A i \in S : i < n}

(* Every set of natural numbers has a least member.                         *)
LEMMA LeastOne ==
  ASSUME NEW S \in SUBSET Nat, S # {}
  PROVE  \E x \in S : \A y \in S : x <= y
<1>1. PICK R : R = OpToRel(<, Nat)
  OBVIOUS
<1>2. IsWellFoundedOn(R, Nat)
  BY <1>1, NatLessThanWellFounded
<1>3. \A a, b \in Nat : <<a, b>> \in R <=> a < b
  BY <1>1, Zenon DEF OpToRel
<1>4. PICK x \in S : \A y \in S : ~(<<y, x>> \in R)
  <2>1. S \subseteq Nat /\ S # {}
    OBVIOUS
  <2> QED
    BY <1>2, <2>1, WFMin, Zenon
<1>5. \A y \in S : x <= y
  <2> SUFFICES ASSUME NEW y \in S PROVE x <= y
    OBVIOUS
  <2>1. x \in Nat /\ y \in Nat
    OBVIOUS
  <2>2. ~(y < x)
    BY <1>3, <1>4, <2>1, Zenon
  <2> QED
    BY <2>1, <2>2
<1> QED
  BY <1>5

-----------------------------------------------------------------------------
(* Counting positions: none before 0, and one more after each that there is. *)
LEMMA CountStep ==
  ASSUME NEW S \in SUBSET Nat, NEW j \in Nat
  PROVE  /\ IsFiniteSet({i \in S : i < j})
         /\ count(S, 0) = 0
         /\ count(S, j) \in Nat
         /\ count(S, j) <= j
         /\ count(S, j + 1) = count(S, j) + (IF j \in S THEN 1 ELSE 0)
<1> DEFINE C(n) == {i \in S : i < n}
<1>1. /\ IsFiniteSet(0 .. j - 1)
      /\ Cardinality(0 .. j - 1) = j
  BY FS_Interval
<1>2. C(j) \in SUBSET (0 .. j - 1)
  <2> SUFFICES ASSUME NEW i \in C(j) PROVE i \in 0 .. j - 1
    OBVIOUS
  <2>1. i \in Nat
    OBVIOUS
  <2> QED
    BY <2>1
<1>3. IsFiniteSet(C(j)) /\ Cardinality(C(j)) <= j
  BY <1>1, <1>2, FS_Subset
<1>4. Cardinality(C(j)) \in Nat
  BY <1>3, FS_CardinalityType
<1>5. C(0) = {}
  <2> SUFFICES ASSUME NEW i \in C(0) PROVE FALSE
    OBVIOUS
  <2>1. i \in Nat /\ i < 0
    OBVIOUS
  <2> QED
    BY <2>1
<1>6. Cardinality(C(0)) = 0
  BY <1>5, FS_EmptySet
<1>7. Cardinality(C(j + 1)) = Cardinality(C(j)) + (IF j \in S THEN 1 ELSE 0)
  <2>1. CASE j \in S
    <3>1. \A i \in S : i < j + 1 <=> (i < j \/ i = j)
      <4> SUFFICES ASSUME NEW i \in S PROVE i < j + 1 <=> (i < j \/ i = j)
        OBVIOUS
      <4>1. i \in Nat
        OBVIOUS
      <4> QED
        BY <4>1
    <3>2. C(j + 1) = C(j) \cup {j} /\ j \notin C(j)
      <4>1. ~(j < j)
        OBVIOUS
      <4> QED
        BY <2>1, <3>1, <4>1, Zenon
    <3> QED
      BY <1>3, <2>1, <3>2, FS_AddElement
  <2>2. CASE j \notin S
    <3>0. \A i \in S : i < j + 1 <=> (i < j \/ i = j)
      <4> SUFFICES ASSUME NEW i \in S PROVE i < j + 1 <=> (i < j \/ i = j)
        OBVIOUS
      <4>1. i \in Nat
        OBVIOUS
      <4> QED
        BY <4>1
    <3>1. C(j + 1) = C(j)
      BY <2>2, <3>0, Zenon
    <3> QED
      BY <1>4, <2>2, <3>1
  <2> QED
    BY <2>1, <2>2
<1> QED
  BY <1>3, <1>4, <1>6, <1>7 DEF count

(* So the position goes on by one after each that is not in the set.        *)
LEMMA UnshiftStep ==
  ASSUME NEW S \in SUBSET Nat, NEW j \in Nat
  PROVE  /\ unshift(S, 0) = 0
         /\ unshift(S, j) \in Nat
         /\ unshift(S, j) <= j
         /\ unshift(S, j + 1) = unshift(S, j) + (IF j \in S THEN 0 ELSE 1)
<1>1. count(S, 0) = 0
  BY CountStep
<1>2. count(S, j) \in Nat /\ count(S, j) <= j
  BY CountStep
<1>3. count(S, j + 1) = count(S, j) + (IF j \in S THEN 1 ELSE 0)
  BY CountStep
<1>4. /\ unshift(S, 0) = 0 - count(S, 0)
      /\ unshift(S, j) = j - count(S, j)
      /\ unshift(S, j + 1) = (j + 1) - count(S, j + 1)
  BY Zenon DEF unshift
<1> QED
  BY <1>1, <1>2, <1>3, <1>4

(* The order is kept, strictly after a position that is not in the set.     *)
LEMMA UnshiftOrder ==
  ASSUME NEW S \in SUBSET Nat, NEW i \in Nat, NEW j \in Nat, i <= j
  PROVE  /\ unshift(S, i) <= unshift(S, j)
         /\ i < j /\ i \notin S => unshift(S, i) < unshift(S, j)
<1> DEFINE P(n) == /\ unshift(S, i) <= unshift(S, n)
                   /\ i < n /\ i \notin S => unshift(S, i) < unshift(S, n)
           Bad == {n \in Nat : i <= n /\ ~P(n)}
<1>1. \A n \in Nat : unshift(S, n) \in Nat
  BY UnshiftStep
<1>2. Bad = {}
  <2> SUFFICES ASSUME Bad # {} PROVE FALSE
    OBVIOUS
  <2>1. PICK n \in Bad : \A m \in Bad : n <= m
    BY LeastOne
  <2>2. n # i
    BY <1>1, <2>1
  <2>3. n - 1 \in Nat /\ i <= n - 1 /\ n - 1 + 1 = n /\ n \in Nat /\ ~(n <= n - 1)
    BY <2>1, <2>2
  <2>4. P(n - 1)
    BY <2>1, <2>3
  <2>5. unshift(S, n) = unshift(S, n - 1) + (IF n - 1 \in S THEN 0 ELSE 1)
    BY <2>3, UnshiftStep
  <2>6. P(n)
    <3> HIDE DEF Bad
    <3>1. unshift(S, n - 1) \in Nat /\ unshift(S, i) \in Nat /\ unshift(S, n) \in Nat
      BY <1>1, <2>3
    <3>2. CASE i = n - 1
      BY <2>5, <3>1, <3>2
    <3>3. CASE i < n - 1
      BY <2>4, <2>5, <3>1, <3>3
    <3> QED
      BY <2>3, <3>2, <3>3
  <2> QED
    BY <2>1, <2>6
<1> QED
  BY <1>2

(* Beyond its end a set of positions has no more to count.                  *)
LEMMA CountAll ==
  ASSUME NEW S \in SUBSET Nat, NEW n \in Nat, \A i \in S : i < n
  PROVE  /\ IsFiniteSet(S)
         /\ Cardinality(S) \in Nat
         /\ Cardinality(S) <= n
         /\ unshift(S, n) = n - Cardinality(S)
         /\ \A j \in Nat : count(S, j) <= Cardinality(S)
<1>1. S = {i \in S : i < n}
  BY Zenon
<1>2. IsFiniteSet(S)
  BY <1>1, CountStep
<1>3. count(S, n) = Cardinality(S)
  BY <1>1 DEF count
<1>4. \A j \in Nat : count(S, j) <= Cardinality(S)
  <2> SUFFICES ASSUME NEW j \in Nat PROVE count(S, j) <= Cardinality(S)
    OBVIOUS
  <2>1. {i \in S : i < j} \in SUBSET S
    BY Zenon
  <2> QED
    BY <1>2, <2>1, FS_Subset DEF count
<1>5. count(S, n) \in Nat /\ count(S, n) <= n
  BY CountStep
<1> QED
  BY <1>2, <1>3, <1>4, <1>5 DEF unshift

(* shift: the position that has i others outside the set before it.         *)
LEMMA ShiftIs ==
  ASSUME NEW S \in PositionSets, NEW i \in Nat
  PROVE  /\ shift(S, i) \in Nat
         /\ shift(S, i) \notin S
         /\ unshift(S, shift(S, i)) = i
         /\ i <= shift(S, i)
<1>1. S \in SUBSET Nat
  BY DEF PositionSets
<1>2. PICK n \in Nat : \A s \in S : s < n
  BY DEF PositionSets
<1>3. Cardinality(S) \in Nat /\ \A j \in Nat : count(S, j) <= Cardinality(S)
  BY <1>1, <1>2, CountAll
<1> DEFINE c == Cardinality(S)
           After == {j \in Nat : unshift(S, j + 1) > i}
<1>4. i + c \in After
  <2>1. i + c \in Nat /\ i + c + 1 \in Nat
    BY <1>3
  <2>2. count(S, i + c + 1) \in Nat /\ count(S, i + c + 1) <= c
    <3>1. \A m \in Nat : count(S, m) \in Nat /\ count(S, m) <= c
      BY <1>1, <1>3, CountStep
    <3> QED
      BY <2>1, <3>1
  <2>3. unshift(S, i + c + 1) = (i + c + 1) - count(S, i + c + 1)
    BY DEF unshift
  <2>4. unshift(S, i + c + 1) > i
    <3> HIDE DEF c
    <3>1. c \in Nat
      BY <1>3 DEF c
    <3> QED
      BY <2>2, <2>3, <3>1
  <2> QED
    BY <2>1, <2>4
<1>5. PICK j \in After : \A k \in After : j <= k
  <2>1. After \in SUBSET Nat /\ After # {}
    BY <1>4
  <2> HIDE DEF After
  <2> QED
    BY <2>1, LeastOne
<1>6. j \in Nat /\ unshift(S, j + 1) > i /\ j <= i + c
  BY <1>4, <1>5
<1>7. /\ unshift(S, j) \in Nat
      /\ unshift(S, j) <= j
      /\ unshift(S, j + 1) = unshift(S, j) + (IF j \in S THEN 0 ELSE 1)
  BY <1>1, <1>6, UnshiftStep
<1>8. unshift(S, j) <= i
  <2>1. CASE j = 0
    BY <1>1, <2>1, UnshiftStep
  <2>2. CASE j # 0
    <3>1. j - 1 \in Nat /\ ~(j <= j - 1) /\ (j - 1) + 1 = j
      BY <1>6, <2>2
    <3>2. j - 1 \notin After
      BY <1>5, <3>1
    <3>3. ~(unshift(S, (j - 1) + 1) > i)
      BY <3>1, <3>2
    <3> QED
      BY <1>7, <3>1, <3>3
  <2> QED
    BY <2>1, <2>2
<1>9. j \notin S /\ unshift(S, j) = i
  BY <1>6, <1>7, <1>8
<1>10. i <= j
  BY <1>7, <1>9
<1>11. j \in i .. i + c /\ j \notin S /\ j - count(S, j) = i
  <2>1. unshift(S, j) = j - count(S, j)
    BY DEF unshift
  <2>2. j \in i .. i + c
    <3> HIDE DEF c
    <3>1. c \in Nat
      BY <1>3 DEF c
    <3> QED
      BY <1>6, <1>10, <3>1
  <2> QED
    BY <1>9, <2>1, <2>2
<1> DEFINE k == shift(S, i)
<1>12. k \in i .. i + c /\ k \notin S /\ k - count(S, k) = i
  <2>1. \E x \in i .. i + Cardinality(S) : x \notin S /\ x - count(S, x) = i
    BY <1>11
  <2> QED
    BY <2>1, Zenon DEF shift
<1>13. k \in Nat /\ i <= k
  <2>1. k \in i .. i + c
    BY <1>12
  <2> HIDE DEF c, k
  <2> QED
    BY <2>1
<1> QED
  BY <1>12, <1>13 DEF unshift

(* A position outside the set is where the one before it was shifted to.    *)
LEMMA ShiftUnshift ==
  ASSUME NEW S \in PositionSets, NEW j \in Nat, j \notin S
  PROVE  unshift(S, j) \in Nat /\ shift(S, unshift(S, j)) = j
<1>1. S \in SUBSET Nat
  BY DEF PositionSets
<1> DEFINE u == unshift(S, j)
           k == shift(S, u)
<1>2. u \in Nat
  BY <1>1, UnshiftStep
<1>3. k \in Nat /\ k \notin S /\ unshift(S, k) = u
  BY <1>2, ShiftIs
<1>4. ~(k < j) /\ ~(j < k)
  <2> HIDE DEF k
  <2>1. k < j => unshift(S, k) < unshift(S, j)
    <3>1. k < j => k <= j
      BY <1>3
    <3> QED
      BY <1>1, <1>3, <3>1, UnshiftOrder
  <2>2. j < k => unshift(S, j) < unshift(S, k)
    <3>1. j < k => j <= k
      BY <1>3
    <3> QED
      BY <1>1, <1>3, <3>1, UnshiftOrder
  <2> HIDE DEF u
  <2>3. unshift(S, j) = u
    BY DEF u
  <2> QED
    BY <1>2, <1>3, <2>1, <2>2, <2>3
<1>5. k = j
  <2> HIDE DEF k
  <2> QED
    BY <1>3, <1>4
<1> QED
  BY <1>2, <1>5

(* Inserting keeps the order.                                               *)
LEMMA ShiftOrder ==
  ASSUME NEW S \in PositionSets, NEW i \in Nat, NEW j \in Nat
  PROVE  /\ i < j <=> shift(S, i) < shift(S, j)
         /\ shift(S, i) = shift(S, j) => i = j
<1>1. S \in SUBSET Nat
  BY DEF PositionSets
<1>2. /\ shift(S, i) \in Nat /\ shift(S, i) \notin S /\ unshift(S, shift(S, i)) = i
      /\ shift(S, j) \in Nat /\ shift(S, j) \notin S /\ unshift(S, shift(S, j)) = j
  BY ShiftIs
<1>3. shift(S, i) <= shift(S, j) => i <= j
  BY <1>1, <1>2, UnshiftOrder
<1>4. shift(S, i) < shift(S, j) => i < j
  <2>1. shift(S, i) < shift(S, j) => shift(S, i) <= shift(S, j)
    BY <1>2
  <2> QED
    BY <1>1, <1>2, <2>1, UnshiftOrder
<1>5. shift(S, j) <= shift(S, i) => j <= i
  BY <1>1, <1>2, UnshiftOrder
<1>6. shift(S, i) = shift(S, j) => i = j
  BY <1>2
<1> QED
  BY <1>2, <1>3, <1>4, <1>5, <1>6

(* shift is the only way to number the positions outside a set in order.    *)
LEMMA ShiftIsUnique ==
  ASSUME NEW S \in PositionSets, NEW g \in [Nat -> Nat],
         \A i, j \in Nat : i < j => g[i] < g[j],
         \A i \in Nat : g[i] \notin S,
         \A j \in Nat \ S : \E i \in Nat : g[i] = j
  PROVE  \A i \in Nat : shift(S, i) = g[i]
<1> DEFINE Bad == {i \in Nat : shift(S, i) # g[i]}
<1> SUFFICES ASSUME Bad # {} PROVE FALSE
  OBVIOUS
<1>1. PICK i \in Bad : \A k \in Bad : i <= k
  <2>1. Bad \in SUBSET Nat
    OBVIOUS
  <2> HIDE DEF Bad
  <2> QED
    BY <2>1, LeastOne
<1>2. i \in Nat /\ shift(S, i) # g[i] /\ g[i] \in Nat
  BY <1>1
<1>3. \A k \in Nat : k < i => shift(S, k) = g[k]
  <2> SUFFICES ASSUME NEW k \in Nat, k < i PROVE k \notin Bad
    OBVIOUS
  <2>1. ~(i <= k)
    BY <1>2
  <2> QED
    BY <1>1, <2>1
<1>4. PICK k \in Nat : shift(S, k) = g[i]
  <2>1. g[i] \in Nat /\ g[i] \notin S
    BY <1>2
  <2> QED
    BY <2>1, ShiftUnshift
<1>5. PICK l \in Nat : g[l] = shift(S, i)
  <2>1. shift(S, i) \in Nat \ S
    BY <1>2, ShiftIs
  <2> QED
    BY <2>1
<1>6. k # i /\ l # i
  BY <1>2, <1>4, <1>5
<1>7. ~(k < i)
  <2> SUFFICES ASSUME k < i PROVE FALSE
    OBVIOUS
  <2>1. g[k] = g[i]
    BY <1>3, <1>4
  <2>2. g[k] < g[i] /\ g[k] \in Nat
    BY <1>2
  <2> QED
    BY <1>2, <2>1, <2>2
<1>8. i < k
  BY <1>2, <1>6, <1>7
<1>9. shift(S, i) < shift(S, k)
  BY <1>2, <1>8, ShiftOrder
<1>10. g[l] < g[i]
  BY <1>4, <1>5, <1>9
<1>11. l < i
  <2>1. i < l => g[i] < g[l]
    BY <1>2
  <2>2. g[i] \in Nat /\ g[l] \in Nat
    BY <1>2
  <2> QED
    BY <1>2, <1>6, <1>10, <2>1, <2>2
<1>12. shift(S, l) = shift(S, i)
  BY <1>3, <1>5, <1>11
<1>13. l = i
  BY <1>2, <1>12, ShiftOrder
<1> QED
  BY <1>6, <1>13

-----------------------------------------------------------------------------
(* What the operations on sets of positions give is a set of positions.     *)
LEMMA PositionSetsClosed ==
  ASSUME NEW S \in PositionSets, NEW P \in PositionSets
  PROVE  /\ {} \in PositionSets
         /\ \A i \in Nat : {i} \in PositionSets
         /\ S \cup P \in PositionSets
         /\ \A Q \in SUBSET S : Q \in PositionSets
         /\ shift_for_insert_at(S, P) \in PositionSets
         /\ insert_at(S, P) \in PositionSets
         /\ erase_at(S, P) \in PositionSets
<1>1. S \in SUBSET Nat /\ P \in SUBSET Nat
  BY DEF PositionSets
<1>2. PICK n \in Nat : \A s \in S : s < n
  BY DEF PositionSets
<1>3. PICK m \in Nat : \A s \in P : s < m
  BY DEF PositionSets
<1>4. {} \in PositionSets
  <2>1. {} \in SUBSET Nat /\ \A i \in {} : i < 0
    OBVIOUS
  <2> QED
    BY <2>1 DEF PositionSets
<1>5. ASSUME NEW i \in Nat PROVE {i} \in PositionSets
  <2>1. i + 1 \in Nat /\ \A k \in {i} : k < i + 1
    OBVIOUS
  <2> QED
    BY <2>1 DEF PositionSets
<1>6. ASSUME NEW A \in PositionSets, NEW B \in PositionSets PROVE A \cup B \in PositionSets
  <2>1. A \in SUBSET Nat /\ B \in SUBSET Nat
    BY DEF PositionSets
  <2>2. PICK a \in Nat : \A s \in A : s < a
    BY DEF PositionSets
  <2>3. PICK b \in Nat : \A s \in B : s < b
    BY DEF PositionSets
  <2>4. \A s \in A \cup B : s < a + b
    <3> SUFFICES ASSUME NEW s \in A \cup B PROVE s < a + b
      OBVIOUS
    <3>1. s \in Nat /\ (s < a \/ s < b)
      BY <2>1, <2>2, <2>3
    <3> QED
      BY <3>1
  <2>5. a + b \in Nat /\ A \cup B \in SUBSET Nat
    BY <2>1
  <2> QED
    BY <2>4, <2>5 DEF PositionSets
<1>7. ASSUME NEW Q \in SUBSET S PROVE Q \in PositionSets
  <2>1. Q \in SUBSET Nat /\ \A s \in Q : s < n
    BY <1>1, <1>2
  <2> QED
    BY <2>1 DEF PositionSets
<1>8. shift_for_insert_at(S, P) \in PositionSets
  <2>1. shift(P, n) \in Nat
    BY ShiftIs
  <2>2. ASSUME NEW x \in shift_for_insert_at(S, P) PROVE x \in Nat /\ x < shift(P, n)
    <3>1. PICK i \in S : x = shift(P, i)
      BY DEF shift_for_insert_at
    <3>2. i \in Nat /\ i < n
      BY <1>1, <1>2
    <3> QED
      BY <3>1, <3>2, ShiftIs, ShiftOrder
  <2> QED
    BY <2>1, <2>2 DEF PositionSets
<1>9. insert_at(S, P) \in PositionSets
  BY <1>6, <1>8 DEF insert_at
<1>10. erase_at(S, P) \in PositionSets
  <2>1. ASSUME NEW x \in erase_at(S, P) PROVE x \in Nat /\ x < n
    <3>1. PICK i \in S \ P : x = unshift(P, i)
      BY DEF erase_at
    <3>2. i \in Nat /\ i < n
      BY <1>1, <1>2
    <3>3. x \in Nat /\ x <= i
      BY <1>1, <3>1, <3>2, UnshiftStep
    <3> QED
      BY <3>2, <3>3
  <2>2. erase_at(S, P) \in SUBSET Nat
    BY <2>1
  <2> QED
    BY <2>1, <2>2 DEF PositionSets
<1> QED
  BY <1>4, <1>5, <1>6, <1>7, <1>8, <1>9, <1>10

(* Inserting S and then P is inserting what insert_at makes of them.        *)
LEMMA InsertsCompose ==
  ASSUME NEW S \in PositionSets, NEW P \in PositionSets
  PROVE  \A i \in Nat : shift(insert_at(S, P), i) = shift(P, shift(S, i))
<1> DEFINE J == insert_at(S, P)
           g == [i \in Nat |-> shift(P, shift(S, i))]
<1>1. S \in SUBSET Nat /\ P \in SUBSET Nat /\ J \in PositionSets
  BY PositionSetsClosed DEF PositionSets
<1>2. \A i \in Nat : shift(S, i) \in Nat /\ shift(P, i) \in Nat
  BY ShiftIs
<1>3. g \in [Nat -> Nat]
  BY <1>2
<1>4. \A i \in Nat : g[i] = shift(P, shift(S, i))
  OBVIOUS
<1>5. \A j : j \in J <=> j \in P \/ \E s \in S : j = shift(P, s)
  BY DEF insert_at, shift_for_insert_at
<1> HIDE DEF g, J
<1>6. \A i, j \in Nat : i < j => g[i] < g[j]
  BY <1>2, <1>4, ShiftOrder
<1>7. ASSUME NEW i \in Nat PROVE g[i] \notin J
  <2>1. shift(S, i) \in Nat /\ shift(S, i) \notin S
    BY ShiftIs
  <2>2. g[i] \notin P
    BY <1>4, <2>1, ShiftIs
  <2>3. ASSUME NEW s \in S, g[i] = shift(P, s) PROVE FALSE
    <3>1. s \in Nat /\ shift(P, shift(S, i)) = shift(P, s)
      BY <1>1, <1>4, <2>3
    <3>2. shift(S, i) = s
      BY <2>1, <3>1, ShiftOrder
    <3> QED
      BY <2>1, <3>2
  <2> QED
    BY <1>5, <2>2, <2>3
<1>8. ASSUME NEW j \in Nat \ J PROVE \E i \in Nat : g[i] = j
  <2>1. j \in Nat /\ j \notin P /\ ~(\E s \in S : j = shift(P, s))
    BY <1>5
  <2>2. unshift(P, j) \in Nat /\ shift(P, unshift(P, j)) = j
    BY <2>1, ShiftUnshift
  <2>3. unshift(P, j) \notin S
    BY <2>1, <2>2
  <2>4. unshift(S, unshift(P, j)) \in Nat /\ shift(S, unshift(S, unshift(P, j))) = unshift(P, j)
    BY <2>2, <2>3, ShiftUnshift
  <2> QED
    BY <1>4, <2>2, <2>4
<1>9. \A i \in Nat : shift(J, i) = g[i]
  BY <1>1, <1>3, <1>6, <1>7, <1>8, ShiftIsUnique
<1> QED
  BY <1>4, <1>9 DEF J

(* Putting back what was erased.                                            *)
LEMMA EraseInsert ==
  ASSUME NEW S \in PositionSets, NEW P \in PositionSets
  PROVE  /\ erase_at(S, P) \in PositionSets
         /\ \A i \in Nat \ P : unshift(P, i) \in erase_at(S, P) <=> i \in S
         /\ \A k \in Nat : k \in erase_at(S, P) <=> shift(P, k) \in S
         /\ insert_at(erase_at(S, P), P) = S \cup P
         /\ \A i \in Nat : shift(S \cup P, i) = shift(P, shift(erase_at(S, P), i))
<1>1. S \in SUBSET Nat /\ P \in SUBSET Nat /\ erase_at(S, P) \in PositionSets
  BY PositionSetsClosed DEF PositionSets
<1>2. \A k : k \in erase_at(S, P) <=> \E i \in S \ P : k = unshift(P, i)
  BY DEF erase_at
<1>3. ASSUME NEW i \in Nat \ P PROVE unshift(P, i) \in erase_at(S, P) <=> i \in S
  <2>1. i \in S => unshift(P, i) \in erase_at(S, P)
    BY <1>2
  <2>2. ASSUME NEW j \in S \ P, unshift(P, i) = unshift(P, j) PROVE i = j
    <3>1. j \in Nat \ P
      BY <1>1
    <3>2. shift(P, unshift(P, i)) = i /\ shift(P, unshift(P, j)) = j
      BY <3>1, ShiftUnshift
    <3> QED
      BY <2>2, <3>2
  <2> QED
    BY <1>2, <2>1, <2>2
<1>4. ASSUME NEW k \in Nat PROVE k \in erase_at(S, P) <=> shift(P, k) \in S
  <2>1. shift(P, k) \in Nat \ P /\ unshift(P, shift(P, k)) = k
    BY ShiftIs
  <2> QED
    BY <1>3, <2>1
<1>5. insert_at(erase_at(S, P), P) = S \cup P
  <2>1. ASSUME NEW x \in S, x \notin P PROVE \E k \in erase_at(S, P) : x = shift(P, k)
    <3>1. x \in Nat \ P
      BY <1>1, <2>1
    <3>2. shift(P, unshift(P, x)) = x
      BY <3>1, ShiftUnshift
    <3> QED
      BY <1>3, <2>1, <3>1, <3>2
  <2>2. ASSUME NEW k \in erase_at(S, P) PROVE shift(P, k) \in S
    BY <1>1, <1>4 DEF PositionSets
  <2>3. \A x : x \in insert_at(erase_at(S, P), P)
                 <=> x \in P \/ \E k \in erase_at(S, P) : x = shift(P, k)
    BY DEF insert_at, shift_for_insert_at
  <2>4. \A x : x \in insert_at(erase_at(S, P), P) <=> x \in S \cup P
    <3> SUFFICES ASSUME NEW x PROVE x \in insert_at(erase_at(S, P), P) <=> x \in S \cup P
      OBVIOUS
    <3>1. CASE x \in P
      BY <2>3, <3>1
    <3>2. CASE x \notin P /\ x \in S
      BY <2>1, <2>3, <3>2
    <3>3. CASE x \notin P /\ x \notin S
      BY <2>2, <2>3, <3>3
    <3> QED
      BY <3>1, <3>2, <3>3
  <2> QED
    BY <2>4, Zenon
<1>6. \A i \in Nat : shift(S \cup P, i) = shift(P, shift(erase_at(S, P), i))
  BY <1>1, <1>5, InsertsCompose
<1> QED
  BY <1>1, <1>3, <1>4, <1>5, <1>6

(* Two sets are put in in either order, each without what the other has.    *)
LEMMA InsertEither ==
  ASSUME NEW S \in PositionSets, NEW P \in PositionSets
  PROVE  \A i \in Nat : shift(P, shift(erase_at(S, P), i)) = shift(S, shift(erase_at(P, S), i))
<1>1. S \cup P = P \cup S
  OBVIOUS
<1>2. \A i \in Nat : shift(S \cup P, i) = shift(P, shift(erase_at(S, P), i))
  BY EraseInsert
<1>3. \A i \in Nat : shift(P \cup S, i) = shift(S, shift(erase_at(P, S), i))
  BY EraseInsert
<1> QED
  BY <1>1, <1>2, <1>3, Zenon

(* add_shifted and add_shifted_by are insertions of the set itself.         *)
LEMMA AddShiftedInserts ==
  ASSUME NEW S \in PositionSets, NEW by \in PositionSets, NEW values \in PositionSets
  PROVE  /\ add_shifted_by(S, by, values) = insert_at(erase_at(values, by), S)
         /\ \A i \in Nat : add_shifted(S, i) = insert_at({i}, S)
<1>1. ASSUME NEW i \in Nat PROVE add_shifted(S, i) = insert_at({i}, S)
  BY DEF add_shifted, insert_at, shift_for_insert_at
<1>2. \A x : x \in add_shifted_by(S, by, values)
               <=> x \in S \/ \E i \in values \ by : x = shift(S, unshift(by, i))
  BY DEF add_shifted_by
<1>3. \A k : k \in erase_at(values, by) <=> \E i \in values \ by : k = unshift(by, i)
  BY DEF erase_at
<1>4. \A x : x \in insert_at(erase_at(values, by), S)
               <=> x \in S \/ \E k \in erase_at(values, by) : x = shift(S, k)
  BY DEF insert_at, shift_for_insert_at
<1>5. \A x : x \in add_shifted_by(S, by, values) <=> x \in insert_at(erase_at(values, by), S)
  BY <1>2, <1>3, <1>4, Zenon
<1> QED
  BY <1>1, <1>5, Zenon

(* A single position.                                                       *)
LEMMA OnePosition ==
  ASSUME NEW p \in Nat, NEW i \in Nat
  PROVE  /\ shift({p}, i) = IF i < p THEN i ELSE i + 1
         /\ unshift({p}, i) = IF i > p THEN i - 1 ELSE i
         /\ shift({}, i) = i
         /\ unshift({}, i) = i
<1>1. {} \in PositionSets
  <2>1. {} \in SUBSET Nat /\ \A k \in {} : k < 0
    OBVIOUS
  <2> QED
    BY <2>1 DEF PositionSets
<1>2. {p} \in PositionSets
  BY <1>1, PositionSetsClosed
<1>3. ASSUME NEW j \in Nat PROVE unshift({p}, j) = IF j > p THEN j - 1 ELSE j
  <2>1. CASE j > p
    <3>1. 0 <= p /\ p < j
      BY <2>1
    <3>2. {k \in {p} : 0 <= k /\ k < j} = {p}
      BY <3>1, Zenon
    <3> QED
      BY <2>1, <3>2, FS_Singleton DEF unshift, count
  <2>2. CASE ~(j > p)
    <3>1. ~(p < j)
      BY <2>2
    <3>2. {k \in {p} : 0 <= k /\ k < j} = {}
      BY <3>1, Zenon
    <3> QED
      BY <2>2, <3>2, FS_EmptySet DEF unshift, count
  <2> QED
    BY <2>1, <2>2
<1>4. ASSUME NEW j \in Nat PROVE unshift({}, j) = j
  <2>1. {k \in {} : 0 <= k /\ k < j} = {}
    OBVIOUS
  <2> QED
    BY <2>1, FS_EmptySet DEF unshift, count
<1>5. shift({}, i) = i
  <2>1. shift({}, unshift({}, i)) = i
    BY <1>1, ShiftUnshift
  <2> QED
    BY <1>4, <2>1
<1>6. CASE i < p
  <2>1. i \notin {p} /\ unshift({p}, i) = i
    BY <1>3, <1>6
  <2>2. shift({p}, i) = i
    BY <1>2, <2>1, ShiftUnshift
  <2> QED
    BY <1>3, <1>4, <1>5, <1>6, <2>2
<1>7. CASE ~(i < p)
  <2>1. i + 1 \in Nat /\ i + 1 \notin {p} /\ i + 1 > p /\ (i + 1) - 1 = i
    BY <1>7
  <2>2. unshift({p}, i + 1) = i
    BY <1>3, <2>1
  <2>3. shift({p}, i) = i + 1
    BY <1>2, <2>1, <2>2, ShiftUnshift
  <2> QED
    BY <1>3, <1>4, <1>5, <1>7, <2>3
<1> QED
  BY <1>6, <1>7

-----------------------------------------------------------------------------
(* Counting the positions of a set is passing over the others.              *)
LEMMA CountIsUnshift ==
  ASSUME NEW S \in SUBSET Nat, NEW Q \in SUBSET Nat, NEW n \in Nat,
         \A i \in Nat : i < n => (i \in S <=> i \notin Q)
  PROVE  \A j \in Nat : j <= n => count(S, j) = unshift(Q, j)
<1> DEFINE Bad == {j \in Nat : j <= n /\ count(S, j) # unshift(Q, j)}
<1> SUFFICES ASSUME Bad # {} PROVE FALSE
  OBVIOUS
<1>1. PICK j \in Bad : \A k \in Bad : j <= k
  <2>1. Bad \in SUBSET Nat
    OBVIOUS
  <2> HIDE DEF Bad
  <2> QED
    BY <2>1, LeastOne
<1>2. j \in Nat /\ j <= n /\ count(S, j) # unshift(Q, j)
  BY <1>1
<1>3. j # 0
  BY <1>2, CountStep, UnshiftStep
<1>4. j - 1 \in Nat /\ j - 1 < n /\ ~(j <= j - 1) /\ (j - 1) + 1 = j
  BY <1>2, <1>3
<1>5. count(S, j - 1) = unshift(Q, j - 1)
  <2>1. j - 1 \notin Bad
    BY <1>1, <1>4
  <2> QED
    BY <1>4, <2>1
<1>6. count(S, j) = count(S, j - 1) + (IF j - 1 \in S THEN 1 ELSE 0)
  <2>1. count(S, (j - 1) + 1) = count(S, j - 1) + (IF j - 1 \in S THEN 1 ELSE 0)
    BY <1>4, CountStep
  <2> QED
    BY <1>4, <2>1
<1>7. unshift(Q, j) = unshift(Q, j - 1) + (IF j - 1 \in Q THEN 0 ELSE 1)
  <2>1. unshift(Q, (j - 1) + 1) = unshift(Q, j - 1) + (IF j - 1 \in Q THEN 0 ELSE 1)
    BY <1>4, UnshiftStep
  <2> QED
    BY <1>4, <2>1
<1>8. j - 1 \in S <=> j - 1 \notin Q
  BY <1>4
<1> QED
  BY <1>2, <1>5, <1>6, <1>7, <1>8

LEMMA UpTo ==
  ASSUME NEW n \in Nat, NEW S \in SUBSET (0 .. n)
  PROVE  S \in PositionSets
<1>1. n + 1 \in Nat /\ S \in SUBSET Nat /\ \A i \in S : i < n + 1
  OBVIOUS
<1> QED
  BY <1>1 DEF PositionSets

LEMMA PickedFunction ==
  ASSUME NEW places, NEW seq
  PROVE  Picked(seq, places) = [k \in 1 .. Cardinality(places) |-> Picked(seq, places)[k]]
<1> DEFINE at(k) == CHOOSE p \in places : Cardinality({q \in places : q < p}) = k - 1
<1>1. Picked(seq, places) = [k \in 1 .. Cardinality(places) |-> seq[at(k)]]
  BY DEF Picked
<1> HIDE DEF at
<1> QED
  BY <1>1

(* Picked gives the elements at the places, which shift numbers: those that *)
(* are not among the other places.                                          *)
LEMMA PickedIs ==
  ASSUME NEW n \in Nat, NEW places \in SUBSET (1 .. n),
         NEW seq, DOMAIN seq = 1 .. n,
         NEW Q, Q = (0 .. n) \ places
  PROVE  /\ IsFiniteSet(places) /\ Cardinality(places) \in Nat
         /\ \A k \in Nat : k < Cardinality(places) <=> shift(Q, k) \in places
         /\ \A k \in Nat : k < Cardinality(places) => Picked(seq, places)[k + 1] = seq[shift(Q, k)]
<1> DEFINE c == Cardinality(places)
<1>1. places \in SUBSET Nat /\ Q \in SUBSET Nat /\ n + 1 \in Nat
  OBVIOUS
<1>2. \A i \in Nat : i < n + 1 <=> i \in 0 .. n
  OBVIOUS
<1>3. \A i \in places : i < n + 1
  OBVIOUS
<1>4. Q \in PositionSets
  <2>1. \A i \in Q : i < n + 1
    OBVIOUS
  <2> QED
    BY <1>1, <2>1 DEF PositionSets
<1>5. \A i \in Nat : i < n + 1 => (i \in places <=> i \notin Q)
  BY <1>2
<1>6. \A j \in Nat : j <= n + 1 => count(places, j) = unshift(Q, j)
  <2> QED
    BY <1>1, <1>5, CountIsUnshift
<1>7. IsFiniteSet(places) /\ c \in Nat /\ unshift(places, n + 1) = (n + 1) - c
  BY <1>1, <1>3, CountAll
<1>8. unshift(Q, n + 1) = c
  <2>1. count(places, n + 1) \in Nat
    BY <1>1, CountStep
  <2>2. unshift(places, n + 1) = (n + 1) - count(places, n + 1)
    BY DEF unshift
  <2>3. count(places, n + 1) = c
    <3> HIDE DEF c
    <3> QED
      BY <1>7, <2>1, <2>2
  <2>4. n + 1 \in Nat /\ n + 1 <= n + 1
    OBVIOUS
  <2>5. count(places, n + 1) = unshift(Q, n + 1)
    BY <1>6, <2>4, Zenon
  <2> QED
    BY <2>3, <2>5, Zenon
<1>9. ASSUME NEW k \in Nat PROVE k < c <=> shift(Q, k) \in places
  <2>1. shift(Q, k) \in Nat /\ shift(Q, k) \notin Q /\ unshift(Q, shift(Q, k)) = k
    BY <1>4, ShiftIs
  <2>2. shift(Q, k) \in places <=> shift(Q, k) < n + 1
    BY <1>3, <1>5, <2>1
  <2>3. shift(Q, k) < n + 1 => unshift(Q, shift(Q, k)) < unshift(Q, n + 1)
    <3>1. shift(Q, k) < n + 1 => shift(Q, k) <= n + 1
      BY <2>1
    <3> QED
      BY <1>1, <2>1, <3>1, UnshiftOrder
  <2>4. n + 1 <= shift(Q, k) => unshift(Q, n + 1) <= unshift(Q, shift(Q, k))
    <3> QED
      BY <1>1, <2>1, UnshiftOrder
  <2> HIDE DEF c
  <2> QED
    BY <1>7, <1>8, <2>1, <2>2, <2>3, <2>4
<1>10. ASSUME NEW k \in 1 .. c
       PROVE  (CHOOSE p \in places : Cardinality({q \in places : q < p}) = k - 1) = shift(Q, k - 1)
  <2>1. k - 1 \in Nat /\ k - 1 < c
    <3> HIDE DEF c
    <3> QED
      BY <1>7
  <2>2. shift(Q, k - 1) \in places /\ unshift(Q, shift(Q, k - 1)) = k - 1
    BY <1>4, <1>9, <2>1, ShiftIs
  <2>3. ASSUME NEW p \in places PROVE Cardinality({q \in places : q < p}) = unshift(Q, p)
    <3>1. p \in Nat /\ p <= n + 1
      OBVIOUS
    <3>2. \A q \in places : 0 <= q
      OBVIOUS
    <3>3. {q \in places : q < p} = {q \in places : 0 <= q /\ q < p}
      BY <3>2, Zenon
    <3> QED
      BY <1>6, <3>1, <3>3 DEF count
  <2>4. ASSUME NEW p \in places, unshift(Q, p) = k - 1 PROVE p = shift(Q, k - 1)
    <3>1. p \in Nat /\ p \notin Q
      OBVIOUS
    <3> QED
      BY <1>4, <2>4, <3>1, ShiftUnshift
  <2> QED
    BY <2>2, <2>3, <2>4, Zenon
<1> DEFINE at(k) == CHOOSE p \in places : Cardinality({q \in places : q < p}) = k - 1
<1>11. Picked(seq, places) = [k \in 1 .. c |-> seq[at(k)]]
  BY DEF Picked
<1>12. \A k \in 1 .. c : at(k) = shift(Q, k - 1)
  BY <1>10
<1>13. \A k \in 1 .. c : Picked(seq, places)[k] = seq[shift(Q, k - 1)]
  <2> HIDE DEF at, c
  <2> QED
    BY <1>11, <1>12
<1>14. ASSUME NEW k \in Nat, k < c PROVE Picked(seq, places)[k + 1] = seq[shift(Q, k)]
  <2>1. k + 1 \in 1 .. c /\ (k + 1) - 1 = k
    <3> HIDE DEF c
    <3> QED
      BY <1>7, <1>14
  <2> HIDE DEF c
  <2> QED
    BY <1>13, <2>1
<1> QED
  BY <1>4, <1>7, <1>9, <1>14

(* The rows that are not at the positions S: row k is the one that S shifts *)
(* position k to.                                                           *)
LEMMA OthersAre ==
  ASSUME NEW n \in Nat, NEW rs, DOMAIN rs = 1 .. n, NEW S \in SUBSET (0 .. n - 1)
  PROVE  /\ S \in PositionSets
         /\ Others(rs, S) = [k \in 1 .. n - Cardinality(S) |-> rs[shift(S, k - 1) + 1]]
         /\ Cardinality(S) \in Nat
         /\ Cardinality(S) <= n
         /\ \A k \in Nat : k < n - Cardinality(S) <=> shift(S, k) < n
<1> DEFINE places == {k \in 1 .. n : k - 1 \notin S}
           Q == (0 .. n) \ places
           c == Cardinality(places)
<1>1. S \in SUBSET Nat /\ \A i \in S : i < n
  OBVIOUS
<1>2. S \in PositionSets
  BY <1>1 DEF PositionSets
<1>3. Cardinality(S) \in Nat /\ Cardinality(S) <= n /\ unshift(S, n) = n - Cardinality(S)
  BY <1>1, CountAll
<1>4. ASSUME NEW k \in Nat PROVE k < n - Cardinality(S) <=> shift(S, k) < n
  <2>1. shift(S, k) \in Nat /\ shift(S, k) \notin S /\ unshift(S, shift(S, k)) = k
    BY <1>2, ShiftIs
  <2>2. shift(S, k) < n => unshift(S, shift(S, k)) < unshift(S, n)
    BY <1>1, <2>1, UnshiftOrder
  <2>3. n <= shift(S, k) => unshift(S, n) <= unshift(S, shift(S, k))
    BY <1>1, <2>1, UnshiftOrder
  <2> QED
    BY <1>3, <2>1, <2>2, <2>3
<1>5. {0} \in PositionSets /\ \A i \in Nat : shift({0}, i) = i + 1
  <2>1. {0} \in PositionSets
    BY <1>2, PositionSetsClosed
  <2>2. ASSUME NEW i \in Nat PROVE shift({0}, i) = i + 1
    <3>1. shift({0}, i) = IF i < 0 THEN i ELSE i + 1
      BY OnePosition
    <3> QED
      BY <3>1
  <2> QED
    BY <2>1, <2>2
<1>6. Q = insert_at(S, {0})
  <2>1. ASSUME NEW x \in Q PROVE x \in insert_at(S, {0})
    <3>1. CASE x = 0
      BY <3>1 DEF insert_at
    <3>2. CASE x # 0
      <4>1. x \in 1 .. n /\ x - 1 \in S /\ (x - 1) + 1 = x /\ x - 1 \in Nat
        BY <3>2
      <4>2. x = shift({0}, x - 1)
        BY <1>5, <4>1
      <4> QED
        BY <4>1, <4>2 DEF insert_at, shift_for_insert_at
    <3> QED
      BY <3>1, <3>2
  <2>2. ASSUME NEW x \in insert_at(S, {0}) PROVE x \in Q
    <3>1. CASE x = 0
      BY <3>1
    <3>2. CASE x # 0
      <4>1. PICK i \in S : x = shift({0}, i)
        BY <3>2 DEF insert_at, shift_for_insert_at
      <4>2. i \in Nat /\ i < n /\ x = i + 1
        BY <1>1, <1>5, <4>1
      <4>3. x \in 0 .. n /\ x - 1 = i
        BY <4>2
      <4> QED
        BY <4>3
    <3> QED
      BY <3>1, <3>2
  <2> QED
    BY <2>1, <2>2
<1>7. \A k \in Nat : shift(Q, k) = shift(S, k) + 1
  <2>1. \A k \in Nat : shift(insert_at(S, {0}), k) = shift({0}, shift(S, k))
    BY <1>2, <1>5, InsertsCompose
  <2>2. \A k \in Nat : shift(S, k) \in Nat
    BY <1>2, ShiftIs
  <2> QED
    BY <1>5, <1>6, <2>1, <2>2
<1>8. places \in SUBSET (1 .. n)
  OBVIOUS
<1>9. /\ c \in Nat
      /\ \A k \in Nat : k < c <=> shift(Q, k) \in places
      /\ Picked(rs, places) = [k \in 1 .. c |-> Picked(rs, places)[k]]
      /\ \A k \in Nat : k < c => Picked(rs, places)[k + 1] = rs[shift(Q, k)]
  <2> HIDE DEF places
  <2>1. Q = (0 .. n) \ places
    OBVIOUS
  <2> HIDE DEF Q
  <2>2. Cardinality(places) \in Nat
    BY <1>8, <2>1, PickedIs
  <2>3. \A k \in Nat : k < Cardinality(places) <=> shift(Q, k) \in places
    BY <1>8, <2>1, PickedIs
  <2>4. Picked(rs, places) = [k \in 1 .. Cardinality(places) |-> Picked(rs, places)[k]]
    BY PickedFunction
  <2>5. ASSUME NEW k \in Nat, k < Cardinality(places)
        PROVE  Picked(rs, places)[k + 1] = rs[shift(Q, k)]
    BY <1>8, <2>1, <2>5, PickedIs
  <2> QED
    BY <2>2, <2>3, <2>4, <2>5
<1>10. ASSUME NEW k \in Nat PROVE k < c <=> k < n - Cardinality(S)
  <2>1. shift(S, k) \in Nat /\ shift(S, k) \notin S
    BY <1>2, ShiftIs
  <2>2. shift(S, k) + 1 \in places <=> shift(S, k) < n
    <3>1. (shift(S, k) + 1) - 1 = shift(S, k)
      BY <2>1
    <3> QED
      BY <2>1, <3>1
  <2> HIDE DEF places, Q, c
  <2> QED
    BY <1>4, <1>7, <1>9, <2>2
<1>11. c = n - Cardinality(S)
  <2>1. c \in Nat /\ n - Cardinality(S) \in Nat
    BY <1>3, <1>9
  <2> HIDE DEF c
  <2>2. ~(c < n - Cardinality(S)) /\ ~(n - Cardinality(S) < c)
    BY <1>10, <2>1
  <2> QED
    BY <2>1, <2>2
<1>12. Others(rs, S) = Picked(rs, places)
  BY DEF Others
<1>13. \A k \in 1 .. c : Picked(rs, places)[k] = rs[shift(S, k - 1) + 1]
  <2>1. \A k \in 1 .. c : k - 1 \in Nat /\ k - 1 < c /\ (k - 1) + 1 = k
    <3> HIDE DEF c
    <3> QED
      BY <1>9
  <2> HIDE DEF c, Q, places
  <2> QED
    BY <1>7, <1>9, <2>1
<1>14. Others(rs, S) = [k \in 1 .. n - Cardinality(S) |-> rs[shift(S, k - 1) + 1]]
  <2> HIDE DEF c, places
  <2> QED
    BY <1>9, <1>11, <1>12, <1>13
<1> QED
  BY <1>2, <1>3, <1>4, <1>14

-----------------------------------------------------------------------------
(* The rows that stay are the same ones: row k of both is where the         *)
(* deletions and the insertions shift position k to.                        *)
SameRows(D, I, x, y) ==
  \A k \in Nat : /\ shift(D, k) < Len(x) <=> shift(I, k) < Len(y)
                 /\ shift(D, k) < Len(x) => x[shift(D, k) + 1] = y[shift(I, k) + 1]

Turns(D, I, x, y) ==
  /\ D \subseteq 0 .. Len(x) - 1 /\ I \subseteq 0 .. Len(y) - 1
  /\ SameRows(D, I, x, y)

LEMMA RowsLen ==
  ASSUME NEW T, NEW x \in Seq(T)
  PROVE  Len(x) \in Nat /\ DOMAIN x = 1 .. Len(x) /\ \A k \in 1 .. Len(x) : x[k] \in T
OBVIOUS

LEMMA TurnsIntoIs ==
  ASSUME NEW x \in Seq(Nat), NEW y \in Seq(Nat), NEW c
  PROVE  /\ TurnsInto(c, x, y) <=> Turns(c.deletions, c.insertions, x, y)
         /\ TurnsInto(c, x, y) => Len(x) - Cardinality(c.deletions) = Len(y) - Cardinality(c.insertions)
<1> DEFINE D == c.deletions
           I == c.insertions
           m == Len(x)
           n == Len(y)
           dx == Cardinality(D)
           dy == Cardinality(I)
<1>1. m \in Nat /\ n \in Nat /\ DOMAIN x = 1 .. m /\ DOMAIN y = 1 .. n
  BY RowsLen
<1>2. SUFFICES ASSUME D \subseteq 0 .. m - 1, I \subseteq 0 .. n - 1
               PROVE  /\ Others(x, D) = Others(y, I) <=> SameRows(D, I, x, y)
                      /\ Others(x, D) = Others(y, I) => m - dx = n - dy
  BY DEF TurnsInto, Turns
<1> HIDE DEF D, I, m, n
<1>3. /\ D \in PositionSets
      /\ Others(x, D) = [k \in 1 .. m - dx |-> x[shift(D, k - 1) + 1]]
      /\ dx \in Nat /\ dx <= m
      /\ \A k \in Nat : k < m - dx <=> shift(D, k) < m
  BY <1>1, <1>2, OthersAre
<1>4. /\ I \in PositionSets
      /\ Others(y, I) = [k \in 1 .. n - dy |-> y[shift(I, k - 1) + 1]]
      /\ dy \in Nat /\ dy <= n
      /\ \A k \in Nat : k < n - dy <=> shift(I, k) < n
  BY <1>1, <1>2, OthersAre
<1>5. m - dx \in Nat /\ n - dy \in Nat
  BY <1>1, <1>3, <1>4
<1> HIDE DEF dx, dy
<1> DEFINE a == m - dx
           b == n - dy
<1>6. SameRows(D, I, x, y)
        <=> \A k \in Nat : /\ k < a <=> k < b
                           /\ k < a => x[shift(D, k) + 1] = y[shift(I, k) + 1]
  BY <1>3, <1>4, Zenon DEF SameRows, m, n
<1> HIDE DEF a, b
<1>7. ASSUME Others(x, D) = Others(y, I)
      PROVE  a = b /\ \A k \in Nat : k < a => x[shift(D, k) + 1] = y[shift(I, k) + 1]
  <2>1. DOMAIN Others(x, D) = 1 .. a /\ DOMAIN Others(y, I) = 1 .. b
    BY <1>3, <1>4 DEF a, b
  <2>2. 1 .. a = 1 .. b
    BY <1>7, <2>1
  <2>3. a = b
    <3>1. a \in Nat /\ b \in Nat
      BY <1>5 DEF a, b
    <3>2. a <= b
      <4>1. CASE a = 0
        BY <3>1, <4>1
      <4>2. CASE a # 0
        <5>1. a \in 1 .. a
          BY <3>1, <4>2
        <5>2. a \in 1 .. b
          BY <2>2, <5>1
        <5> QED
          BY <3>1, <5>2
      <4> QED
        BY <4>1, <4>2
    <3>3. b <= a
      <4>1. CASE b = 0
        BY <3>1, <4>1
      <4>2. CASE b # 0
        <5>1. b \in 1 .. b
          BY <3>1, <4>2
        <5>2. b \in 1 .. a
          BY <2>2, <5>1
        <5> QED
          BY <3>1, <5>2
      <4> QED
        BY <4>1, <4>2
    <3> QED
      BY <3>1, <3>2, <3>3
  <2>4. ASSUME NEW k \in Nat, k < a PROVE x[shift(D, k) + 1] = y[shift(I, k) + 1]
    <3>1. k + 1 \in 1 .. a /\ (k + 1) - 1 = k
      BY <1>5, <2>4 DEF a
    <3>2. Others(x, D)[k + 1] = x[shift(D, k) + 1]
      BY <1>3, <3>1 DEF a
    <3>3. Others(y, I)[k + 1] = y[shift(I, k) + 1]
      BY <1>4, <2>3, <3>1 DEF b
    <3> QED
      BY <1>7, <3>2, <3>3
  <2> QED
    BY <2>3, <2>4
<1>8. ASSUME SameRows(D, I, x, y) PROVE Others(x, D) = Others(y, I)
  <2>1. a \in Nat /\ b \in Nat
    BY <1>5 DEF a, b
  <2>2. ~(a < b) /\ ~(b < a)
    BY <1>6, <1>8, <2>1
  <2>3. a = b
    BY <2>1, <2>2
  <2>4. \A k \in 1 .. a : x[shift(D, k - 1) + 1] = y[shift(I, k - 1) + 1]
    <3> SUFFICES ASSUME NEW k \in 1 .. a PROVE x[shift(D, k - 1) + 1] = y[shift(I, k - 1) + 1]
      OBVIOUS
    <3>1. k - 1 \in Nat /\ k - 1 < a
      BY <2>1
    <3> QED
      BY <1>6, <1>8, <3>1
  <2>5. Others(x, D) = [k \in 1 .. a |-> x[shift(D, k - 1) + 1]]
    BY <1>3 DEF a
  <2>6. Others(y, I) = [k \in 1 .. a |-> y[shift(I, k - 1) + 1]]
    BY <1>4, <2>3 DEF b
  <2> QED
    BY <2>4, <2>5, <2>6
<1>9. Others(x, D) = Others(y, I) => SameRows(D, I, x, y)
  BY <1>6, <1>7
<1> QED
  BY <1>7, <1>8, <1>9 DEF a, b

(* The sets of what turns x into y are sets of positions.                   *)
LEMMA TurnsSets ==
  ASSUME NEW x \in Seq(Nat), NEW y \in Seq(Nat), NEW D, NEW I, Turns(D, I, x, y)
  PROVE  /\ D \in PositionSets /\ I \in PositionSets
         /\ D \in SUBSET Nat /\ I \in SUBSET Nat
<1>1. Len(x) \in Nat /\ Len(y) \in Nat
  BY RowsLen
<1>2. \A n \in Nat : \A S : S \subseteq 0 .. n - 1 => S \in PositionSets
  <2> SUFFICES ASSUME NEW n \in Nat, NEW S, S \subseteq 0 .. n - 1 PROVE S \in PositionSets
    OBVIOUS
  <2>1. S \in SUBSET Nat /\ \A i \in S : i < n
    OBVIOUS
  <2> QED
    BY <2>1 DEF PositionSets
<1>3. D \in PositionSets /\ I \in PositionSets
  BY <1>1, <1>2 DEF Turns
<1> QED
  BY <1>3 DEF PositionSets

(* A position of x that stays is one of y, with the same row, and the other *)
(* way around.                                                              *)
LEMMA StaysSame ==
  ASSUME NEW x \in Seq(Nat), NEW y \in Seq(Nat), NEW D, NEW I, Turns(D, I, x, y)
  PROVE  /\ \A j \in Nat \ I : j < Len(y) =>
              /\ shift(D, unshift(I, j)) \in Nat \ D
              /\ shift(D, unshift(I, j)) < Len(x)
              /\ x[shift(D, unshift(I, j)) + 1] = y[j + 1]
         /\ \A i \in Nat \ D : i < Len(x) =>
              /\ shift(I, unshift(D, i)) \in Nat \ I
              /\ shift(I, unshift(D, i)) < Len(y)
              /\ x[i + 1] = y[shift(I, unshift(D, i)) + 1]
<1>1. D \in PositionSets /\ I \in PositionSets
  BY TurnsSets
<1>2. SameRows(D, I, x, y)
  BY DEF Turns
<1>3. ASSUME NEW j \in Nat \ I, j < Len(y)
      PROVE  /\ shift(D, unshift(I, j)) \in Nat \ D
             /\ shift(D, unshift(I, j)) < Len(x)
             /\ x[shift(D, unshift(I, j)) + 1] = y[j + 1]
  <2>1. unshift(I, j) \in Nat /\ shift(I, unshift(I, j)) = j
    BY <1>1, ShiftUnshift
  <2>2. shift(D, unshift(I, j)) \in Nat \ D
    BY <1>1, <2>1, ShiftIs
  <2> QED
    BY <1>2, <1>3, <2>1, <2>2 DEF SameRows
<1>4. ASSUME NEW i \in Nat \ D, i < Len(x)
      PROVE  /\ shift(I, unshift(D, i)) \in Nat \ I
             /\ shift(I, unshift(D, i)) < Len(y)
             /\ x[i + 1] = y[shift(I, unshift(D, i)) + 1]
  <2>1. unshift(D, i) \in Nat /\ shift(D, unshift(D, i)) = i
    BY <1>1, ShiftUnshift
  <2>2. shift(I, unshift(D, i)) \in Nat \ I
    BY <1>1, <2>1, ShiftIs
  <2> QED
    BY <1>2, <1>4, <2>1, <2>2 DEF SameRows
<1> QED
  BY <1>3, <1>4

(* Two changes in a row are one: the later deletions as they were before    *)
(* the earlier changes, the earlier insertions as they are after the later. *)
LEMMA TurnsCompose ==
  ASSUME NEW x \in Seq(Nat), NEW y \in Seq(Nat), NEW z \in Seq(Nat),
         NEW D, NEW I, NEW E, NEW J, Turns(D, I, x, y), Turns(E, J, y, z)
  PROVE  Turns(insert_at(erase_at(E, I), D), insert_at(erase_at(I, E), J), x, z)
<1> DEFINE F == erase_at(E, I)
           K == erase_at(I, E)
           A == insert_at(F, D)
           B == insert_at(K, J)
<1>1. /\ D \in PositionSets /\ I \in PositionSets /\ E \in PositionSets /\ J \in PositionSets
      /\ I \in SUBSET Nat /\ E \in SUBSET Nat
  BY TurnsSets
<1>2. F \in PositionSets /\ K \in PositionSets
  BY <1>1, PositionSetsClosed
<1>3. /\ \A k \in Nat : shift(A, k) = shift(D, shift(F, k))
      /\ \A k \in Nat : shift(B, k) = shift(J, shift(K, k))
  BY <1>1, <1>2, InsertsCompose
<1>4. \A k \in Nat : shift(I, shift(F, k)) = shift(E, shift(K, k))
  BY <1>1, InsertEither
<1>5. \A k \in Nat : shift(F, k) \in Nat /\ shift(K, k) \in Nat
  BY <1>2, ShiftIs
<1>6. SameRows(D, I, x, y) /\ SameRows(E, J, y, z)
  BY DEF Turns
<1>7. SameRows(A, B, x, z)
  <2> HIDE DEF A, B, F, K
  <2> SUFFICES ASSUME NEW k \in Nat
               PROVE  /\ shift(A, k) < Len(x) <=> shift(B, k) < Len(z)
                      /\ shift(A, k) < Len(x) => x[shift(A, k) + 1] = z[shift(B, k) + 1]
    BY DEF SameRows
  <2>1. /\ shift(D, shift(F, k)) < Len(x) <=> shift(I, shift(F, k)) < Len(y)
        /\ shift(D, shift(F, k)) < Len(x)
             => x[shift(D, shift(F, k)) + 1] = y[shift(I, shift(F, k)) + 1]
    BY <1>5, <1>6 DEF SameRows
  <2>2. /\ shift(E, shift(K, k)) < Len(y) <=> shift(J, shift(K, k)) < Len(z)
        /\ shift(E, shift(K, k)) < Len(y)
             => y[shift(E, shift(K, k)) + 1] = z[shift(J, shift(K, k)) + 1]
    BY <1>5, <1>6 DEF SameRows
  <2> QED
    BY <1>3, <1>4, <2>1, <2>2
<1>8. A \subseteq 0 .. Len(x) - 1
  <2> SUFFICES ASSUME NEW i \in A PROVE i \in 0 .. Len(x) - 1
    OBVIOUS
  <2>1. CASE i \in D
    BY <2>1 DEF Turns
  <2>2. CASE i \notin D
    <3>1. PICK e \in E \ I : i = shift(D, unshift(I, e))
      BY <2>2 DEF insert_at, shift_for_insert_at, erase_at
    <3>2. e \in Nat \ I /\ e < Len(y)
      BY <1>1, RowsLen DEF Turns
    <3>3. i \in Nat /\ i < Len(x)
      BY <3>1, <3>2, StaysSame
    <3> QED
      BY <3>3, RowsLen
  <2> QED
    BY <2>1, <2>2
<1>9. B \subseteq 0 .. Len(z) - 1
  <2> SUFFICES ASSUME NEW i \in B PROVE i \in 0 .. Len(z) - 1
    OBVIOUS
  <2>1. CASE i \in J
    BY <2>1 DEF Turns
  <2>2. CASE i \notin J
    <3>1. PICK e \in I \ E : i = shift(J, unshift(E, e))
      BY <2>2 DEF insert_at, shift_for_insert_at, erase_at
    <3>2. e \in Nat \ E /\ e < Len(y)
      BY <1>1, RowsLen DEF Turns
    <3>3. i \in Nat /\ i < Len(z)
      BY <3>1, <3>2, StaysSame
    <3> QED
      BY <3>3, RowsLen
  <2> QED
    BY <2>1, <2>2
<1> QED
  BY <1>7, <1>8, <1>9 DEF Turns

(* A row that is taken away and put in again where it stays anyway.         *)
LEMMA TurnsWithoutMove ==
  ASSUME NEW x \in Seq(Nat), NEW y \in Seq(Nat), NEW D, NEW I, Turns(D, I, x, y),
         NEW f \in D, NEW t \in I, unshift(D, f) = unshift(I, t), x[f + 1] = y[t + 1]
  PROVE  Turns(D \ {f}, I \ {t}, x, y)
<1> DEFINE A == D \ {f}
           B == I \ {t}
           q == unshift(D, f)
<1>1. D \in PositionSets /\ I \in PositionSets /\ D \in SUBSET Nat /\ I \in SUBSET Nat
  BY TurnsSets
<1>2. A \in PositionSets /\ B \in PositionSets
  BY <1>1, PositionSetsClosed
<1>3. ASSUME NEW S \in SUBSET Nat, NEW s \in S
      PROVE  unshift(S \ {s}, s) = unshift(S, s)
  <2>1. s \in Nat /\ \A i \in S : i < s => i # s
    OBVIOUS
  <2>2. {i \in S \ {s} : i < s} = {i \in S : i < s}
    BY <2>1, Zenon
  <2> QED
    BY <2>2 DEF unshift, count
<1>4. unshift(A, f) = q /\ unshift(B, t) = q
  BY <1>1, <1>3
<1>5. f \in Nat /\ t \in Nat /\ f \notin A /\ t \notin B
  BY <1>1
<1> HIDE DEF A, B, q
<1>6. q \in Nat /\ shift(A, q) = f /\ shift(B, q) = t
  BY <1>2, <1>4, <1>5, ShiftUnshift
<1>7. D = insert_at({q}, A) /\ I = insert_at({q}, B)
  <2>1. D = A \cup {f} /\ I = B \cup {t}
    BY DEF A, B
  <2> QED
    BY <1>6, <2>1 DEF insert_at, shift_for_insert_at
<1>8. {q} \in PositionSets
  BY <1>1, <1>6, PositionSetsClosed
<1>9. /\ \A k \in Nat : shift(D, k) = shift(A, shift({q}, k))
      /\ \A k \in Nat : shift(I, k) = shift(B, shift({q}, k))
  BY <1>2, <1>7, <1>8, InsertsCompose
<1>10. f < Len(x) /\ t < Len(y)
  BY <1>5, RowsLen DEF Turns
<1>11. ASSUME NEW k \in Nat
       PROVE  /\ shift(A, k) < Len(x) <=> shift(B, k) < Len(y)
              /\ shift(A, k) < Len(x) => x[shift(A, k) + 1] = y[shift(B, k) + 1]
  <2>1. CASE k = q
    BY <1>6, <1>10, <2>1
  <2>2. CASE k # q
    <3>1. k \in Nat /\ k \notin {q}
      BY <2>2
    <3>2. unshift({q}, k) \in Nat /\ shift({q}, unshift({q}, k)) = k
      BY <1>8, <3>1, ShiftUnshift
    <3>3. /\ shift(D, unshift({q}, k)) = shift(A, k)
          /\ shift(I, unshift({q}, k)) = shift(B, k)
      BY <1>9, <3>2
    <3> QED
      BY <3>2, <3>3, SMTT(40) DEF Turns, SameRows
  <2> QED
    BY <2>1, <2>2
<1>12. A \subseteq 0 .. Len(x) - 1 /\ B \subseteq 0 .. Len(y) - 1
  BY DEF A, B, Turns
<1> QED
  BY <1>11, <1>12 DEF Turns, SameRows, A, B

-----------------------------------------------------------------------------
(* Sequences: one row put in, one taken out.                                *)
LEMMA ConcatIs ==
  ASSUME NEW T, NEW a \in Seq(T), NEW b \in Seq(T)
  PROVE  /\ a \o b \in Seq(T)
         /\ Len(a \o b) = Len(a) + Len(b)
         /\ \A k \in 1 .. Len(a) : (a \o b)[k] = a[k]
         /\ \A k \in 1 .. Len(b) : (a \o b)[Len(a) + k] = b[k]
OBVIOUS

LEMMA InsertAtIs ==
  ASSUME NEW s \in Seq(Nat), NEW p \in 1 .. Len(s) + 1, NEW e \in Nat
  PROVE  /\ InsertAt(s, p, e) \in Seq(Nat)
         /\ Len(InsertAt(s, p, e)) = Len(s) + 1
         /\ \A k \in 1 .. Len(s) + 1 :
              InsertAt(s, p, e)[k] = IF k < p THEN s[k] ELSE IF k = p THEN e ELSE s[k - 1]
<1> DEFINE a == SubSeq(s, 1, p - 1)
           b == SubSeq(s, p, Len(s))
<1>1. Len(s) \in Nat /\ p \in Nat
  OBVIOUS
<1>2. a \in Seq(Nat) /\ Len(a) = p - 1 /\ \A k \in 1 .. p - 1 : a[k] = s[k]
  OBVIOUS
<1>3. b \in Seq(Nat) /\ Len(b) = Len(s) - p + 1 /\ \A k \in 1 .. Len(s) - p + 1 : b[k] = s[p + k - 1]
  OBVIOUS
<1> HIDE DEF a, b
<1>4. /\ a \o <<e>> \in Seq(Nat) /\ Len(a \o <<e>>) = p
      /\ \A k \in 1 .. p : (a \o <<e>>)[k] = IF k < p THEN s[k] ELSE e
  BY <1>1, <1>2
<1> DEFINE ae == a \o <<e>>
<1> HIDE DEF ae
<1>5. ae \in Seq(Nat) /\ Len(ae) = p /\ \A k \in 1 .. p : ae[k] = IF k < p THEN s[k] ELSE e
  BY <1>4 DEF ae
<1>6. /\ ae \o b \in Seq(Nat) /\ Len(ae \o b) = Len(s) + 1
      /\ \A k \in 1 .. p : (ae \o b)[k] = ae[k]
      /\ \A k \in 1 .. Len(s) - p + 1 : (ae \o b)[p + k] = b[k]
  <2>1. Len(ae) + Len(b) = Len(s) + 1
    BY <1>1, <1>3, <1>5
  <2>0. ae \in Seq(Nat) /\ b \in Seq(Nat)
    BY <1>3, <1>5
  <2>2. ae \o b \in Seq(Nat) /\ Len(ae \o b) = Len(ae) + Len(b)
    BY <2>0, ConcatIs
  <2>3. /\ \A k \in 1 .. Len(ae) : (ae \o b)[k] = ae[k]
        /\ \A k \in 1 .. Len(b) : (ae \o b)[Len(ae) + k] = b[k]
    BY <2>0, ConcatIs
  <2> QED
    BY <1>3, <1>5, <2>1, <2>2, <2>3
<1>7. \A k \in 1 .. Len(s) + 1 : (ae \o b)[k] = IF k < p THEN s[k] ELSE IF k = p THEN e ELSE s[k - 1]
  <2> SUFFICES ASSUME NEW k \in 1 .. Len(s) + 1
               PROVE  (ae \o b)[k] = IF k < p THEN s[k] ELSE IF k = p THEN e ELSE s[k - 1]
    OBVIOUS
  <2>1. CASE k <= p
    BY <1>1, <1>5, <1>6, <2>1
  <2>2. CASE ~(k <= p)
    <3>1. k - p \in 1 .. Len(s) - p + 1 /\ p + (k - p) - 1 = k - 1 /\ p + (k - p) = k
      BY <1>1, <2>2
    <3>2. b[k - p] = s[p + (k - p) - 1]
      BY <1>3, <3>1
    <3> QED
      BY <1>1, <1>6, <2>2, <3>1, <3>2, SMTT(40)
  <2> QED
    BY <2>1, <2>2
<1> QED
  BY <1>6, <1>7 DEF InsertAt, a, b, ae

LEMMA InsertedAt ==
  ASSUME NEW s \in Seq(Nat), NEW p \in 1 .. Len(s) + 1, NEW e \in Nat, NEW k \in 1 .. Len(s) + 1
  PROVE  InsertAt(s, p, e)[k] = IF k < p THEN s[k] ELSE IF k = p THEN e ELSE s[k - 1]
BY InsertAtIs

LEMMA RemoveAtIs ==
  ASSUME NEW s \in Seq(Nat), NEW p \in 1 .. Len(s)
  PROVE  /\ RemoveAt(s, p) \in Seq(Nat)
         /\ Len(RemoveAt(s, p)) = Len(s) - 1
         /\ \A k \in 1 .. Len(s) - 1 : RemoveAt(s, p)[k] = IF k < p THEN s[k] ELSE s[k + 1]
<1> DEFINE a == SubSeq(s, 1, p - 1)
           b == SubSeq(s, p + 1, Len(s))
<1>1. Len(s) \in Nat /\ p \in Nat
  OBVIOUS
<1>2. a \in Seq(Nat) /\ Len(a) = p - 1 /\ \A k \in 1 .. p - 1 : a[k] = s[k]
  OBVIOUS
<1>3. b \in Seq(Nat) /\ Len(b) = Len(s) - p /\ \A k \in 1 .. Len(s) - p : b[k] = s[p + k]
  OBVIOUS
<1> HIDE DEF a, b
<1>4. /\ a \o b \in Seq(Nat) /\ Len(a \o b) = Len(s) - 1
      /\ \A k \in 1 .. p - 1 : (a \o b)[k] = a[k]
      /\ \A k \in 1 .. Len(s) - p : (a \o b)[(p - 1) + k] = b[k]
  <2>1. Len(a) + Len(b) = Len(s) - 1
    BY <1>1, <1>2, <1>3
  <2>0. a \in Seq(Nat) /\ b \in Seq(Nat)
    BY <1>2, <1>3
  <2>2. a \o b \in Seq(Nat) /\ Len(a \o b) = Len(a) + Len(b)
    BY <2>0, ConcatIs
  <2>3. /\ \A k \in 1 .. Len(a) : (a \o b)[k] = a[k]
        /\ \A k \in 1 .. Len(b) : (a \o b)[Len(a) + k] = b[k]
    BY <2>0, ConcatIs
  <2> QED
    BY <1>2, <1>3, <2>1, <2>2, <2>3
<1>5. \A k \in 1 .. Len(s) - 1 : (a \o b)[k] = IF k < p THEN s[k] ELSE s[k + 1]
  <2> SUFFICES ASSUME NEW k \in 1 .. Len(s) - 1
               PROVE  (a \o b)[k] = IF k < p THEN s[k] ELSE s[k + 1]
    OBVIOUS
  <2>1. CASE k < p
    BY <1>1, <1>2, <1>4, <2>1
  <2>2. CASE ~(k < p)
    <3>1. k - (p - 1) \in 1 .. Len(s) - p /\ p + (k - (p - 1)) = k + 1 /\ (p - 1) + (k - (p - 1)) = k
      BY <1>1, <2>2
    <3>2. b[k - (p - 1)] = s[p + (k - (p - 1))]
      BY <1>3, <3>1
    <3> QED
      BY <1>1, <1>4, <2>2, <3>1, <3>2
  <2> QED
    BY <2>1, <2>2
<1> QED
  BY <1>4, <1>5 DEF RemoveAt, a, b

LEMMA AppendIs ==
  ASSUME NEW T, NEW s \in Seq(T), NEW e \in T
  PROVE  /\ Append(s, e) \in Seq(T)
         /\ Len(Append(s, e)) = Len(s) + 1
         /\ \A k \in 1 .. Len(s) : Append(s, e)[k] = s[k]
         /\ Append(s, e)[Len(s) + 1] = e
         /\ ToSet(Append(s, e)) = ToSet(s) \cup {e}
BY DEF ToSet

-----------------------------------------------------------------------------
(* Folds.  The greatest number of a set that has one.                       *)
LEMMA MaxIs ==
  ASSUME NEW n \in Nat, NEW S \in SUBSET (1 .. n), S # {}
  PROVE  Max(S) \in S /\ \A k \in S : k <= Max(S)
<1> DEFINE B == {b \in Nat : \A k \in S : k <= b}
<1>1. n \in B /\ B \in SUBSET Nat
  OBVIOUS
<1>2. PICK b \in B : \A y \in B : b <= y
  <2> HIDE DEF B
  <2> QED
    BY <1>1, LeastOne
<1>3. b \in S
  <2> SUFFICES ASSUME b \notin S PROVE FALSE
    OBVIOUS
  <2>1. b \in Nat /\ \A k \in S : k <= b
    BY <1>2
  <2>2. PICK s \in S : TRUE
    OBVIOUS
  <2>3. s \in 1 .. n /\ s <= b
    BY <2>1
  <2>4. b - 1 \in Nat /\ ~(b <= b - 1)
    BY <2>1, <2>3
  <2>5. b - 1 \in B
    <3>1. \A k \in S : k \in Nat /\ k # b
      OBVIOUS
    <3> QED
      BY <2>1, <2>4, <3>1
  <2> QED
    BY <1>2, <2>4, <2>5
<1>4. \E x \in S : \A y \in S : x >= y
  <2>1. \A k \in S : k <= b
    BY <1>2
  <2> QED
    BY <1>3, <2>1
<1>5. Max(S) \in S /\ \A y \in S : Max(S) >= y
  BY <1>4, Zenon DEF Max
<1> QED
  BY <1>5

(* A fold over the places of a sequence, its step given as a function.      *)
IsFold(iter, n, base, step) ==
  \A s \in SUBSET (1 .. n) :
    iter[s] = IF s = {} THEN base ELSE step[<<iter[s \ {Max(s)}], Max(s)>>]

LEMMA FoldExists ==
  ASSUME NEW T, NEW n \in Nat, NEW base \in T, NEW step \in [T \X (1 .. n) -> T]
  PROVE  \E iter \in [SUBSET (1 .. n) -> T] : IsFold(iter, n, base, step)
<1> DEFINE Folds(k, iter) ==
             \A s \in SUBSET (1 .. k) :
               iter[s] = IF s = {} THEN base ELSE step[<<iter[s \ {Max(s)}], Max(s)>>]
           P(k) == \E iter \in [SUBSET (1 .. k) -> T] : Folds(k, iter)
           Bad == {k \in 0 .. n : ~P(k)}
<1> SUFFICES ASSUME Bad # {} PROVE FALSE
  <2>1. n \in 0 .. n
    OBVIOUS
  <2> QED
    BY <2>1 DEF IsFold
<1>1. PICK k \in Bad : \A j \in Bad : k <= j
  <2>1. Bad \in SUBSET Nat
    OBVIOUS
  <2> HIDE DEF Bad
  <2> QED
    BY <2>1, LeastOne
<1>2. k \in 0 .. n /\ ~P(k)
  BY <1>1
<1>3. k # 0
  <2> SUFFICES ASSUME k = 0 PROVE FALSE
    OBVIOUS
  <2>1. 1 .. 0 = {}
    OBVIOUS
  <2> DEFINE iter == [s \in SUBSET (1 .. 0) |-> base]
  <2>2. iter \in [SUBSET (1 .. 0) -> T] /\ Folds(0, iter)
    BY <2>1
  <2> QED
    BY <1>2, <2>2
<1>4. k \in 1 .. n /\ k - 1 \in 0 .. n /\ ~(k <= k - 1)
  BY <1>2, <1>3
<1>5. PICK iter \in [SUBSET (1 .. k - 1) -> T] : Folds(k - 1, iter)
  <2>1. k - 1 \notin Bad
    BY <1>1, <1>4
  <2> QED
    BY <1>4, <2>1
<1> DEFINE more == [s \in SUBSET (1 .. k) |->
                      IF k \in s THEN step[<<iter[s \ {k}], k>>] ELSE iter[s]]
<1>6. \A s \in SUBSET (1 .. k) : s \ {k} \in SUBSET (1 .. k - 1)
  BY <1>4
<1>7. \A s \in SUBSET (1 .. k) : k \notin s => s \in SUBSET (1 .. k - 1)
  BY <1>4
<1>8. more \in [SUBSET (1 .. k) -> T]
  <2> SUFFICES ASSUME NEW s \in SUBSET (1 .. k)
               PROVE  (IF k \in s THEN step[<<iter[s \ {k}], k>>] ELSE iter[s]) \in T
    OBVIOUS
  <2>1. iter[s \ {k}] \in T
    BY <1>6
  <2>2. <<iter[s \ {k}], k>> \in T \X (1 .. n)
    BY <1>4, <2>1
  <2>3. k \notin s => iter[s] \in T
    BY <1>7
  <2> QED
    BY <2>2, <2>3
<1>9. ASSUME NEW s \in SUBSET (1 .. k)
      PROVE  more[s] = IF s = {} THEN base ELSE step[<<more[s \ {Max(s)}], Max(s)>>]
  <2>1. CASE k \in s
    <3>1. Max(s) \in s /\ \A j \in s : j <= Max(s)
      <4>1. k \in Nat /\ s # {}
        BY <1>4, <2>1
      <4> HIDE DEF more
      <4> QED
        BY <4>1, MaxIs
    <3>2. Max(s) = k
      <4>1. Max(s) \in 1 .. k /\ k <= Max(s)
        BY <2>1, <3>1
      <4> HIDE DEF more
      <4> QED
        BY <1>4, <4>1
    <3>3. more[s] = step[<<iter[s \ {k}], k>>]
      BY <2>1
    <3>4. more[s \ {k}] = iter[s \ {k}]
      <4>1. s \ {k} \in SUBSET (1 .. k) /\ k \notin s \ {k}
        OBVIOUS
      <4> QED
        BY <4>1
    <3> HIDE DEF more
    <3> QED
      BY <2>1, <3>2, <3>3, <3>4
  <2>2. CASE k \notin s
    <3>1. s \in SUBSET (1 .. k - 1)
      BY <1>7, <2>2
    <3>2. more[s] = iter[s]
      BY <2>2
    <3>3. more[s \ {Max(s)}] = iter[s \ {Max(s)}]
      <4>1. s \ {Max(s)} \in SUBSET (1 .. k) /\ k \notin s \ {Max(s)}
        BY <2>2
      <4> QED
        BY <4>1
    <3>4. iter[s] = IF s = {} THEN base ELSE step[<<iter[s \ {Max(s)}], Max(s)>>]
      BY <1>5, <3>1
    <3> HIDE DEF more
    <3> QED
      BY <3>2, <3>3, <3>4
  <2> QED
    BY <2>1, <2>2
<1>10. P(k)
  <2> HIDE DEF more
  <2> QED
    BY <1>8, <1>9
<1> QED
  BY <1>2, <1>10

-----------------------------------------------------------------------------
(* What nothing deleted or inserted leaves.                                 *)
LEMMA NothingToDo ==
  ASSUME NEW S \in PositionSets
  PROVE  /\ erase_at({}, S) = {}
         /\ insert_at({}, S) = S
         /\ erase_at(S, {}) = S
         /\ shift_for_insert_at(S, {}) = S
         /\ insert_at(S, {}) = S
<1>1. S \in SUBSET Nat
  BY DEF PositionSets
<1>2. ASSUME NEW i \in S PROVE shift({}, i) = i /\ unshift({}, i) = i
  <2>1. i \in Nat /\ 0 \in Nat
    BY <1>1
  <2> QED
    BY <2>1, OnePosition
<1>3. erase_at({}, S) = {}
  BY Zenon DEF erase_at
<1>4. insert_at({}, S) = S
  BY Zenon DEF insert_at, shift_for_insert_at
<1>5. \A x : x \in erase_at(S, {}) <=> x \in S
  BY <1>2, Zenon DEF erase_at
<1>6. \A x : x \in shift_for_insert_at(S, {}) <=> x \in S
  BY <1>2, Zenon DEF shift_for_insert_at
<1>7. erase_at(S, {}) = S
  BY <1>5, Zenon
<1>8. shift_for_insert_at(S, {}) = S
  BY <1>6, Zenon
<1>9. insert_at(S, {}) = S
  BY <1>8, Zenon DEF insert_at
<1> QED
  BY <1>3, <1>4, <1>7, <1>8, <1>9

(* One row comes in, goes, or goes and comes in elsewhere.                  *)
LEMMA TurnsInsert ==
  ASSUME NEW y \in Seq(Nat), NEW i \in 0 .. Len(y), NEW key \in Nat
  PROVE  Turns({}, {i}, y, InsertAt(y, i + 1, key))
<1> DEFINE z == InsertAt(y, i + 1, key)
<1>1. Len(y) \in Nat /\ i \in Nat /\ i <= Len(y) /\ i + 1 \in 1 .. Len(y) + 1
  BY RowsLen
<1>2. /\ Len(z) = Len(y) + 1
      /\ \A k \in 1 .. Len(y) + 1 : z[k] = IF k < i + 1 THEN y[k] ELSE IF k = i + 1 THEN key ELSE y[k - 1]
  <2>1. PICK p : p = i + 1
    OBVIOUS
  <2>2. p \in 1 .. Len(y) + 1
    BY <1>1, <2>1
  <2>3. Len(InsertAt(y, p, key)) = Len(y) + 1
    BY <2>2, InsertAtIs
  <2>4. \A k \in 1 .. Len(y) + 1 : InsertAt(y, p, key)[k] = IF k < p THEN y[k] ELSE IF k = p THEN key ELSE y[k - 1]
    BY <2>2, InsertAtIs
  <2> QED
    BY <2>1, <2>3, <2>4
<1>3. \A k \in Nat : shift({i}, k) = IF k < i THEN k ELSE k + 1
  BY <1>1, OnePosition
<1>4. \A k \in Nat : shift({}, k) = k
  BY <1>1, OnePosition
<1> HIDE DEF z
<1>5. SameRows({}, {i}, y, z)
  <2> SUFFICES ASSUME NEW k \in Nat
               PROVE  /\ shift({}, k) < Len(y) <=> shift({i}, k) < Len(z)
                      /\ shift({}, k) < Len(y) => y[shift({}, k) + 1] = z[shift({i}, k) + 1]
    BY DEF SameRows
  <2>1. CASE k < i
    <3>1. k < Len(y) /\ k < Len(z) /\ k + 1 \in 1 .. Len(y) + 1 /\ k + 1 < i + 1
      BY <1>1, <1>2, <2>1
    <3>2. z[k + 1] = y[k + 1]
      BY <1>2, <3>1
    <3> QED
      BY <1>3, <1>4, <2>1, <3>1, <3>2
  <2>2. CASE ~(k < i)
    <3>1. k < Len(y) <=> k + 1 < Len(z)
      BY <1>1, <1>2
    <3>2. ASSUME k < Len(y) PROVE z[(k + 1) + 1] = y[k + 1]
      <4>1. /\ (k + 1) + 1 \in 1 .. Len(y) + 1 /\ ~((k + 1) + 1 < i + 1)
            /\ (k + 1) + 1 # i + 1 /\ (k + 1) + 1 - 1 = k + 1
        BY <1>1, <2>2, <3>2
      <4> QED
        BY <1>2, <4>1
    <3> QED
      BY <1>3, <1>4, <2>2, <3>1, <3>2
  <2> QED
    BY <2>1, <2>2
<1>6. {i} \subseteq 0 .. Len(z) - 1
  BY <1>1, <1>2
<1> QED
  BY <1>5, <1>6 DEF Turns, z

LEMMA TurnsErase ==
  ASSUME NEW y \in Seq(Nat), NEW i \in Nat, i < Len(y)
  PROVE  Turns({i}, {}, y, RemoveAt(y, i + 1))
<1> DEFINE z == RemoveAt(y, i + 1)
<1>1. Len(y) \in Nat /\ i + 1 \in 1 .. Len(y)
  BY RowsLen
<1>2. /\ Len(z) = Len(y) - 1
      /\ \A k \in 1 .. Len(y) - 1 : z[k] = IF k < i + 1 THEN y[k] ELSE y[k + 1]
  BY <1>1, RemoveAtIs
<1>3. \A k \in Nat : shift({i}, k) = IF k < i THEN k ELSE k + 1
  BY <1>1, OnePosition
<1>4. \A k \in Nat : shift({}, k) = k
  BY <1>1, OnePosition
<1> HIDE DEF z
<1>5. SameRows({i}, {}, y, z)
  <2> SUFFICES ASSUME NEW k \in Nat
               PROVE  /\ shift({i}, k) < Len(y) <=> shift({}, k) < Len(z)
                      /\ shift({i}, k) < Len(y) => y[shift({i}, k) + 1] = z[shift({}, k) + 1]
    BY DEF SameRows
  <2>1. CASE k < i
    <3>1. k < Len(y) /\ k < Len(z) /\ k + 1 \in 1 .. Len(y) - 1 /\ k + 1 < i + 1
      BY <1>1, <1>2, <2>1
    <3>2. z[k + 1] = y[k + 1]
      BY <1>2, <3>1
    <3> QED
      BY <1>3, <1>4, <2>1, <3>1, <3>2
  <2>2. CASE ~(k < i)
    <3>1. k + 1 < Len(y) <=> k < Len(z)
      BY <1>1, <1>2
    <3>2. ASSUME k < Len(z) PROVE z[k + 1] = y[(k + 1) + 1]
      <4>1. k + 1 \in 1 .. Len(y) - 1 /\ ~(k + 1 < i + 1)
        BY <1>1, <1>2, <2>2, <3>2
      <4> QED
        BY <1>2, <4>1
    <3> QED
      BY <1>3, <1>4, <2>2, <3>1, <3>2
  <2> QED
    BY <2>1, <2>2
<1>6. {i} \subseteq 0 .. Len(y) - 1
  BY <1>1
<1> QED
  BY <1>5, <1>6 DEF Turns, z

Moved(y, from, to) == InsertAt(RemoveAt(y, from + 1), to + 1, y[from + 1])

LEMMA TurnsMove ==
  ASSUME NEW y \in Seq(Nat), NEW from \in Nat, from < Len(y), NEW to \in Nat, to < Len(y)
  PROVE  /\ Moved(y, from, to) \in Seq(Nat)
         /\ Len(Moved(y, from, to)) = Len(y)
         /\ Turns({from}, {to}, y, Moved(y, from, to))
<1> DEFINE w == RemoveAt(y, from + 1)
           z == InsertAt(w, to + 1, y[from + 1])
<1>1. Len(y) \in Nat /\ from + 1 \in 1 .. Len(y) /\ y[from + 1] \in Nat
  BY RowsLen
<1>2. w \in Seq(Nat) /\ Len(w) = Len(y) - 1
  BY <1>1, RemoveAtIs
<1>3. Turns({from}, {}, y, w)
  BY TurnsErase
<1> HIDE DEF w
<1>4. to \in 0 .. Len(w) /\ to + 1 \in 1 .. Len(w) + 1
  BY <1>1, <1>2
<1>5. Turns({}, {to}, w, z)
  BY <1>1, <1>2, <1>4, TurnsInsert
<1>6. z \in Seq(Nat) /\ Len(z) = Len(y)
  <2>1. PICK e \in Nat : e = y[from + 1]
    BY <1>1
  <2>2. PICK p \in 1 .. Len(w) + 1 : p = to + 1
    BY <1>4
  <2>3. InsertAt(w, p, e) \in Seq(Nat) /\ Len(InsertAt(w, p, e)) = Len(w) + 1
    <3> HIDE DEF z
    <3>1. PICK v \in Seq(Nat) : v = w
      BY <1>2
    <3>2. p \in 1 .. Len(v) + 1
      BY <2>2, <3>1
    <3>3. InsertAt(v, p, e) \in Seq(Nat)
      BY <3>2, InsertAtIs
    <3>4. Len(InsertAt(v, p, e)) = Len(v) + 1
      BY <3>2, InsertAtIs
    <3> QED
      BY <3>1, <3>3, <3>4
  <2>4. z \in Seq(Nat) /\ Len(z) = Len(w) + 1
    BY <2>1, <2>2, <2>3
  <2> QED
    BY <1>1, <1>2, <2>4
<1> HIDE DEF z
<1>7. Turns(insert_at(erase_at({}, {}), {from}), insert_at(erase_at({}, {}), {to}), y, z)
  BY <1>2, <1>3, <1>5, <1>6, TurnsCompose
<1>8. {} \in PositionSets /\ {from} \in PositionSets /\ {to} \in PositionSets
  BY <1>2, <1>3, <1>5, <1>6, TurnsSets
<1>9. erase_at({}, {}) = {} /\ insert_at({}, {from}) = {from} /\ insert_at({}, {to}) = {to}
  BY <1>8, NothingToDo
<1>10. Turns({from}, {to}, y, z)
  BY <1>7, <1>9
<1> QED
  BY <1>6, <1>10 DEF z, w, Moved

-----------------------------------------------------------------------------
MoveRec == [from : Nat, to : Nat]
ChangeRec == [deletions : SUBSET Nat, insertions : SUBSET Nat, modifications : SUBSET Nat,
              moves : Seq(MoveRec)]

(* A move of one row, among the deletions D and the insertions I.           *)
GoodMove(m, D, I, x, y) ==
  m \in MoveRec /\ m.from \in D /\ m.to \in I /\ x[m.from + 1] = y[m.to + 1]

DistinctFroms(ms) == \A k, l \in DOMAIN ms : ms[k].from = ms[l].from => k = l

(* The changes c are right about rows x that became y, but for the          *)
(* modifications.                                                           *)
Right(c, x, y) ==
  /\ c \in ChangeRec
  /\ Turns(c.deletions, c.insertions, x, y)
  /\ \A m \in ToSet(c.moves) : GoodMove(m, c.deletions, c.insertions, x, y)
  /\ DistinctFroms(c.moves)

(* The positions M, of the rows y, are right about the modified rows T,     *)
(* except for rows that came.                                               *)
Told(M, I, ms, y, T) ==
  /\ M \subseteq 0 .. Len(y) - 1
  /\ \A j \in 0 .. Len(y) - 1 :
       j \notin I \/ (\E m \in ToSet(ms) : m.to = j) => (j \in M <=> y[j + 1] \in T)

(* A move stays right when its row stays in the changes that follow.        *)
LEMMA MoveCarried ==
  ASSUME NEW x \in Seq(Nat), NEW y \in Seq(Nat), NEW z \in Seq(Nat),
         NEW D, NEW I, NEW E, NEW J, Turns(D, I, x, y), Turns(E, J, y, z),
         NEW m, GoodMove(m, D, I, x, y), m.to \notin E
  PROVE  GoodMove([m EXCEPT !.to = shift(J, unshift(E, m.to))],
                  insert_at(erase_at(E, I), D), insert_at(erase_at(I, E), J), x, z)
<1> DEFINE t == shift(J, unshift(E, m.to))
           n == [m EXCEPT !.to = t]
<1>1. m \in MoveRec /\ m.from \in D /\ m.to \in I /\ x[m.from + 1] = y[m.to + 1]
  BY DEF GoodMove
<1>2. m.to \in Nat \ E /\ m.to < Len(y)
  BY <1>1, RowsLen DEF MoveRec, Turns
<1>3. t \in Nat /\ y[m.to + 1] = z[t + 1]
  <2>1. PICK i \in Nat \ E : i = m.to
    BY <1>2
  <2>2. i < Len(y)
    BY <1>2, <2>1
  <2>3. shift(J, unshift(E, i)) \in Nat /\ y[i + 1] = z[shift(J, unshift(E, i)) + 1]
    <3>1. shift(J, unshift(E, i)) \in Nat \ J
      BY <2>2, StaysSame
    <3>2. y[i + 1] = z[shift(J, unshift(E, i)) + 1]
      BY <2>2, StaysSame
    <3> QED
      BY <3>1, <3>2
  <2> QED
    BY <2>1, <2>3
<1> HIDE DEF t
<1>4. n \in MoveRec /\ n.from = m.from /\ n.to = t
  BY <1>1, <1>3 DEF MoveRec
<1>5. m.from \in insert_at(erase_at(E, I), D)
  BY <1>1 DEF insert_at
<1>6. t \in insert_at(erase_at(I, E), J)
  BY <1>1, <1>2 DEF insert_at, shift_for_insert_at, erase_at, t
<1> HIDE DEF n
<1>7. GoodMove(n, insert_at(erase_at(E, I), D), insert_at(erase_at(I, E), J), x, z)
  BY <1>1, <1>3, <1>4, <1>5, <1>6 DEF GoodMove
<1> QED
  BY <1>7 DEF n, t

(* Where the rows that stay were before: the positions M of modified ones   *)
(* and the insertions I go with them.                                       *)
LEMMA PositionsCarried ==
  ASSUME NEW y \in Seq(Nat), NEW z \in Seq(Nat), NEW E, NEW J, Turns(E, J, y, z),
         NEW M \in PositionSets, NEW I \in PositionSets,
         NEW j \in Nat, j < Len(z), j \notin J
  PROVE  /\ shift(E, unshift(J, j)) \in Nat \ E
         /\ shift(E, unshift(J, j)) < Len(y)
         /\ y[shift(E, unshift(J, j)) + 1] = z[j + 1]
         /\ j \in shift_for_insert_at(erase_at(M, E), J) <=> shift(E, unshift(J, j)) \in M
         /\ j \in insert_at(erase_at(I, E), J) <=> shift(E, unshift(J, j)) \in I
         /\ j = shift(J, unshift(E, shift(E, unshift(J, j))))
<1> DEFINE u == unshift(J, j)
           i == shift(E, u)
<1>1. E \in PositionSets /\ J \in PositionSets
  BY TurnsSets
<1>2. u \in Nat /\ shift(J, u) = j
  BY <1>1, ShiftUnshift
<1> HIDE DEF u
<1>3. i \in Nat /\ i \notin E /\ unshift(E, i) = u
  BY <1>1, <1>2, ShiftIs
<1>4. i < Len(y) /\ y[i + 1] = z[j + 1]
  BY StaysSame DEF u
<1>5. ASSUME NEW S \in PositionSets
      PROVE  j \in shift_for_insert_at(erase_at(S, E), J) <=> i \in S
  <2>1. j \in shift_for_insert_at(erase_at(S, E), J) <=> \E k \in erase_at(S, E) : j = shift(J, k)
    BY DEF shift_for_insert_at
  <2>2. erase_at(S, E) \in SUBSET Nat
    BY <1>1, PositionSetsClosed DEF PositionSets
  <2>3. \A k \in erase_at(S, E) : j = shift(J, k) => k = u
    <3> SUFFICES ASSUME NEW k \in erase_at(S, E), j = shift(J, k) PROVE k = u
      OBVIOUS
    <3>1. k \in Nat
      BY <2>2
    <3> QED
      BY <1>1, <1>2, <3>1, ShiftOrder
  <2>4. j \in shift_for_insert_at(erase_at(S, E), J) <=> u \in erase_at(S, E)
    BY <1>2, <2>1, <2>3
  <2>5. u \in erase_at(S, E) <=> i \in S
    BY <1>1, <1>2, EraseInsert
  <2> QED
    BY <2>4, <2>5
<1>6. j \in insert_at(erase_at(I, E), J) <=> i \in I
  BY <1>5 DEF insert_at
<1> QED
  BY <1>2, <1>3, <1>4, <1>5, <1>6 DEF u

(* Positions that are carried are positions of the new rows, and none of    *)
(* those that were put in.                                                  *)
LEMMA CarriedRange ==
  ASSUME NEW y \in Seq(Nat), NEW z \in Seq(Nat), NEW E, NEW J, Turns(E, J, y, z),
         NEW M, M \subseteq 0 .. Len(y) - 1
  PROVE  /\ M \in PositionSets
         /\ \A j \in shift_for_insert_at(erase_at(M, E), J) : j \in 0 .. Len(z) - 1 /\ j \notin J
<1>1. Len(y) \in Nat /\ Len(z) \in Nat
  BY RowsLen
<1>2. M \in SUBSET Nat /\ \A i \in M : i < Len(y)
  BY <1>1
<1>3. M \in PositionSets
  BY <1>1, <1>2 DEF PositionSets
<1>4. ASSUME NEW j \in shift_for_insert_at(erase_at(M, E), J)
      PROVE  j \in 0 .. Len(z) - 1 /\ j \notin J
  <2>1. PICK i \in M \ E : j = shift(J, unshift(E, i))
    BY DEF shift_for_insert_at, erase_at
  <2>2. i \in Nat \ E /\ i < Len(y)
    BY <1>2
  <2>3. j \in Nat \ J /\ j < Len(z)
    BY <2>1, <2>2, StaysSame
  <2> QED
    BY <1>1, <2>3
<1> QED
  BY <1>3, <1>4

-----------------------------------------------------------------------------
(* One row moves at most once, and nowhere else another row moves.          *)
LEMMA RightMoves ==
  ASSUME NEW x \in Seq(Nat), NEW y \in Seq(Nat), NEW c, Right(c, x, y),
         IsInjective(x), IsInjective(y)
  PROVE  /\ MovesOf(c, x, y)
         /\ \A k, l \in DOMAIN c.moves : c.moves[k].to = c.moves[l].to => k = l
<1>1. c.moves \in Seq(MoveRec)
  BY DEF Right, ChangeRec
<1>2. \A k \in DOMAIN c.moves : c.moves[k] \in ToSet(c.moves)
  BY DEF ToSet
<1>3. MovesOf(c, x, y)
  BY DEF MovesOf, Right, GoodMove, DistinctFroms, IsInjective
<1>4. ASSUME NEW k \in DOMAIN c.moves, NEW l \in DOMAIN c.moves, c.moves[k].to = c.moves[l].to
      PROVE  k = l
  <2>1. /\ GoodMove(c.moves[k], c.deletions, c.insertions, x, y)
        /\ GoodMove(c.moves[l], c.deletions, c.insertions, x, y)
    BY <1>2 DEF Right
  <2>2. x[c.moves[k].from + 1] = x[c.moves[l].from + 1]
    BY <1>4, <2>1 DEF GoodMove
  <2>3. c.moves[k].from \in 0 .. Len(x) - 1 /\ c.moves[l].from \in 0 .. Len(x) - 1
    BY <2>1 DEF GoodMove, Right, Turns
  <2>4. /\ c.moves[k].from + 1 \in DOMAIN x /\ c.moves[l].from + 1 \in DOMAIN x
        /\ c.moves[k].from \in Nat /\ c.moves[l].from \in Nat
    <3>1. PICK n \in Nat : n = Len(x) /\ DOMAIN x = 1 .. n
      BY RowsLen
    <3>2. \A i \in 0 .. n - 1 : i \in Nat /\ i + 1 \in 1 .. n
      OBVIOUS
    <3> QED
      BY <2>3, <3>1, <3>2
  <2>5. c.moves[k].from + 1 = c.moves[l].from + 1
    BY <2>2, <2>4 DEF IsInjective
  <2>6. c.moves[k].from = c.moves[l].from
    BY <2>4, <2>5, SMTT(40)
  <2> QED
    BY <2>6 DEF Right, DistinctFroms
<1> QED
  BY <1>3, <1>4

-----------------------------------------------------------------------------
(* What is picked from a sequence: the elements at the places, in order.    *)
PicksAt(seq, places, c, at) ==
  /\ Picked(seq, places) = [k \in 1 .. c |-> seq[at[k]]]
  /\ \A k, l \in 1 .. c : k < l => at[k] < at[l]
  /\ \A p \in places : \E k \in 1 .. c : at[k] = p

LEMMA PickedOrder ==
  ASSUME NEW n \in Nat, NEW seq, DOMAIN seq = 1 .. n, NEW places \in SUBSET (1 .. n)
  PROVE  \E c \in Nat : \E at \in [1 .. c -> places] : PicksAt(seq, places, c, at)
<1> DEFINE Q == (0 .. n) \ places
           c == Cardinality(places)
           at == [k \in 1 .. c |-> shift(Q, k - 1)]
<1>1. places \in SUBSET Nat /\ Q \in PositionSets
  <2>1. Q \in SUBSET (0 .. n) /\ places \in SUBSET Nat
    OBVIOUS
  <2> HIDE DEF Q
  <2> QED
    BY <2>1, UpTo
<1>2. /\ c \in Nat
      /\ \A k \in Nat : k < c <=> shift(Q, k) \in places
      /\ \A k \in Nat : k < c => Picked(seq, places)[k + 1] = seq[shift(Q, k)]
  <2>1. Q = (0 .. n) \ places
    OBVIOUS
  <2> HIDE DEF Q
  <2>2. Cardinality(places) \in Nat
    BY <2>1, PickedIs
  <2>3. \A k \in Nat : k < Cardinality(places) <=> shift(Q, k) \in places
    BY <2>1, PickedIs
  <2>4. \A k \in Nat : k < Cardinality(places) => Picked(seq, places)[k + 1] = seq[shift(Q, k)]
    BY <2>1, PickedIs
  <2> QED
    BY <2>2, <2>3, <2>4
<1>3. \A p \in places : p \in Nat /\ p \notin Q
  BY <1>1
<1>4. Picked(seq, places) = [k \in 1 .. c |-> Picked(seq, places)[k]]
  BY PickedFunction
<1> HIDE DEF Q, c
<1>5. \A k \in 1 .. c : k - 1 \in Nat /\ k - 1 < c /\ (k - 1) + 1 = k
  BY <1>2
<1>6. at \in [1 .. c -> places]
  BY <1>2, <1>5
<1>7. \A k \in 1 .. c : Picked(seq, places)[k] = seq[at[k]]
  BY <1>2, <1>5
<1>8. Picked(seq, places) = [k \in 1 .. c |-> seq[at[k]]]
  <2> HIDE DEF at
  <2> QED
    BY <1>4, <1>7
<1>9. ASSUME NEW k \in 1 .. c, NEW l \in 1 .. c, k < l PROVE at[k] < at[l]
  <2>1. k - 1 \in Nat /\ l - 1 \in Nat /\ k - 1 < l - 1
    BY <1>2, <1>9
  <2>2. shift(Q, k - 1) < shift(Q, l - 1)
    BY <1>1, <2>1, ShiftOrder
  <2> QED
    BY <2>2
<1>10. ASSUME NEW p \in places PROVE \E k \in 1 .. c : at[k] = p
  <2>1. unshift(Q, p) \in Nat /\ shift(Q, unshift(Q, p)) = p
    BY <1>1, <1>3, ShiftUnshift
  <2>2. unshift(Q, p) < c
    BY <1>2, <2>1
  <2>3. PICK u \in Nat : u = unshift(Q, p) /\ u < c
    BY <2>1, <2>2
  <2>4. u + 1 \in 1 .. c /\ (u + 1) - 1 = u
    BY <1>2, <2>3
  <2>5. at[u + 1] = p
    BY <2>1, <2>3, <2>4
  <2> QED
    BY <2>4, <2>5
<1> HIDE DEF at
<1>11. PicksAt(seq, places, c, at)
  BY <1>8, <1>9, <1>10 DEF PicksAt
<1> QED
  BY <1>2, <1>6, <1>11

(* The members of a sequence of moves.                                      *)
LEMMA MovesAre ==
  ASSUME NEW ms \in Seq(MoveRec)
  PROVE  /\ Len(ms) \in Nat /\ DOMAIN ms = 1 .. Len(ms)
         /\ \A k \in DOMAIN ms : /\ ms[k] \in MoveRec /\ ms[k] \in ToSet(ms)
                                 /\ ms[k].from \in Nat /\ ms[k].to \in Nat
         /\ \A m \in ToSet(ms) : /\ m \in MoveRec /\ m.from \in Nat /\ m.to \in Nat
                                 /\ \E k \in DOMAIN ms : m = ms[k]
<1>1. Len(ms) \in Nat /\ DOMAIN ms = 1 .. Len(ms) /\ \A k \in DOMAIN ms : ms[k] \in MoveRec
  BY RowsLen
<1>2. \A m \in MoveRec : m.from \in Nat /\ m.to \in Nat
  BY DEF MoveRec
<1>3. \A m : m \in ToSet(ms) <=> \E k \in DOMAIN ms : m = ms[k]
  BY Zenon DEF ToSet
<1> QED
  BY <1>1, <1>2, <1>3

(* A move more, from elsewhere, keeps the sources distinct.                 *)
LEMMA OneMoreMove ==
  ASSUME NEW ms \in Seq(MoveRec), DistinctFroms(ms), NEW m \in MoveRec,
         \A o \in ToSet(ms) : o.from # m.from
  PROVE  /\ Append(ms, m) \in Seq(MoveRec)
         /\ DistinctFroms(Append(ms, m))
         /\ ToSet(Append(ms, m)) = ToSet(ms) \cup {m}
<1>1. /\ Append(ms, m) \in Seq(MoveRec) /\ Len(Append(ms, m)) = Len(ms) + 1
      /\ \A j \in 1 .. Len(ms) : Append(ms, m)[j] = ms[j]
      /\ Append(ms, m)[Len(ms) + 1] = m
      /\ ToSet(Append(ms, m)) = ToSet(ms) \cup {m}
  BY AppendIs
<1>2. PICK as \in Seq(MoveRec) : as = Append(ms, m)
  BY <1>1
<1>3. Len(ms) \in Nat /\ DOMAIN as = 1 .. Len(ms) + 1 /\ DOMAIN ms = 1 .. Len(ms)
  BY <1>1, <1>2, RowsLen
<1>4. \A j \in DOMAIN ms : ms[j].from # m.from
  BY DEF ToSet
<1>5. \A j \in DOMAIN as : (j \in DOMAIN ms /\ as[j] = ms[j]) \/ (j = Len(ms) + 1 /\ as[j] = m)
  BY <1>1, <1>2, <1>3
<1>6. DistinctFroms(as)
  <2> SUFFICES ASSUME NEW j \in DOMAIN as, NEW l \in DOMAIN as, as[j].from = as[l].from PROVE j = l
    BY DEF DistinctFroms
  <2> QED
    BY <1>4, <1>5 DEF DistinctFroms
<1> QED
  BY <1>1, <1>2, <1>6

(* Moves picked from moves.                                                 *)
LEMMA PickedMoves ==
  ASSUME NEW ms \in Seq(MoveRec), NEW places \in SUBSET DOMAIN ms
  PROVE  /\ Picked(ms, places) \in Seq(MoveRec)
         /\ ToSet(Picked(ms, places)) = {ms[p] : p \in places}
         /\ DistinctFroms(ms) => DistinctFroms(Picked(ms, places))
<1>1. PICK n \in Nat : n = Len(ms) /\ DOMAIN ms = 1 .. n /\ \A k \in 1 .. n : ms[k] \in MoveRec
  BY RowsLen
<1>2. places \in SUBSET (1 .. n)
  BY <1>1
<1>3. PICK c \in Nat : \E at \in [1 .. c -> places] : PicksAt(ms, places, c, at)
  BY <1>1, <1>2, PickedOrder
<1>4. PICK at \in [1 .. c -> places] :
           /\ Picked(ms, places) = [k \in 1 .. c |-> ms[at[k]]]
           /\ \A k, l \in 1 .. c : k < l => at[k] < at[l]
           /\ \A p \in places : \E k \in 1 .. c : at[k] = p
  BY <1>3 DEF PicksAt
<1>5. \A k \in 1 .. c : at[k] \in places /\ at[k] \in 1 .. n
  BY <1>2, <1>4
<1> DEFINE picked == [k \in 1 .. c |-> ms[at[k]]]
<1>6. picked \in Seq(MoveRec)
  BY <1>1, <1>5
<1>7. DOMAIN picked = 1 .. c /\ \A k \in 1 .. c : picked[k] = ms[at[k]]
  OBVIOUS
<1> HIDE DEF picked
<1>8. ToSet(picked) = {ms[p] : p \in places}
  <2>1. \A o : o \in ToSet(picked) <=> \E k \in 1 .. c : o = ms[at[k]]
    BY <1>7, ZenonT(40) DEF ToSet
  <2>2. \A o : (\E k \in 1 .. c : o = ms[at[k]]) <=> \E p \in places : o = ms[p]
    BY <1>4, <1>5
  <2> QED
    BY <2>1, <2>2, Zenon
<1>9. ASSUME DistinctFroms(ms) PROVE DistinctFroms(picked)
  <2> SUFFICES ASSUME NEW k \in 1 .. c, NEW l \in 1 .. c, picked[k].from = picked[l].from PROVE k = l
    BY <1>7 DEF DistinctFroms
  <2>1. at[k] = at[l]
    BY <1>1, <1>5, <1>7, <1>9 DEF DistinctFroms
  <2>2. at[k] \in Nat /\ at[l] \in Nat
    BY <1>5
  <2> QED
    BY <1>4, <2>1, <2>2
<1> QED
  BY <1>4, <1>6, <1>8, <1>9 DEF picked

-----------------------------------------------------------------------------
(* A move whose row stays in the changes with deletions E and insertions J. *)
carried(m, E, J) == [m EXCEPT !.to = shift(J, unshift(E, m.to))]

(* Changes that are right, followed by others.                              *)
LEMMA RightFollowed ==
  ASSUME NEW x \in Seq(Nat), NEW y \in Seq(Nat), NEW z \in Seq(Nat), NEW c, Right(c, x, y),
         NEW E, NEW J, Turns(E, J, y, z), NEW c2 \in ChangeRec,
         c2.deletions = insert_at(erase_at(E, c.insertions), c.deletions),
         c2.insertions = insert_at(erase_at(c.insertions, E), J),
         DistinctFroms(c2.moves),
         \A m2 \in ToSet(c2.moves) :
           \/ \E m \in ToSet(c.moves) : m.to \notin E /\ m2 = carried(m, E, J)
           \/ GoodMove(m2, c2.deletions, c2.insertions, x, z)
  PROVE  Right(c2, x, z)
<1>1. Turns(c.deletions, c.insertions, x, y)
  BY DEF Right
<1>2. Turns(c2.deletions, c2.insertions, x, z)
  BY <1>1, TurnsCompose
<1>3. ASSUME NEW m \in ToSet(c.moves), m.to \notin E
      PROVE  GoodMove(carried(m, E, J), c2.deletions, c2.insertions, x, z)
  <2>1. GoodMove(m, c.deletions, c.insertions, x, y)
    BY DEF Right
  <2> QED
    BY <1>1, <1>3, <2>1, MoveCarried DEF carried
<1>4. \A m2 \in ToSet(c2.moves) : GoodMove(m2, c2.deletions, c2.insertions, x, z)
  BY <1>3
<1> QED
  BY <1>2, <1>4 DEF Right

(* The modified rows told of, when changes are followed by others, which    *)
(* tell of the rows T2.                                                     *)
LEMMA ToldFollowed ==
  ASSUME NEW y \in Seq(Nat), NEW z \in Seq(Nat), NEW E, NEW J, Turns(E, J, y, z),
         NEW M, NEW I \in PositionSets, NEW ms \in Seq(MoveRec), NEW T, Told(M, I, ms, y, T),
         NEW M2, M2 \subseteq 0 .. Len(z) - 1, NEW ms2, NEW T2,
         \A m2 \in ToSet(ms2) : m2.to \notin J =>
           \E m \in ToSet(ms) : m.to \notin E /\ m2.to = shift(J, unshift(E, m.to)),
         \A j \in 0 .. Len(z) - 1 : j \notin J =>
           (j \in M2 <=> j \in shift_for_insert_at(erase_at(M, E), J) \/ z[j + 1] \in T2),
         \A j \in J : (\E m2 \in ToSet(ms2) : m2.to = j) =>
           (j \in M2 <=> z[j + 1] \in T \/ z[j + 1] \in T2)
  PROVE  Told(M2, insert_at(erase_at(I, E), J), ms2, z, T \cup T2)
<1>1. E \in PositionSets /\ J \in PositionSets
  BY TurnsSets
<1>2. M \in PositionSets
  BY CarriedRange DEF Told
<1>3. \A m \in ToSet(ms) : m.to \in Nat
  BY MovesAre
<1>4. \A j \in J : j \in insert_at(erase_at(I, E), J)
  BY DEF insert_at
<1>5. Len(y) \in Nat /\ Len(z) \in Nat
  BY RowsLen
<1>6. ASSUME NEW j \in 0 .. Len(z) - 1, j \notin J,
             j \notin insert_at(erase_at(I, E), J) \/ \E m2 \in ToSet(ms2) : m2.to = j
      PROVE  j \in M2 <=> z[j + 1] \in T \/ z[j + 1] \in T2
  <2>1. j \in Nat /\ j < Len(z)
    BY <1>5
  <2> DEFINE i == shift(E, unshift(J, j))
  <2>2. /\ i \in Nat \ E /\ i < Len(y) /\ y[i + 1] = z[j + 1]
        /\ j = shift(J, unshift(E, i))
    BY <1>2, <1>6, <2>1, PositionsCarried
  <2>3. j \in shift_for_insert_at(erase_at(M, E), J) <=> i \in M
    BY <1>2, <1>6, <2>1, PositionsCarried
  <2>4. j \in insert_at(erase_at(I, E), J) <=> i \in I
    BY <1>2, <1>6, <2>1, PositionsCarried
  <2> HIDE DEF i
  <2>5. i \notin I \/ \E m \in ToSet(ms) : m.to = i
    <3>1. CASE j \notin insert_at(erase_at(I, E), J)
      BY <2>4, <3>1
    <3>2. CASE \E m2 \in ToSet(ms2) : m2.to = j
      <4>1. PICK m \in ToSet(ms) : m.to \notin E /\ j = shift(J, unshift(E, m.to))
        BY <1>6, <3>2
      <4>2. PICK k \in Nat : k = m.to /\ k \notin E
        BY <1>3, <4>1
      <4>3. unshift(E, k) \in Nat /\ shift(E, unshift(E, k)) = k
        BY <1>1, <4>2, ShiftUnshift
      <4>4. unshift(E, i) \in Nat /\ shift(E, unshift(E, i)) = i
        BY <1>1, <2>2, ShiftUnshift
      <4>5. unshift(E, k) = unshift(E, i)
        BY <1>1, <2>2, <4>1, <4>2, <4>3, <4>4, ShiftOrder
      <4> QED
        BY <4>2, <4>3, <4>4, <4>5
    <3> QED
      BY <1>6, <3>1, <3>2
  <2>6. i \in 0 .. Len(y) - 1
    BY <1>5, <2>2
  <2>7. i \in M <=> y[i + 1] \in T
    BY <2>5, <2>6 DEF Told
  <2> QED
    BY <1>6, <2>2, <2>3, <2>7
<1>7. ASSUME NEW j \in 0 .. Len(z) - 1,
             j \notin insert_at(erase_at(I, E), J) \/ \E m2 \in ToSet(ms2) : m2.to = j
      PROVE  j \in M2 <=> z[j + 1] \in T \cup T2
  <2>1. CASE j \in J
    BY <1>4, <1>7, <2>1
  <2>2. CASE j \notin J
    BY <1>6, <1>7, <2>2
  <2> QED
    BY <2>1, <2>2
<1> QED
  BY <1>7 DEF Told

-----------------------------------------------------------------------------
(* Changes that are right, and right about the modified rows T.             *)
Exact(c, x, y, T) == Right(c, x, y) /\ Told(c.modifications, c.insertions, c.moves, y, T)

(* Moves with other destinations.                                           *)
LEMMA MappedMoves ==
  ASSUME NEW ms \in Seq(MoveRec), NEW to \in [DOMAIN ms -> Nat]
  PROVE  LET ms2 == [k \in DOMAIN ms |-> [ms[k] EXCEPT !.to = to[k]]]
         IN /\ ms2 \in Seq(MoveRec)
            /\ \A m2 \in ToSet(ms2) : \E k \in DOMAIN ms : m2 = [ms[k] EXCEPT !.to = to[k]]
            /\ DistinctFroms(ms) => DistinctFroms(ms2)
<1> DEFINE ms2 == [k \in DOMAIN ms |-> [ms[k] EXCEPT !.to = to[k]]]
<1>1. \A k \in DOMAIN ms : ms[k] \in MoveRec /\ to[k] \in Nat
  OBVIOUS
<1>2. \A k \in DOMAIN ms : [ms[k] EXCEPT !.to = to[k]] \in MoveRec /\ [ms[k] EXCEPT !.to = to[k]].from = ms[k].from
  BY <1>1 DEF MoveRec
<1>3. ms2 \in Seq(MoveRec)
  BY <1>2
<1>4. DOMAIN ms2 = DOMAIN ms /\ \A k \in DOMAIN ms : ms2[k] = [ms[k] EXCEPT !.to = to[k]]
  OBVIOUS
<1> HIDE DEF ms2
<1>5. \A m2 \in ToSet(ms2) : \E k \in DOMAIN ms : m2 = [ms[k] EXCEPT !.to = to[k]]
  BY <1>4, Zenon DEF ToSet
<1>6. DistinctFroms(ms) => DistinctFroms(ms2)
  BY <1>2, <1>4 DEF DistinctFroms
<1> QED
  BY <1>3, <1>5, <1>6 DEF ms2

(* What deletions E and insertions J, and nothing else, make of changes.    *)
LEMMA ChangedSets ==
  ASSUME NEW x \in Seq(Nat), NEW y \in Seq(Nat), NEW c, NEW T, Exact(c, x, y, T)
  PROVE  /\ c \in ChangeRec
         /\ c.deletions \in PositionSets
         /\ c.insertions \in PositionSets
         /\ c.modifications \in PositionSets
         /\ c.modifications \in SUBSET Nat
<1>1. c \in ChangeRec /\ Turns(c.deletions, c.insertions, x, y)
  BY DEF Exact, Right
<1>2. c.deletions \in PositionSets /\ c.insertions \in PositionSets
  BY <1>1, TurnsSets
<1>3. c.modifications \subseteq 0 .. Len(y) - 1
  BY DEF Exact, Told
<1>4. c.modifications \in PositionSets
  <2>1. \A n \in Nat : \A S : S \subseteq 0 .. n - 1 => S \in PositionSets
    <3> SUFFICES ASSUME NEW n \in Nat, NEW S, S \subseteq 0 .. n - 1 PROVE S \in PositionSets
      OBVIOUS
    <3>1. S \in SUBSET Nat /\ \A i \in S : i < n
      OBVIOUS
    <3> QED
      BY <3>1 DEF PositionSets
  <2> QED
    BY <1>3, <2>1, RowsLen
<1> QED
  BY <1>1, <1>2, <1>4 DEF PositionSets

(* list_set keeps changes exact.                                            *)
LEMMA ModifyIsExact ==
  ASSUME NEW x \in Seq(Nat), NEW y \in Seq(Nat), NEW c, NEW T, Exact(c, x, y, T),
         NEW i \in Nat, i < Len(y), IsInjective(y)
  PROVE  Exact(modify(c, i), x, y, T \cup {y[i + 1]})
<1> DEFINE c2 == modify(c, i)
<1>1. c \in ChangeRec
  BY ChangedSets
<1>2. /\ c2 \in ChangeRec
      /\ c2.deletions = c.deletions /\ c2.insertions = c.insertions /\ c2.moves = c.moves
      /\ c2.modifications = c.modifications \cup {i}
  BY <1>1 DEF modify, ChangeRec
<1> HIDE DEF c2
<1>3. Right(c2, x, y)
  BY <1>2 DEF Exact, Right
<1>4. PICK n \in Nat : n = Len(y) /\ DOMAIN y = 1 .. n
  BY RowsLen
<1>5. i \in 0 .. n - 1 /\ \A j \in 0 .. n - 1 : j \in Nat /\ j + 1 \in DOMAIN y /\ i + 1 \in DOMAIN y
  BY <1>4
<1>6. \A j \in 0 .. n - 1 : y[j + 1] = y[i + 1] <=> j = i
  BY <1>5 DEF IsInjective
<1>7. Told(c2.modifications, c2.insertions, c2.moves, y, T \cup {y[i + 1]})
  BY <1>2, <1>4, <1>5, <1>6 DEF Exact, Told
<1> QED
  BY <1>3, <1>7 DEF Exact, c2

(* The rows that follow changes, and nothing told of them.                  *)
Follows(c2, c, E, J, x, z, T) ==
  /\ c2 \in ChangeRec
  /\ c2.deletions = insert_at(erase_at(E, c.insertions), c.deletions)
  /\ c2.insertions = insert_at(erase_at(c.insertions, E), J)
  /\ DistinctFroms(c2.moves)
  /\ \A m2 \in ToSet(c2.moves) :
       \/ \E m \in ToSet(c.moves) : m.to \notin E /\ m2 = carried(m, E, J)
       \/ GoodMove(m2, c2.deletions, c2.insertions, x, z) /\ m2.to \in J
  /\ \A j \in Nat : j \notin J =>
       (j \in c2.modifications <=> j \in shift_for_insert_at(erase_at(c.modifications, E), J))
  /\ \A j \in J : (\E m2 \in ToSet(c2.moves) : m2.to = j) =>
       (j \in c2.modifications <=> z[j + 1] \in T)

LEMMA ExactFollowed ==
  ASSUME NEW x \in Seq(Nat), NEW y \in Seq(Nat), NEW z \in Seq(Nat), NEW c, NEW T, Exact(c, x, y, T),
         NEW E, NEW J, Turns(E, J, y, z), NEW c2, Follows(c2, c, E, J, x, z, T)
  PROVE  Exact(c2, x, z, T)
<1> USE DEF Follows
<1>1. Right(c, x, y) /\ Told(c.modifications, c.insertions, c.moves, y, T)
  BY DEF Exact
<1>2. Right(c2, x, z)
  <2>1. \A m2 \in ToSet(c2.moves) :
           \/ \E m \in ToSet(c.moves) : m.to \notin E /\ m2 = carried(m, E, J)
           \/ GoodMove(m2, c2.deletions, c2.insertions, x, z)
    OBVIOUS
  <2> QED
    BY <1>1, <2>1, RightFollowed
<1>3. c2.modifications \in SUBSET Nat /\ c.moves \in Seq(MoveRec)
  BY <1>1 DEF ChangeRec, Right
<1>4. c2.modifications \subseteq 0 .. Len(z) - 1
  <2>1. c.modifications \subseteq 0 .. Len(y) - 1
    BY <1>1 DEF Told
  <2>2. \A j \in shift_for_insert_at(erase_at(c.modifications, E), J) : j \in 0 .. Len(z) - 1
    BY <2>1, CarriedRange
  <2>3. \A j \in c2.modifications : j \in Nat
    BY <1>3
  <2>4. J \subseteq 0 .. Len(z) - 1
    BY DEF Turns
  <2>5. ASSUME NEW j \in c2.modifications PROVE j \in 0 .. Len(z) - 1
    BY <2>2, <2>3, <2>4
  <2> QED
    BY <2>5
<1>5. \A m2 \in ToSet(c2.moves) : m2.to \notin J =>
        \E m \in ToSet(c.moves) : m.to \notin E /\ m2.to = shift(J, unshift(E, m.to))
  <2>1. \A m \in ToSet(c.moves) : m \in MoveRec
    BY <1>3 DEF ToSet
  <2>2. \A m \in ToSet(c.moves) : carried(m, E, J).to = shift(J, unshift(E, m.to))
    BY <2>1 DEF carried, MoveRec
  <2> QED
    BY <2>2
<1>6. \A j \in 0 .. Len(z) - 1 : j \notin J =>
        (j \in c2.modifications <=> j \in shift_for_insert_at(erase_at(c.modifications, E), J)
                                      \/ z[j + 1] \in {})
  <2>1. \A j \in 0 .. Len(z) - 1 : j \in Nat
    BY RowsLen
  <2> QED
    BY <2>1
<1>7. \A j \in J : (\E m2 \in ToSet(c2.moves) : m2.to = j) =>
        (j \in c2.modifications <=> z[j + 1] \in T \/ z[j + 1] \in {})
  OBVIOUS
<1>8. c.insertions \in PositionSets
  BY ChangedSets
<1>9. Told(c2.modifications, insert_at(erase_at(c.insertions, E), J), c2.moves, z, T \cup {})
  BY <1>1, <1>3, <1>4, <1>5, <1>6, <1>7, <1>8, ToldFollowed
<1>10. T \cup {} = T
  OBVIOUS
<1> QED
  BY <1>2, <1>9, <1>10 DEF Exact

(* list_insert keeps changes exact.                                         *)
LEMMA InsertIsExact ==
  ASSUME NEW x \in Seq(Nat), NEW y \in Seq(Nat), NEW c, NEW T, Exact(c, x, y, T),
         NEW i \in 0 .. Len(y), NEW key \in Nat
  PROVE  Exact(insert(c, i), x, InsertAt(y, i + 1, key), T)
<1> DEFINE c2 == insert(c, i)
           z == InsertAt(y, i + 1, key)
           ms == c.moves
           to == [k \in DOMAIN ms |-> IF ms[k].to >= i THEN ms[k].to + 1 ELSE ms[k].to]
<1>1. /\ c \in ChangeRec /\ c.deletions \in PositionSets /\ c.insertions \in PositionSets
      /\ c.modifications \in PositionSets
  BY ChangedSets
<1>2. ms \in Seq(MoveRec) /\ DistinctFroms(ms)
  BY <1>1 DEF ChangeRec, Exact, Right
<1>3. i \in Nat /\ i + 1 \in 1 .. Len(y) + 1
  BY RowsLen
<1>4. z \in Seq(Nat)
  BY <1>3, InsertAtIs
<1>5. Turns({}, {i}, y, z)
  BY TurnsInsert
<1> HIDE DEF z
<1>6. \A k \in DOMAIN ms : ms[k] \in MoveRec /\ ms[k] \in ToSet(ms) /\ ms[k].to \in Nat
  BY <1>2, MovesAre
<1>7. to \in [DOMAIN ms -> Nat]
  BY <1>3, <1>6
<1> DEFINE ms2 == [k \in DOMAIN ms |-> [ms[k] EXCEPT !.to = to[k]]]
<1>8. /\ ms2 \in Seq(MoveRec) /\ DistinctFroms(ms2)
      /\ \A m2 \in ToSet(ms2) : \E k \in DOMAIN ms : m2 = [ms[k] EXCEPT !.to = to[k]]
  <2> HIDE DEF to, ms
  <2> QED
    BY <1>2, <1>7, MappedMoves
<1>9. /\ c2.deletions = c.deletions /\ c2.insertions = insert_at(c.insertions, {i})
      /\ c2.modifications = shift_for_insert_at(c.modifications, {i})
      /\ c2.moves = ms2
      /\ c2 = [deletions |-> c2.deletions, insertions |-> c2.insertions,
               modifications |-> c2.modifications, moves |-> c2.moves]
  <2>1. \A k \in DOMAIN ms : (IF ms[k].to >= i THEN [ms[k] EXCEPT !.to = @ + 1] ELSE ms[k])
                               = [ms[k] EXCEPT !.to = to[k]]
    BY <1>6 DEF MoveRec
  <2> DEFINE mv == [k \in DOMAIN c.moves |->
                 IF c.moves[k].to >= i THEN [c.moves[k] EXCEPT !.to = @ + 1] ELSE c.moves[k]]
  <2> HIDE DEF to
  <2>2. ms2 = mv
    BY <2>1
  <2>3. c2 = [c EXCEPT !.modifications = shift_for_insert_at(c.modifications, {i}),
                       !.insertions = insert_at(c.insertions, {i}),
                       !.moves = mv]
    BY DEF insert
  <2> HIDE DEF ms2, mv, c2
  <2> QED
    BY <1>1, <2>2, <2>3 DEF ChangeRec
<1>10. {i} \in PositionSets
  BY <1>1, <1>3, PositionSetsClosed
<1>11. c2 \in ChangeRec
  <2>1. /\ insert_at(c.insertions, {i}) \in PositionSets
        /\ shift_for_insert_at(c.modifications, {i}) \in PositionSets
    BY <1>1, <1>10, PositionSetsClosed
  <2>2. /\ insert_at(c.insertions, {i}) \in SUBSET Nat
        /\ shift_for_insert_at(c.modifications, {i}) \in SUBSET Nat
    BY <2>1 DEF PositionSets
  <2> HIDE DEF c2, ms2
  <2> QED
    BY <1>1, <1>8, <1>9, <2>2 DEF ChangeRec
<1>12. \A m2 \in ToSet(ms2) : \E m \in ToSet(c.moves) : m.to \notin {} /\ m2 = carried(m, {}, {i})
  <2>1. ASSUME NEW k \in DOMAIN ms PROVE to[k] = shift({i}, unshift({}, ms[k].to))
    <3>1. PICK t \in Nat : t = ms[k].to
      BY <1>6
    <3>2. unshift({}, t) = t /\ shift({i}, t) = IF t < i THEN t ELSE t + 1
      BY <1>3, OnePosition
    <3> QED
      BY <1>3, <3>1, <3>2
  <2> HIDE DEF to, ms2
  <2> SUFFICES ASSUME NEW m2 \in ToSet(ms2)
               PROVE  \E m \in ToSet(c.moves) : m.to \notin {} /\ m2 = carried(m, {}, {i})
    OBVIOUS
  <2>2. PICK k \in DOMAIN ms : m2 = [ms[k] EXCEPT !.to = to[k]]
    BY <1>8
  <2>3. m2 = carried(ms[k], {}, {i})
    BY <2>1, <2>2 DEF carried
  <2> QED
    BY <1>6, <2>3
<1> HIDE DEF c2, ms2
<1>13. /\ c2.deletions = insert_at(erase_at({}, c.insertions), c.deletions)
       /\ c2.insertions = insert_at(erase_at(c.insertions, {}), {i})
       /\ c2.modifications = shift_for_insert_at(erase_at(c.modifications, {}), {i})
  <2>1. erase_at({}, c.insertions) = {} /\ erase_at(c.insertions, {}) = c.insertions
    BY <1>1, NothingToDo
  <2>2. insert_at({}, c.deletions) = c.deletions
    BY <1>1, NothingToDo
  <2>3. erase_at(c.modifications, {}) = c.modifications
    BY <1>1, NothingToDo
  <2> QED
    BY <1>9, <2>1, <2>2, <2>3
<1>15. \A m2 \in ToSet(c2.moves) : m2.to # i
  <2>1. \A k \in DOMAIN ms : to[k] # i
    BY <1>3, <1>6
  <2>2. \A k \in DOMAIN ms : [ms[k] EXCEPT !.to = to[k]].to = to[k]
    BY <1>6 DEF MoveRec
  <2> HIDE DEF to
  <2> SUFFICES ASSUME NEW m2 \in ToSet(ms2) PROVE m2.to # i
    BY <1>9
  <2>3. PICK k \in DOMAIN ms : m2 = [ms[k] EXCEPT !.to = to[k]]
    BY <1>8
  <2> QED
    BY <2>1, <2>2, <2>3
<1> HIDE DEF to, ms
<1>16. DistinctFroms(c2.moves)
  BY <1>8, <1>9
<1>17. \A m2 \in ToSet(c2.moves) :
         \/ \E m \in ToSet(c.moves) : m.to \notin {} /\ m2 = carried(m, {}, {i})
         \/ GoodMove(m2, c2.deletions, c2.insertions, x, z) /\ m2.to \in {i}
  BY <1>9, <1>12
<1>18. \A j \in Nat : j \notin {i} =>
         (j \in c2.modifications <=> j \in shift_for_insert_at(erase_at(c.modifications, {}), {i}))
  BY <1>13
<1>19. \A j \in {i} : (\E m2 \in ToSet(c2.moves) : m2.to = j) => (j \in c2.modifications <=> z[j + 1] \in T)
  BY <1>15
<1>20. Follows(c2, c, {}, {i}, x, z, T)
  BY <1>11, <1>13, <1>16, <1>17, <1>18, <1>19 DEF Follows
<1>21. Exact(c2, x, z, T)
  BY <1>4, <1>5, <1>20, ExactFollowed
<1> QED
  BY <1>21 DEF c2, z

(* The deletion of one row, before changes with insertions I and deletions  *)
(* D: where the row was, unless it is one that came.                        *)
DeletedToo(D, I, i) == IF i \in I THEN D ELSE D \cup {shift(D, unshift(I, i))}

LEMMA DeletedBefore ==
  ASSUME NEW D \in PositionSets, NEW I \in PositionSets, NEW i \in Nat
  PROVE  insert_at(erase_at({i}, I), D) = DeletedToo(D, I, i)
<1>1. ASSUME i \in I PROVE insert_at(erase_at({i}, I), D) = D
  <2>1. erase_at({i}, I) = {}
    BY <1>1, Zenon DEF erase_at
  <2> QED
    BY <2>1, NothingToDo
<1>2. ASSUME i \notin I PROVE insert_at(erase_at({i}, I), D) = D \cup {shift(D, unshift(I, i))}
  <2>1. erase_at({i}, I) = {unshift(I, i)}
    BY <1>2, Zenon DEF erase_at
  <2> QED
    BY <2>1, Zenon DEF insert_at, shift_for_insert_at
<1> QED
  BY <1>1, <1>2, Zenon DEF DeletedToo

(* list_erase keeps changes exact.                                          *)
LEMMA EraseIsExact ==
  ASSUME NEW x \in Seq(Nat), NEW y \in Seq(Nat), NEW c, NEW T, Exact(c, x, y, T),
         NEW i \in Nat, i < Len(y)
  PROVE  Exact(erase(c, i), x, RemoveAt(y, i + 1), T)
<1> DEFINE c2 == erase(c, i)
           z == RemoveAt(y, i + 1)
           places == {k \in DOMAIN c.moves : c.moves[k].to # i}
           ms == Picked(c.moves, places)
           to == [k \in DOMAIN ms |-> IF ms[k].to > i THEN ms[k].to - 1 ELSE ms[k].to]
<1>1. /\ c \in ChangeRec /\ c.deletions \in PositionSets /\ c.insertions \in PositionSets
      /\ c.modifications \in PositionSets
  BY ChangedSets
<1>2. c.moves \in Seq(MoveRec) /\ DistinctFroms(c.moves)
  BY <1>1 DEF ChangeRec, Exact, Right
<1>3. i + 1 \in 1 .. Len(y)
  BY RowsLen
<1>4. z \in Seq(Nat)
  BY <1>3, RemoveAtIs
<1>5. Turns({i}, {}, y, z)
  BY TurnsErase
<1> HIDE DEF z
<1>6. /\ ms \in Seq(MoveRec) /\ DistinctFroms(ms)
      /\ \A m \in ToSet(ms) : m \in ToSet(c.moves) /\ m.to # i
  <2>1. places \in SUBSET DOMAIN c.moves
    OBVIOUS
  <2>2. ms \in Seq(MoveRec) /\ DistinctFroms(ms) /\ ToSet(ms) = {c.moves[p] : p \in places}
    <3> HIDE DEF places
    <3>1. ms \in Seq(MoveRec)
      BY <1>2, <2>1, PickedMoves
    <3>2. DistinctFroms(ms)
      BY <1>2, <2>1, PickedMoves
    <3>3. ToSet(ms) = {c.moves[p] : p \in places}
      BY <1>2, <2>1, PickedMoves
    <3> QED
      BY <3>1, <3>2, <3>3
  <2>3. \A p \in places : c.moves[p] \in ToSet(c.moves)
    BY DEF ToSet
  <2> HIDE DEF ms
  <2> QED
    BY <2>2, <2>3
<1> HIDE DEF ms
<1>7. \A k \in DOMAIN ms : ms[k] \in MoveRec /\ ms[k] \in ToSet(ms) /\ ms[k].to \in Nat
  BY <1>6, MovesAre
<1>8. to \in [DOMAIN ms -> Nat]
  BY <1>7
<1> DEFINE ms2 == [k \in DOMAIN ms |-> [ms[k] EXCEPT !.to = to[k]]]
<1>9. /\ ms2 \in Seq(MoveRec) /\ DistinctFroms(ms2)
      /\ \A m2 \in ToSet(ms2) : \E k \in DOMAIN ms : m2 = [ms[k] EXCEPT !.to = to[k]]
  <2> HIDE DEF to
  <2> QED
    BY <1>6, <1>8, MappedMoves, ZenonT(40)
<1>10. /\ c2.deletions = insert_at(erase_at({i}, c.insertions), c.deletions)
       /\ c2.insertions = erase_at(c.insertions, {i})
       /\ c2.modifications = erase_at(c.modifications, {i})
       /\ c2.moves = ms2
       /\ c2 = [deletions |-> c2.deletions, insertions |-> c2.insertions,
                modifications |-> c2.modifications, moves |-> c2.moves]
  <2>1. \A k \in DOMAIN ms : (IF ms[k].to > i THEN [ms[k] EXCEPT !.to = @ - 1] ELSE ms[k])
                               = [ms[k] EXCEPT !.to = to[k]]
    BY <1>7 DEF MoveRec
  <2> DEFINE mv == [k \in DOMAIN ms |-> IF ms[k].to > i THEN [ms[k] EXCEPT !.to = @ - 1] ELSE ms[k]]
             dv == IF i \in c.insertions THEN c.deletions ELSE add_shifted(c.deletions, unshift(c.insertions, i))
  <2>2. ms2 = mv
    BY <2>1
  <2>3. insert_at(erase_at({i}, c.insertions), c.deletions)
          = IF i \in c.insertions THEN c.deletions ELSE add_shifted(c.deletions, unshift(c.insertions, i))
    <3>1. insert_at(erase_at({i}, c.insertions), c.deletions) = DeletedToo(c.deletions, c.insertions, i)
      BY <1>1, DeletedBefore
    <3> QED
      BY <3>1, Zenon DEF DeletedToo, add_shifted
  <2>4. c2 = [c EXCEPT !.modifications = erase_at(c.modifications, {i}),
                       !.insertions = erase_at(c.insertions, {i}),
                       !.deletions = dv, !.moves = mv]
    BY DEF erase, ms
  <2> HIDE DEF ms2, mv, c2
  <2> QED
    BY <1>1, <2>2, <2>3, <2>4 DEF ChangeRec
<1>11. {i} \in PositionSets /\ {} \in PositionSets
  BY <1>1, PositionSetsClosed
<1>12. erase_at({i}, c.insertions) \in PositionSets
  BY <1>1, <1>11, PositionSetsClosed
<1>13. erase_at(c.insertions, {i}) \in PositionSets /\ erase_at(c.modifications, {i}) \in PositionSets
  BY <1>1, <1>11, PositionSetsClosed
<1>14. insert_at(erase_at({i}, c.insertions), c.deletions) \in PositionSets
  BY <1>1, <1>12, PositionSetsClosed
<1>15. c2 \in ChangeRec
  <2> HIDE DEF c2, ms2
  <2> QED
    BY <1>9, <1>10, <1>13, <1>14 DEF ChangeRec, PositionSets
<1>16. \A m2 \in ToSet(ms2) : \E m \in ToSet(c.moves) : m.to \notin {i} /\ m2 = carried(m, {i}, {})
  <2>1. ASSUME NEW k \in DOMAIN ms PROVE to[k] = shift({}, unshift({i}, ms[k].to))
    <3>1. PICK t \in Nat : t = ms[k].to
      BY <1>7
    <3>2. unshift({i}, t) = IF t > i THEN t - 1 ELSE t
      BY OnePosition
    <3>3. unshift({i}, t) \in Nat
      BY <3>2
    <3>4. shift({}, unshift({i}, t)) = unshift({i}, t)
      BY <3>3, OnePosition
    <3> QED
      BY <3>1, <3>2, <3>4
  <2>2. ASSUME NEW k \in DOMAIN ms PROVE ms[k] \in ToSet(c.moves) /\ ms[k].to # i
    BY <1>6, <1>7
  <2> HIDE DEF to, ms2
  <2> SUFFICES ASSUME NEW m2 \in ToSet(ms2)
               PROVE  \E m \in ToSet(c.moves) : m.to \notin {i} /\ m2 = carried(m, {i}, {})
    OBVIOUS
  <2>3. PICK k \in DOMAIN ms : m2 = [ms[k] EXCEPT !.to = to[k]]
    BY <1>9
  <2>4. m2 = carried(ms[k], {i}, {})
    BY <2>1, <2>3 DEF carried
  <2> QED
    BY <2>2, <2>4
<1> HIDE DEF c2, ms2, to
<1>17. /\ c2.insertions = insert_at(erase_at(c.insertions, {i}), {})
       /\ c2.modifications = shift_for_insert_at(erase_at(c.modifications, {i}), {})
  BY <1>10, <1>13, NothingToDo
<1>18. DistinctFroms(c2.moves)
  BY <1>9, <1>10
<1>19. \A m2 \in ToSet(c2.moves) :
         \/ \E m \in ToSet(c.moves) : m.to \notin {i} /\ m2 = carried(m, {i}, {})
         \/ GoodMove(m2, c2.deletions, c2.insertions, x, z) /\ m2.to \in {}
  BY <1>10, <1>16
<1>20. \A j \in Nat : j \notin {} =>
         (j \in c2.modifications <=> j \in shift_for_insert_at(erase_at(c.modifications, {i}), {}))
  BY <1>17
<1>21. \A j \in {} : (\E m2 \in ToSet(c2.moves) : m2.to = j) => (j \in c2.modifications <=> z[j + 1] \in T)
  OBVIOUS
<1>22. c2.deletions = insert_at(erase_at({i}, c.insertions), c.deletions)
  BY <1>10
<1>23. Follows(c2, c, {i}, {}, x, z, T)
  BY <1>15, <1>17, <1>18, <1>19, <1>20, <1>21, <1>22 DEF Follows
<1>24. Exact(c2, x, z, T)
  BY <1>4, <1>5, <1>23, ExactFollowed
<1> QED
  BY <1>24 DEF c2, z

(* The rows after a move, one by one.                                       *)
MovedFrom(k, from, to) ==
  IF k = to + 1 THEN from + 1
  ELSE IF k < to + 1 THEN (IF k < from + 1 THEN k ELSE k + 1)
  ELSE IF k - 1 < from + 1 THEN k - 1 ELSE k

LEMMA MovedIs ==
  ASSUME NEW y \in Seq(Nat), NEW from \in Nat, from < Len(y), NEW to \in Nat, to < Len(y)
  PROVE  /\ Moved(y, from, to) \in Seq(Nat)
         /\ Len(Moved(y, from, to)) = Len(y)
         /\ \A k \in 1 .. Len(y) : Moved(y, from, to)[k] = y[MovedFrom(k, from, to)]
<1>1. PICK n \in Nat : n = Len(y) /\ from < n /\ to < n
  BY RowsLen
<1>2. PICK f \in 1 .. n : f = from + 1 /\ f \in 1 .. Len(y)
  BY <1>1
<1>3. PICK e \in Nat : e = y[f]
  BY <1>2, RowsLen
<1>4. /\ RemoveAt(y, f) \in Seq(Nat) /\ Len(RemoveAt(y, f)) = n - 1
      /\ \A k \in 1 .. n - 1 : RemoveAt(y, f)[k] = IF k < f THEN y[k] ELSE y[k + 1]
  BY <1>1, <1>2, RemoveAtIs
<1>5. PICK w \in Seq(Nat) : w = RemoveAt(y, f)
  BY <1>4
<1>6. Len(w) = n - 1 /\ \A k \in 1 .. n - 1 : w[k] = IF k < f THEN y[k] ELSE y[k + 1]
  BY <1>4, <1>5
<1>7. PICK p \in 1 .. Len(w) + 1 : p = to + 1 /\ p \in 1 .. n
  BY <1>1, <1>6
<1>8. InsertAt(w, p, e) \in Seq(Nat)
  BY <1>5, <1>7, InsertAtIs
<1>9. Len(InsertAt(w, p, e)) = Len(w) + 1
  BY <1>5, <1>7, InsertAtIs
<1>10. \A k \in 1 .. Len(w) + 1 : InsertAt(w, p, e)[k] = IF k < p THEN w[k] ELSE IF k = p THEN e ELSE w[k - 1]
  <2> SUFFICES ASSUME NEW k \in 1 .. Len(w) + 1
               PROVE  InsertAt(w, p, e)[k] = IF k < p THEN w[k] ELSE IF k = p THEN e ELSE w[k - 1]
    OBVIOUS
  <2> QED
    BY InsertedAt
<1>11. PICK z \in Seq(Nat) : z = InsertAt(w, p, e)
  BY <1>8
<1>12. Len(z) = n /\ \A k \in 1 .. n : z[k] = IF k < p THEN w[k] ELSE IF k = p THEN e ELSE w[k - 1]
  BY <1>6, <1>9, <1>10, <1>11
<1>13. ASSUME NEW k \in 1 .. n
       PROVE  z[k] = y[IF k = p THEN f
                       ELSE IF k < p THEN (IF k < f THEN k ELSE k + 1)
                       ELSE IF k - 1 < f THEN k - 1 ELSE k]
  <2>1. CASE k < p
    <3>1. k \in 1 .. n - 1 /\ k # p
      BY <1>7, <2>1
    <3> QED
      BY <1>6, <1>12, <2>1, <3>1
  <2>2. CASE k = p
    BY <1>3, <1>12, <2>2
  <2>3. CASE k > p
    <3>1. k - 1 \in 1 .. n - 1 /\ ~(k < p) /\ k # p /\ (k - 1) + 1 = k
      BY <1>7, <2>3
    <3> QED
      BY <1>6, <1>12, <3>1
  <2> QED
    BY <1>7, <2>1, <2>2, <2>3
<1>14. z = Moved(y, from, to)
  BY <1>2, <1>3, <1>5, <1>7, <1>11 DEF Moved
<1>15. \A k \in 1 .. Len(y) : z[k] = y[MovedFrom(k, from, to)]
  <2> SUFFICES ASSUME NEW k \in 1 .. n PROVE z[k] = y[MovedFrom(k, from, to)]
    BY <1>1
  <2> QED
    BY <1>2, <1>7, <1>13 DEF MovedFrom
<1>16. Len(z) = Len(y)
  BY <1>1, <1>12
<1> QED
  BY <1>11, <1>14, <1>15, <1>16

(* list_move keeps changes exact.                                           *)
LEMMA MoveIsExact ==
  ASSUME NEW x \in Seq(Nat), NEW y \in Seq(Nat), NEW c, NEW T, Exact(c, x, y, T),
         NEW from \in Nat, from < Len(y), NEW to \in Nat, to < Len(y)
  PROVE  Exact(move(c, from, to), x, Moved(y, from, to), T)
<1> DEFINE c2 == move(c, from, to)
           z == Moved(y, from, to)
           ms == c.moves
           goes(t) == IF t = from THEN to
                      ELSE IF t >= to /\ t < from THEN t + 1
                      ELSE IF t <= to /\ t > from THEN t - 1
                      ELSE t
           tos == [k \in DOMAIN ms |-> goes(ms[k].to)]
           came == from \in c.insertions
           shifted_from == shift(c.deletions, unshift(c.insertions, from))
           new == [from |-> shifted_from, to |-> to]
<1>1. /\ c \in ChangeRec /\ c.deletions \in PositionSets /\ c.insertions \in PositionSets
      /\ c.modifications \in PositionSets
  BY ChangedSets
<1>2. ms \in Seq(MoveRec) /\ DistinctFroms(ms)
  BY <1>1 DEF ChangeRec, Exact, Right
<1>3. /\ Turns({from}, {to}, y, z) /\ z \in Seq(Nat)
  BY TurnsMove
<1>4. z[to + 1] = y[from + 1]
  <2>1. Len(y) \in Nat /\ to + 1 \in 1 .. Len(y)
    BY RowsLen
  <2>2. z[to + 1] = y[MovedFrom(to + 1, from, to)]
    BY <2>1, MovedIs
  <2> QED
    BY <2>2 DEF MovedFrom
<1> HIDE DEF z
<1>5. \A k \in DOMAIN ms : ms[k] \in MoveRec /\ ms[k] \in ToSet(ms) /\ ms[k].to \in Nat
  BY <1>2, MovesAre
<1>6. \A t \in Nat : goes(t) \in Nat /\ (t # from => goes(t) = shift({to}, unshift({from}, t)))
  <2> SUFFICES ASSUME NEW t \in Nat
               PROVE  goes(t) \in Nat /\ (t # from => goes(t) = shift({to}, unshift({from}, t)))
    OBVIOUS
  <2>1. goes(t) \in Nat
    OBVIOUS
  <2>2. PICK u \in Nat : u = unshift({from}, t) /\ u = IF t > from THEN t - 1 ELSE t
    <3>1. unshift({from}, t) = IF t > from THEN t - 1 ELSE t
      BY OnePosition
    <3> QED
      BY <3>1
  <2>3. shift({to}, u) = IF u < to THEN u ELSE u + 1
    BY OnePosition
  <2>4. t # from => goes(t) = IF u < to THEN u ELSE u + 1
    BY <2>2
  <2> HIDE DEF goes
  <2> QED
    BY <2>1, <2>2, <2>3, <2>4
<1>7. tos \in [DOMAIN ms -> Nat]
  <2> HIDE DEF goes
  <2> QED
    BY <1>5, <1>6
<1> DEFINE ms2 == [k \in DOMAIN ms |-> [ms[k] EXCEPT !.to = tos[k]]]
<1>8. /\ ms2 \in Seq(MoveRec) /\ DistinctFroms(ms2)
      /\ \A m2 \in ToSet(ms2) : \E k \in DOMAIN ms : m2 = [ms[k] EXCEPT !.to = tos[k]]
  <2> HIDE DEF tos, ms
  <2> QED
    BY <1>2, <1>7, MappedMoves
<1> DEFINE others == erase_at(c.modifications, {from})
           M2 == IF from \in c.modifications THEN insert_at(others, {to})
                 ELSE shift_for_insert_at(others, {to})
           D2 == insert_at(erase_at({from}, c.insertions), c.deletions)
           I2 == insert_at(erase_at(c.insertions, {from}), {to})
<1>9. /\ c2.deletions = D2 /\ c2.insertions = I2
      /\ c2.modifications = M2
      /\ c2.moves = IF came THEN ms2 ELSE Append(ms2, new)
      /\ c2 = [deletions |-> c2.deletions, insertions |-> c2.insertions,
               modifications |-> c2.modifications, moves |-> c2.moves]
  <2> DEFINE shifted(m) ==
               IF m.to = from THEN [m EXCEPT !.to = to]
               ELSE IF m.to >= to /\ m.to < from THEN [m EXCEPT !.to = @ + 1]
               ELSE IF m.to <= to /\ m.to > from THEN [m EXCEPT !.to = @ - 1]
               ELSE m
  <2>1. \A k \in DOMAIN ms : shifted(ms[k]) = [ms[k] EXCEPT !.to = tos[k]]
    BY <1>5 DEF MoveRec
  <2>2. ms2 = [k \in DOMAIN c.moves |-> shifted(c.moves[k])]
    <3> HIDE DEF shifted, tos
    <3> QED
      BY <2>1
  <2>3. D2 = IF came THEN c.deletions ELSE c.deletions \cup {shifted_from}
    <3>1. D2 = DeletedToo(c.deletions, c.insertions, from)
      BY <1>1, DeletedBefore
    <3> QED
      BY <3>1, Zenon DEF DeletedToo
  <2> HIDE DEF ms2, D2, tos
  <2> QED
    BY <2>2, <2>3 DEF move
<1> HIDE DEF c2, ms2
<1>10. {from} \in PositionSets /\ {to} \in PositionSets
  BY <1>1, PositionSetsClosed
<1>11. D2 \in SUBSET Nat /\ I2 \in SUBSET Nat /\ M2 \in SUBSET Nat
  <2>1. erase_at({from}, c.insertions) \in PositionSets /\ erase_at(c.insertions, {from}) \in PositionSets
    BY <1>1, <1>10, PositionSetsClosed
  <2>2. others \in PositionSets
    BY <1>1, <1>10, PositionSetsClosed
  <2> HIDE DEF others
  <2>3. D2 \in PositionSets /\ I2 \in PositionSets
    BY <1>1, <1>10, <2>1, PositionSetsClosed
  <2>4. insert_at(others, {to}) \in PositionSets /\ shift_for_insert_at(others, {to}) \in PositionSets
    BY <1>10, <2>2, PositionSetsClosed
  <2> QED
    BY <2>3, <2>4 DEF PositionSets
<1>12. Turns(c.deletions, c.insertions, x, y) /\ \A m \in ToSet(ms) : GoodMove(m, c.deletions, c.insertions, x, y)
  BY DEF Exact, Right
<1>13. to \in I2 /\ \A i \in c.deletions : i \in D2
  BY DEF insert_at
<1>14. ASSUME NEW m2 \in ToSet(ms2)
       PROVE  \/ \E m \in ToSet(ms) : m.to \notin {from} /\ m2 = carried(m, {from}, {to})
              \/ /\ came /\ GoodMove(m2, D2, I2, x, z) /\ m2.to = to
                 /\ \E m \in ToSet(ms) : m.to = from
  <2>1. PICK k \in DOMAIN ms : m2 = [ms[k] EXCEPT !.to = tos[k]]
    BY <1>8
  <2>2. PICK m \in ToSet(ms) : m = ms[k] /\ m \in MoveRec /\ m.to \in Nat
    BY <1>5
  <2>3. m2 = [m EXCEPT !.to = goes(m.to)]
    BY <2>1, <2>2
  <2>4. CASE m.to # from
    <3>1. goes(m.to) = shift({to}, unshift({from}, m.to))
      BY <1>6, <2>2, <2>4
    <3> HIDE DEF goes
    <3> QED
      BY <2>3, <2>4, <3>1 DEF carried
  <2>5. CASE m.to = from
    <3>1. m2 \in MoveRec /\ m2.to = to /\ m2.from = m.from
      BY <2>2, <2>3, <2>5 DEF MoveRec
    <3>2. m.from \in c.deletions /\ m.to \in c.insertions /\ x[m.from + 1] = y[m.to + 1]
      BY <1>12 DEF GoodMove
    <3>3. GoodMove(m2, D2, I2, x, z)
      <4> HIDE DEF D2, I2
      <4> QED
        BY <1>4, <1>13, <2>5, <3>1, <3>2 DEF GoodMove
    <3> QED
      BY <2>5, <3>1, <3>2, <3>3
  <2> QED
    BY <2>4, <2>5
<1>15. ASSUME ~came
       PROVE  new \in MoveRec /\ GoodMove(new, D2, I2, x, z) /\ new.to = to /\ new.from \notin c.deletions
  <2>1. from \in Nat \ c.insertions
    BY <1>15
  <2>2. shifted_from \in Nat \ c.deletions
    BY <1>12, <2>1, StaysSame
  <2>3. x[shifted_from + 1] = y[from + 1]
    BY <1>12, <2>1, StaysSame
  <2>4. shifted_from \in D2
    <3>1. D2 = DeletedToo(c.deletions, c.insertions, from)
      BY <1>1, DeletedBefore
    <3> QED
      BY <1>15, <3>1, Zenon DEF DeletedToo
  <2> HIDE DEF shifted_from, D2, I2
  <2>5. new \in MoveRec /\ new.from = shifted_from /\ new.to = to
    BY <2>2 DEF MoveRec
  <2> HIDE DEF new
  <2> QED
    BY <1>4, <1>13, <2>2, <2>3, <2>4, <2>5 DEF GoodMove
<1>16. ~came => \A m \in ToSet(ms) : m.to # from
  BY <1>12 DEF GoodMove

<1>17. \A m2 \in ToSet(ms2) : m2.from \in c.deletions
  <2>1. ASSUME NEW k \in DOMAIN ms PROVE [ms[k] EXCEPT !.to = tos[k]].from \in c.deletions
    <3>1. [ms[k] EXCEPT !.to = tos[k]].from = ms[k].from
      BY <1>5 DEF MoveRec
    <3> QED
      BY <1>5, <1>12, <3>1 DEF GoodMove
  <2> QED
    BY <1>8, <2>1
<1>18. /\ c2.moves \in Seq(MoveRec) /\ DistinctFroms(c2.moves)
       /\ came => ToSet(c2.moves) = ToSet(ms2)
       /\ ~came => ToSet(c2.moves) = ToSet(ms2) \cup {new}
  <2>1. CASE came
    BY <1>8, <1>9, <2>1
  <2>2. CASE ~came
    <3>1. PICK n2 \in MoveRec : n2 = new /\ n2.from \notin c.deletions
      BY <1>15, <2>2
    <3>2. \A o \in ToSet(ms2) : o.from # n2.from
      BY <1>17, <3>1
    <3>3. /\ Append(ms2, n2) \in Seq(MoveRec) /\ DistinctFroms(Append(ms2, n2))
          /\ ToSet(Append(ms2, n2)) = ToSet(ms2) \cup {n2}
      BY <1>8, <3>1, <3>2, OneMoreMove
    <3> QED
      BY <1>9, <2>2, <3>1, <3>3
  <2> QED
    BY <2>1, <2>2
<1> HIDE DEF D2, I2, M2, others, new, came
<1>19. c2 \in ChangeRec
  BY <1>9, <1>11, <1>18 DEF ChangeRec
<1>20. \A m2 \in ToSet(c2.moves) :
         \/ \E m \in ToSet(ms) : m.to \notin {from} /\ m2 = carried(m, {from}, {to})
         \/ GoodMove(m2, c2.deletions, c2.insertions, x, z) /\ m2.to \in {to}
  BY <1>9, <1>14, <1>15, <1>18
<1>21. \A j \in Nat : j \notin {to} =>
         (j \in c2.modifications <=> j \in shift_for_insert_at(erase_at(c.modifications, {from}), {to}))
  BY <1>9, Zenon DEF M2, others, insert_at
<1>22. to \in c2.modifications <=> from \in c.modifications
  <2>1. to \notin shift_for_insert_at(others, {to})
    <3>1. c.modifications \subseteq 0 .. Len(y) - 1
      BY DEF Exact, Told
    <3>2. \A j \in shift_for_insert_at(erase_at(c.modifications, {from}), {to}) : j \notin {to}
      BY <1>3, <3>1, CarriedRange
    <3> QED
      BY <3>2 DEF others
  <2> QED
    BY <1>9, <2>1, Zenon DEF M2, insert_at
<1>23. ASSUME NEW m2 \in ToSet(c2.moves), m2.to = to
       PROVE  to \in c2.modifications <=> z[to + 1] \in T
  <2>1. from \in 0 .. Len(y) - 1
    BY RowsLen
  <2>2. ~came \/ \E m \in ToSet(ms) : m.to = from
    <3> SUFFICES ASSUME came PROVE \E m \in ToSet(ms) : m.to = from
      OBVIOUS
    <3>1. m2 \in ToSet(ms2)
      BY <1>18
    <3>2. ASSUME NEW m \in ToSet(ms), m.to \notin {from}, m2 = carried(m, {from}, {to}) PROVE FALSE
      <4>1. m \in MoveRec /\ m.to \in Nat
        BY <1>2, MovesAre
      <4>2. m2.to = shift({to}, unshift({from}, m.to))
        BY <3>2, <4>1 DEF carried, MoveRec
      <4>3. PICK t \in Nat : t = m.to /\ t \notin {from}
        BY <3>2, <4>1
      <4>4. unshift({from}, t) \in Nat
        BY <1>10, <4>3, ShiftUnshift
      <4>5. shift({to}, unshift({from}, t)) \notin {to}
        BY <1>10, <4>4, ShiftIs
      <4> QED
        BY <1>23, <4>2, <4>3, <4>5
    <3> QED
      BY <1>14, <3>1, <3>2
  <2>3. from \in c.modifications <=> y[from + 1] \in T
    BY <2>1, <2>2 DEF Exact, Told, came
  <2> QED
    BY <1>4, <1>22, <2>3
<1>24. /\ c2.deletions = insert_at(erase_at({from}, c.insertions), c.deletions)
       /\ c2.insertions = insert_at(erase_at(c.insertions, {from}), {to})
  BY <1>9 DEF D2, I2
<1>25. \A j \in {to} : (\E m2 \in ToSet(c2.moves) : m2.to = j) => (j \in c2.modifications <=> z[j + 1] \in T)
  BY <1>23
<1> HIDE DEF ms
<1>26. \A m2 \in ToSet(c2.moves) :
         \/ \E m \in ToSet(c.moves) : m.to \notin {from} /\ m2 = carried(m, {from}, {to})
         \/ GoodMove(m2, c2.deletions, c2.insertions, x, z) /\ m2.to \in {to}
  BY <1>20 DEF ms
<1>27. Follows(c2, c, {from}, {to}, x, z, T)
  BY <1>18, <1>19, <1>21, <1>24, <1>25, <1>26 DEF Follows
<1>28. Exact(c2, x, z, T)
  BY <1>3, <1>27, ExactFollowed
<1> QED
  BY <1>28 DEF c2, z

-----------------------------------------------------------------------------
LEMMA SameSequence ==
  ASSUME NEW a \in Seq(Nat), NEW b \in Seq(Nat), Len(a) = Len(b),
         \A k \in 1 .. Len(a) : a[k] = b[k]
  PROVE  a = b
OBVIOUS

(* One row in the place of another.                                         *)
LEMMA OtherRow ==
  ASSUME NEW y \in Seq(Nat), NEW a \in 1 .. Len(y), NEW f \in Nat
  PROVE  /\ [y EXCEPT ![a] = f] \in Seq(Nat)
         /\ Len([y EXCEPT ![a] = f]) = Len(y)
         /\ \A k \in 1 .. Len(y) : [y EXCEPT ![a] = f][k] = IF k = a THEN f ELSE y[k]
<1>1. PICK n \in Nat : n = Len(y) /\ DOMAIN y = 1 .. n /\ \A k \in 1 .. n : y[k] \in Nat
  BY RowsLen
<1>2. [y EXCEPT ![a] = f] = [k \in 1 .. n |-> IF k = a THEN f ELSE y[k]]
  BY <1>1
<1>3. \A k \in 1 .. n : (IF k = a THEN f ELSE y[k]) \in Nat
  BY <1>1
<1>4. /\ [k \in 1 .. n |-> IF k = a THEN f ELSE y[k]] \in Seq(Nat)
      /\ Len([k \in 1 .. n |-> IF k = a THEN f ELSE y[k]]) = n
  BY <1>3
<1> QED
  BY <1>1, <1>2, <1>4

(* A swap is one move of neighbours, and two of others.                     *)
Swapped(y, i, j) == [y EXCEPT ![i + 1] = y[j + 1], ![j + 1] = y[i + 1]]

LEMMA SwappedIs ==
  ASSUME NEW y \in Seq(Nat), NEW i \in Nat, NEW j \in Nat, i < j, j < Len(y)
  PROVE  /\ Swapped(y, i, j) \in Seq(Nat) /\ Len(Swapped(y, i, j)) = Len(y)
         /\ Len(Moved(y, i, j)) = Len(y) /\ Moved(y, i, j) \in Seq(Nat)
         /\ i + 1 = j => Swapped(y, i, j) = Moved(y, i, j)
         /\ i + 1 # j => Swapped(y, i, j) = Moved(Moved(y, i, j), j - 1, i)
<1> DEFINE w == Moved(y, i, j)
           z == Swapped(y, i, j)
           v == Moved(w, j - 1, i)
<1>1. PICK n \in Nat : n = Len(y) /\ DOMAIN y = 1 .. n /\ i < n /\ j < n
  BY RowsLen
<1>2. /\ w \in Seq(Nat) /\ Len(w) = n
      /\ \A k \in 1 .. n : w[k] = y[MovedFrom(k, i, j)]
  BY <1>1, MovedIs
<1>3. z \in Seq(Nat) /\ Len(z) = n
      /\ \A k \in 1 .. n : z[k] = IF k = j + 1 THEN y[i + 1] ELSE IF k = i + 1 THEN y[j + 1] ELSE y[k]
  <2>1. PICK a \in 1 .. n : a = i + 1
    BY <1>1
  <2>2. PICK b \in 1 .. n : b = j + 1
    BY <1>1
  <2>3. PICK e \in Nat : e = y[a]
    BY <1>1
  <2>4. PICK f \in Nat : f = y[b]
    BY <1>1
  <2>5. a \in 1 .. Len(y)
    BY <1>1
  <2>6. PICK s \in Seq(Nat) : s = [y EXCEPT ![a] = f] /\ Len(s) = n
                              /\ \A k \in 1 .. n : s[k] = IF k = a THEN f ELSE y[k]
    <3>1. [y EXCEPT ![a] = f] \in Seq(Nat)
      BY <2>5, OtherRow
    <3>2. Len([y EXCEPT ![a] = f]) = n
      BY <1>1, <2>5, OtherRow
    <3>3. \A k \in 1 .. Len(y) : [y EXCEPT ![a] = f][k] = IF k = a THEN f ELSE y[k]
      BY <2>5, OtherRow
    <3> QED
      BY <1>1, <3>1, <3>2, <3>3
  <2>7. b \in 1 .. Len(s)
    BY <2>6
  <2>8. PICK t \in Seq(Nat) : t = [s EXCEPT ![b] = e] /\ Len(t) = n
                              /\ \A k \in 1 .. n : t[k] = IF k = b THEN e ELSE s[k]
    <3>1. [s EXCEPT ![b] = e] \in Seq(Nat)
      BY <2>7, OtherRow
    <3>2. Len([s EXCEPT ![b] = e]) = n
      BY <2>6, <2>7, OtherRow
    <3>3. \A k \in 1 .. Len(s) : [s EXCEPT ![b] = e][k] = IF k = b THEN e ELSE s[k]
      BY <2>7, OtherRow
    <3>4. PICK t \in Seq(Nat) : t = [s EXCEPT ![b] = e]
      BY <3>1
    <3>5. \A k \in 1 .. n : t[k] = IF k = b THEN e ELSE s[k]
      BY <2>6, <3>3, <3>4
    <3> QED
      BY <3>2, <3>4, <3>5
  <2>9. z = t
    BY <2>1, <2>2, <2>3, <2>4, <2>6, <2>8 DEF Swapped
  <2> HIDE DEF z
  <2> QED
    BY <2>1, <2>2, <2>3, <2>4, <2>6, <2>8, <2>9
<1> HIDE DEF z, w
<1>4. ASSUME i + 1 = j PROVE z = w
  <2>1. ASSUME NEW k \in 1 .. n PROVE z[k] = w[k]
    <3>1. MovedFrom(k, i, j) = IF k = j + 1 THEN i + 1 ELSE IF k = i + 1 THEN j + 1 ELSE k
      BY <1>1, <1>4 DEF MovedFrom
    <3> QED
      BY <1>2, <1>3, <3>1
  <2> QED
    BY <1>2, <1>3, <2>1, SameSequence
<1>5. ASSUME i + 1 # j PROVE z = v
  <2>1. j - 1 \in Nat /\ j - 1 < n /\ (j - 1) + 1 = j
    BY <1>1
  <2>2. PICK h \in Nat : h = j - 1 /\ h < Len(w) /\ i < Len(w)
    BY <1>1, <1>2, <2>1
  <2>3. PICK u \in Seq(Nat) : u = Moved(w, h, i)
    BY <1>2, <2>2, MovedIs
  <2>4. Len(u) = n
    BY <1>2, <2>2, <2>3, MovedIs
  <2>5. ASSUME NEW k \in 1 .. n PROVE u[k] = z[k]
    <3>1. \A l \in 1 .. Len(w) : Moved(w, h, i)[l] = w[MovedFrom(l, h, i)]
      <4>1. w \in Seq(Nat)
        BY <1>2
      <4> QED
        BY <2>2, <4>1, MovedIs
    <3>2. PICK p : p = MovedFrom(k, h, i)
      OBVIOUS
    <3>3. p = IF k = i + 1 THEN j ELSE IF k < i + 1 THEN k ELSE IF k <= j THEN k - 1 ELSE k
      <4>1. h + 1 = j /\ h \in Nat /\ j \in Nat /\ i + 1 < j + 1 /\ k \in Nat
        BY <2>1, <2>2
      <4>2. p = IF k = i + 1 THEN j ELSE IF k < i + 1 THEN (IF k < j THEN k ELSE k + 1)
                ELSE IF k - 1 < j THEN k - 1 ELSE k
        BY <3>2, <4>1 DEF MovedFrom
      <4> QED
        BY <1>5, <4>1, <4>2
    <3>4. p \in 1 .. n
      BY <1>1, <3>3
    <3>5. u[k] = w[p] /\ w[p] = y[MovedFrom(p, i, j)]
      BY <1>2, <2>3, <3>1, <3>2, <3>4
    <3>6. MovedFrom(p, i, j) = IF k = i + 1 THEN j + 1 ELSE IF k = j + 1 THEN i + 1 ELSE k
      <4>1. CASE k = i + 1
        BY <1>1, <3>3, <4>1 DEF MovedFrom
      <4>2. CASE k < i + 1
        BY <1>1, <3>3, <4>2 DEF MovedFrom
      <4>3. CASE k > i + 1 /\ k <= j
        BY <1>1, <3>3, <4>3 DEF MovedFrom
      <4>4. CASE k > j
        BY <1>1, <1>5, <3>3, <4>4 DEF MovedFrom
      <4> QED
        BY <1>1, <4>1, <4>2, <4>3, <4>4
    <3> QED
      BY <1>1, <1>3, <3>5, <3>6
  <2>6. u = z
    BY <1>3, <2>3, <2>4, <2>5, SameSequence
  <2> QED
    BY <2>2, <2>3, <2>6
<1> QED
  BY <1>1, <1>2, <1>3, <1>4, <1>5 DEF z, w

(* list_swap keeps changes exact.                                           *)
LEMMA SwapIsExact ==
  ASSUME NEW x \in Seq(Nat), NEW y \in Seq(Nat), NEW c, NEW T, Exact(c, x, y, T),
         NEW i \in Nat, NEW j \in Nat, i < j, j < Len(y)
  PROVE  Exact(IF i + 1 = j THEN move(c, i, j) ELSE move(move(c, i, j), j - 1, i), x,
               Swapped(y, i, j), T)
<1>1. PICK w : w = Moved(y, i, j)
  OBVIOUS
<1>2. PICK z : z = Swapped(y, i, j)
  OBVIOUS
<1>3. /\ w \in Seq(Nat) /\ Len(w) = Len(y)
      /\ i + 1 = j => z = w
      /\ i + 1 # j => z = Moved(w, j - 1, i)
  BY <1>1, <1>2, SwappedIs
<1>4. Len(y) \in Nat /\ i < Len(y)
  BY RowsLen
<1>5. PICK cw : cw = move(c, i, j)
  OBVIOUS
<1>6. Exact(cw, x, w, T)
  BY <1>1, <1>4, <1>5, MoveIsExact
<1>7. CASE i + 1 = j
  BY <1>2, <1>3, <1>5, <1>6, <1>7
<1>8. CASE i + 1 # j
  <2>1. PICK h \in Nat : h = j - 1 /\ h < Len(w) /\ i < Len(w)
    BY <1>3, <1>4
  <2>2. Exact(move(cw, h, i), x, Moved(w, h, i), T)
    BY <1>3, <1>6, <2>1, MoveIsExact
  <2> QED
    BY <1>2, <1>3, <1>5, <1>8, <2>1, <2>2
<1> QED
  BY <1>7, <1>8

(* list_clear keeps changes exact: every row that was there before them is  *)
(* deleted, as many as the size and the counts say.                         *)
LEMMA ClearIsExact ==
  ASSUME NEW x \in Seq(Nat), NEW y \in Seq(Nat), NEW c, NEW T, Exact(c, x, y, T)
  PROVE  Exact(clear(c, Len(y)), x, <<>>, T)
<1> DEFINE c2 == clear(c, Len(y))
<1>1. PICK n \in Nat : n = Len(x)
  BY RowsLen
<1>2. Len(y) \in Nat
  BY RowsLen
<1>3. Turns(c.deletions, c.insertions, x, y)
  BY DEF Exact, Right
<1>4. Len(x) - Cardinality(c.deletions) = Len(y) - Cardinality(c.insertions)
  BY <1>3, TurnsIntoIs
<1>5. Cardinality(c.deletions) \in Nat /\ Cardinality(c.insertions) \in Nat
  <2>1. c.deletions \in PositionSets /\ c.insertions \in PositionSets
    BY <1>3, TurnsSets
  <2>2. ASSUME NEW S \in PositionSets PROVE Cardinality(S) \in Nat
    <3>1. S \in SUBSET Nat
      BY DEF PositionSets
    <3>2. PICK m \in Nat : \A i \in S : i < m
      BY DEF PositionSets
    <3> QED
      BY <3>1, <3>2, CountAll
  <2> QED
    BY <2>1, <2>2
<1>6. Len(y) + Cardinality(c.deletions) - Cardinality(c.insertions) - 1 = n - 1
  <2>1. PICK d \in Nat : d = Cardinality(c.deletions)
    BY <1>5
  <2>2. PICK e \in Nat : e = Cardinality(c.insertions)
    BY <1>5
  <2>3. PICK l \in Nat : l = Len(y)
    BY <1>2
  <2>4. n - d = l - e
    BY <1>1, <1>4, <2>1, <2>2, <2>3
  <2>5. l + d - e - 1 = n - 1
    BY <2>4
  <2> QED
    BY <2>1, <2>2, <2>3, <2>5
<1>7. /\ c2.deletions = 0 .. n - 1 /\ c2.insertions = {} /\ c2.modifications = {}
      /\ c2.moves = <<>> /\ c2 \in ChangeRec
  <2>1. c2 = [deletions |-> 0 .. n - 1, insertions |-> {}, modifications |-> {}, moves |-> <<>>]
    <3>1. c2 = [NoChanges EXCEPT !.deletions = 0 .. n - 1]
      BY <1>6, Zenon DEF clear
    <3> HIDE DEF c2
    <3> QED
      BY <3>1 DEF NoChanges
  <2>2. 0 .. n - 1 \in SUBSET Nat /\ <<>> \in Seq(MoveRec)
    OBVIOUS
  <2> HIDE DEF c2
  <2> QED
    BY <2>1, <2>2 DEF ChangeRec
<1> HIDE DEF c2
<1>8. 0 .. n - 1 \in PositionSets
  <2>1. 0 .. n - 1 \in SUBSET Nat /\ \A i \in 0 .. n - 1 : i < n
    OBVIOUS
  <2> QED
    BY <2>1 DEF PositionSets
<1>9. Turns(0 .. n - 1, {}, x, <<>>)
  <2>1. SameRows(0 .. n - 1, {}, x, <<>>)
    <3> SUFFICES ASSUME NEW k \in Nat
                 PROVE  ~(shift(0 .. n - 1, k) < n) /\ ~(shift({}, k) < 0)
      BY <1>1 DEF SameRows
    <3>1. shift(0 .. n - 1, k) \in Nat /\ shift(0 .. n - 1, k) \notin 0 .. n - 1
      BY <1>8, ShiftIs
    <3>2. shift({}, k) = k
      BY <1>1, OnePosition
    <3> QED
      BY <3>1, <3>2
  <2> QED
    BY <1>1, <2>1 DEF Turns
<1>10. Right(c2, x, <<>>)
  BY <1>7, <1>9 DEF Right, ToSet, DistinctFroms
<1>11. Told(c2.modifications, c2.insertions, c2.moves, <<>>, T)
  BY <1>7 DEF Told
<1> QED
  BY <1>10, <1>11 DEF Exact, c2

-----------------------------------------------------------------------------
(* No row is in a list twice.                                               *)
LEMMA InjectiveInsert ==
  ASSUME NEW y \in Seq(Nat), IsInjective(y), NEW i \in 0 .. Len(y), NEW key \in Nat,
         \A k \in DOMAIN y : y[k] < key
  PROVE  /\ InsertAt(y, i + 1, key) \in Seq(Nat) /\ IsInjective(InsertAt(y, i + 1, key))
         /\ \A k \in DOMAIN InsertAt(y, i + 1, key) : InsertAt(y, i + 1, key)[k] <= key
<1>1. PICK n \in Nat : n = Len(y) /\ DOMAIN y = 1 .. n
  BY RowsLen
<1>2. PICK p \in 1 .. Len(y) + 1 : p = i + 1 /\ p \in 1 .. n + 1
  BY <1>1
<1>3. InsertAt(y, p, key) \in Seq(Nat)
  BY <1>2, InsertAtIs
<1>4. Len(InsertAt(y, p, key)) = n + 1
  BY <1>1, <1>2, InsertAtIs
<1>5. \A k \in 1 .. n + 1 : InsertAt(y, p, key)[k] = IF k < p THEN y[k] ELSE IF k = p THEN key ELSE y[k - 1]
  <2> SUFFICES ASSUME NEW k \in 1 .. Len(y) + 1
               PROVE  InsertAt(y, p, key)[k] = IF k < p THEN y[k] ELSE IF k = p THEN key ELSE y[k - 1]
    BY <1>1
  <2> QED
    BY InsertedAt
<1>6. PICK z \in Seq(Nat) : z = InsertAt(y, p, key)
  BY <1>3
<1>7. DOMAIN z = 1 .. n + 1
      /\ \A k \in 1 .. n + 1 : z[k] = IF k < p THEN y[k] ELSE IF k = p THEN key ELSE y[k - 1]
  BY <1>4, <1>5, <1>6
<1>8. \A k \in 1 .. n : y[k] \in Nat /\ y[k] < key
  BY <1>1
<1>9. ASSUME NEW k \in 1 .. n + 1 PROVE z[k] <= key
  <2>1. k < p => k \in 1 .. n
    BY <1>2
  <2>2. ~(k < p) /\ k # p => k - 1 \in 1 .. n
    BY <1>2
  <2>3. CASE k < p
    <3>1. z[k] = y[k] /\ y[k] \in Nat /\ y[k] < key
      BY <1>7, <1>8, <2>1, <2>3
    <3> QED
      BY <3>1
  <2>4. CASE k = p
    <3>1. z[k] = key /\ key <= key
      BY <1>7, <2>4
    <3> QED
      BY <3>1
  <2>5. CASE ~(k < p) /\ k # p
    <3>1. z[k] = y[k - 1] /\ y[k - 1] \in Nat /\ y[k - 1] < key
      BY <1>7, <1>8, <2>2, <2>5
    <3> QED
      BY <3>1
  <2> QED
    BY <2>3, <2>4, <2>5
<1>10. ASSUME NEW k \in 1 .. n + 1, NEW l \in 1 .. n + 1, z[k] = z[l] PROVE k = l
  <2> DEFINE at(j) == IF j < p THEN j ELSE j - 1
  <2>1. \A j \in 1 .. n + 1 : j # p => at(j) \in 1 .. n /\ z[j] = y[at(j)]
    BY <1>2, <1>7
  <2>2. z[p] = key
    BY <1>2, <1>7
  <2>3. k # p /\ l # p => at(k) = at(l)
    <3> HIDE DEF at
    <3> QED
      BY <1>1, <1>10, <2>1 DEF IsInjective
  <2>4. (k = p) <=> (l = p)
    <3> HIDE DEF at
    <3>1. \A j \in 1 .. n + 1 : j # p => z[j] \in Nat /\ z[j] < key
      BY <1>8, <2>1
    <3>2. ~(key < key)
      OBVIOUS
    <3> QED
      BY <1>10, <2>2, <3>1, <3>2
  <2> QED
    BY <1>2, <2>3, <2>4
<1>11. IsInjective(z)
  BY <1>7, <1>10 DEF IsInjective
<1> QED
  BY <1>2, <1>6, <1>7, <1>9, <1>11

LEMMA InjectiveRemove ==
  ASSUME NEW y \in Seq(Nat), IsInjective(y), NEW i \in Nat, i < Len(y), NEW top
  PROVE  /\ RemoveAt(y, i + 1) \in Seq(Nat) /\ IsInjective(RemoveAt(y, i + 1))
         /\ (\A k \in DOMAIN y : y[k] <= top)
              => \A k \in DOMAIN RemoveAt(y, i + 1) : RemoveAt(y, i + 1)[k] <= top
<1>1. PICK n \in Nat : n = Len(y) /\ DOMAIN y = 1 .. n
  BY RowsLen
<1>2. PICK p \in 1 .. Len(y) : p = i + 1 /\ p \in 1 .. n
  BY <1>1
<1>3. /\ RemoveAt(y, p) \in Seq(Nat) /\ Len(RemoveAt(y, p)) = n - 1
      /\ \A k \in 1 .. n - 1 : RemoveAt(y, p)[k] = IF k < p THEN y[k] ELSE y[k + 1]
  BY <1>1, <1>2, RemoveAtIs
<1>4. PICK z \in Seq(Nat) : z = RemoveAt(y, p)
  BY <1>3
<1> DEFINE at(k) == IF k < p THEN k ELSE k + 1
<1>5. DOMAIN z = 1 .. n - 1
  BY <1>3, <1>4, RowsLen
<1>6. \A k \in 1 .. n - 1 : at(k) \in 1 .. n /\ z[k] = y[at(k)]
  BY <1>1, <1>2, <1>3, <1>4, SMTT(40)
<1>7. \A k, l \in 1 .. n - 1 : at(k) = at(l) => k = l
  BY <1>1, <1>2
<1> HIDE DEF at
<1>8. IsInjective(z)
  <2> SUFFICES ASSUME NEW k \in 1 .. n - 1, NEW l \in 1 .. n - 1, z[k] = z[l] PROVE k = l
    BY <1>5 DEF IsInjective
  <2>1. at(k) = at(l)
    BY <1>1, <1>6 DEF IsInjective
  <2> QED
    BY <1>7, <2>1
<1>9. (\A k \in DOMAIN y : y[k] <= top) => \A k \in DOMAIN z : z[k] <= top
  BY <1>1, <1>5, <1>6
<1> QED
  BY <1>2, <1>4, <1>8, <1>9

LEMMA InjectiveMove ==
  ASSUME NEW y \in Seq(Nat), IsInjective(y), NEW from \in Nat, from < Len(y), NEW to \in Nat, to < Len(y),
         NEW top
  PROVE  LET z == Moved(y, from, to)
         IN /\ z \in Seq(Nat) /\ IsInjective(z)
            /\ (\A k \in DOMAIN y : y[k] <= top) => \A k \in DOMAIN z : z[k] <= top
<1>1. PICK n \in Nat : n = Len(y) /\ DOMAIN y = 1 .. n /\ from < n /\ to < n
  BY RowsLen
<1>2. PICK z \in Seq(Nat) : z = Moved(y, from, to)
  BY MovedIs
<1> DEFINE at(k) == MovedFrom(k, from, to)
<1>3. Len(z) = n /\ \A k \in 1 .. n : z[k] = y[at(k)]
  BY <1>1, <1>2, MovedIs
<1>4. DOMAIN z = 1 .. n
  BY <1>3, RowsLen
<1>5. \A k \in 1 .. n : at(k) \in 1 .. n
  BY <1>1 DEF MovedFrom
<1>6. \A k, l \in 1 .. n : at(k) = at(l) => k = l
  BY <1>1 DEF MovedFrom
<1> HIDE DEF at
<1>7. IsInjective(z)
  BY <1>1, <1>3, <1>4, <1>5, <1>6 DEF IsInjective
<1>8. (\A k \in DOMAIN y : y[k] <= top) => \A k \in DOMAIN z : z[k] <= top
  BY <1>1, <1>3, <1>4, <1>5
<1> QED
  BY <1>2, <1>7, <1>8

LEMMA InjectiveSwap ==
  ASSUME NEW y \in Seq(Nat), IsInjective(y), NEW i \in Nat, NEW j \in Nat, i < j, j < Len(y), NEW top
  PROVE  LET z == Swapped(y, i, j)
         IN /\ z \in Seq(Nat) /\ IsInjective(z)
            /\ (\A k \in DOMAIN y : y[k] <= top) => \A k \in DOMAIN z : z[k] <= top
<1>1. PICK n \in Nat : n = Len(y) /\ DOMAIN y = 1 .. n /\ i < n /\ j < n
  BY RowsLen
<1>2. PICK z \in Seq(Nat) : z = Swapped(y, i, j)
  BY SwappedIs
<1> DEFINE at(k) == IF k = j + 1 THEN i + 1 ELSE IF k = i + 1 THEN j + 1 ELSE k
<1>3. DOMAIN z = 1 .. n /\ \A k \in 1 .. n : z[k] = y[at(k)]
  BY <1>1, <1>2 DEF Swapped
<1>4. \A k \in 1 .. n : at(k) \in 1 .. n
  BY <1>1
<1>5. \A k, l \in 1 .. n : at(k) = at(l) => k = l
  BY <1>1
<1> HIDE DEF at
<1>6. IsInjective(z)
  BY <1>1, <1>3, <1>4, <1>5 DEF IsInjective
<1>7. (\A k \in DOMAIN y : y[k] <= top) => \A k \in DOMAIN z : z[k] <= top
  BY <1>1, <1>3, <1>4
<1> QED
  BY <1>2, <1>6, <1>7

-----------------------------------------------------------------------------
(* The steps of a fold, one after the other.                                *)
StepsTo(acc, n, base, step, end) ==
  /\ acc[0] = base
  /\ \A k \in 1 .. n : acc[k] = step[<<acc[k - 1], k>>]
  /\ end = acc[n]

LEMMA FoldSteps ==
  ASSUME NEW T, NEW n \in Nat, NEW base \in T, NEW step \in [T \X (1 .. n) -> T], NEW F,
         F[{}] = base,
         \A s \in SUBSET (1 .. n) : s # {} /\ F[s \ {Max(s)}] \in T =>
           F[s] = step[<<F[s \ {Max(s)}], Max(s)>>]
  PROVE  \E acc \in [0 .. n -> T] : StepsTo(acc, n, base, step, F[1 .. n])
<1> DEFINE Bad == {k \in 0 .. n : F[1 .. k] \notin T}
<1>1. ASSUME NEW k \in 1 .. n, F[1 .. k - 1] \in T PROVE F[1 .. k] = step[<<F[1 .. k - 1], k>>]
  <2>1. 1 .. k \in SUBSET (1 .. n) /\ 1 .. k # {} /\ (1 .. k) \ {k} = 1 .. k - 1
    <3>1. k \in 1 .. k
      OBVIOUS
    <3>2. \A j \in 1 .. k : j \in 1 .. n
      OBVIOUS
    <3>3. \A j : j \in (1 .. k) \ {k} <=> j \in 1 .. k - 1
      OBVIOUS
    <3>4. (1 .. k) \ {k} = 1 .. k - 1
      BY <3>3, Zenon
    <3> QED
      BY <3>1, <3>2, <3>4
  <2>2. Max(1 .. k) = k
    <3>1. Max(1 .. k) \in 1 .. k /\ \A j \in 1 .. k : j <= Max(1 .. k)
      BY <2>1, MaxIs
    <3>2. PICK m \in 1 .. k : m = Max(1 .. k) /\ k <= m
      BY <3>1
    <3> QED
      BY <3>2
  <2> QED
    BY <1>1, <2>1, <2>2
<1>2. 1 .. 0 = {}
  OBVIOUS
<1>3. Bad = {}
  <2> SUFFICES ASSUME Bad # {} PROVE FALSE
    OBVIOUS
  <2>1. PICK k \in Bad : \A j \in Bad : k <= j
    <3>1. Bad \in SUBSET Nat
      OBVIOUS
    <3> HIDE DEF Bad
    <3> QED
      BY <3>1, LeastOne
  <2>2. k # 0
    BY <1>2, <2>1
  <2>3. k \in 1 .. n /\ k - 1 \in 0 .. n /\ ~(k <= k - 1)
    BY <2>1, <2>2
  <2>4. F[1 .. k - 1] \in T
    BY <2>1, <2>3
  <2>5. F[1 .. k] = step[<<F[1 .. k - 1], k>>] /\ <<F[1 .. k - 1], k>> \in T \X (1 .. n)
    BY <1>1, <2>3, <2>4
  <2> QED
    BY <2>1, <2>5
<1>4. \A k \in 0 .. n : F[1 .. k] \in T
  BY <1>3
<1> DEFINE acc == [k \in 0 .. n |-> F[1 .. k]]
<1>5. acc \in [0 .. n -> T]
  BY <1>4
<1>6. acc[0] = base /\ F[1 .. n] = acc[n]
  BY <1>2
<1>7. \A k \in 1 .. n : acc[k] = step[<<acc[k - 1], k>>]
  <2> SUFFICES ASSUME NEW k \in 1 .. n PROVE acc[k] = step[<<acc[k - 1], k>>]
    OBVIOUS
  <2>1. k - 1 \in 0 .. n /\ k \in 0 .. n
    OBVIOUS
  <2> QED
    BY <1>1, <1>4, <2>1
<1> HIDE DEF acc
<1> QED
  BY <1>5, <1>6, <1>7 DEF StepsTo

(* clean_up_stale_moves, move by move.                                      *)
IsStale(m, c) == m.from - count(c.deletions, m.from) = m.to - count(c.insertions, m.to)

CleanedUp(c, m) ==
  IF IsStale(m, c) THEN [c EXCEPT !.deletions = @ \ {m.from}, !.insertions = @ \ {m.to}]
  ELSE [c EXCEPT !.moves = Append(@, m)]

LEMMA CleanUpSteps ==
  ASSUME NEW c \in ChangeRec, NEW n \in Nat, n = Len(c.moves)
  PROVE  \E acc \in [0 .. n -> ChangeRec] :
           /\ acc[0] = [c EXCEPT !.moves = <<>>]
           /\ \A k \in 1 .. n : acc[k] = CleanedUp(acc[k - 1], c.moves[k])
           /\ clean_up_stale_moves(c) = acc[n]
<1> DEFINE base == [c EXCEPT !.moves = <<>>]
           step == [a \in ChangeRec \X (1 .. n) |-> CleanedUp(a[1], c.moves[a[2]])]
           F == CHOOSE g : g = [s \in SUBSET (1 .. n) |->
                  IF s = {} THEN base ELSE CleanedUp(g[s \ {Max(s)}], c.moves[Max(s)])]
<1>1. c.moves \in Seq(MoveRec) /\ DOMAIN c.moves = 1 .. n /\ \A k \in 1 .. n : c.moves[k] \in MoveRec
  BY DEF ChangeRec
<1>2. base \in ChangeRec
  <2>1. <<>> \in Seq(MoveRec)
    OBVIOUS
  <2> QED
    BY <2>1 DEF ChangeRec
<1>3. ASSUME NEW d \in ChangeRec, NEW m \in MoveRec PROVE CleanedUp(d, m) \in ChangeRec
  <2>1. d.moves \in Seq(MoveRec)
    BY DEF ChangeRec
  <2>2. Append(d.moves, m) \in Seq(MoveRec)
    BY <2>1, AppendIs
  <2>3. [d EXCEPT !.moves = Append(d.moves, m)] \in ChangeRec
    BY <2>2 DEF ChangeRec
  <2>4. [d EXCEPT !.deletions = @ \ {m.from}, !.insertions = @ \ {m.to}] \in ChangeRec
    BY DEF ChangeRec
  <2> QED
    BY <2>3, <2>4 DEF CleanedUp
<1>4. step \in [ChangeRec \X (1 .. n) -> ChangeRec]
  <2>1. \A a \in ChangeRec \X (1 .. n) : CleanedUp(a[1], c.moves[a[2]]) \in ChangeRec
    BY <1>1, <1>3
  <2> QED
    BY <2>1
<1>5. \A d \in ChangeRec, k \in 1 .. n : step[<<d, k>>] = CleanedUp(d, c.moves[k])
  OBVIOUS
<1> HIDE DEF step, base
<1>6. PICK iter \in [SUBSET (1 .. n) -> ChangeRec] : IsFold(iter, n, base, step)
  BY <1>2, <1>4, FoldExists
<1>7. \A s \in SUBSET (1 .. n) : s # {} => Max(s) \in 1 .. n /\ s \ {Max(s)} \in SUBSET (1 .. n)
  BY MaxIs
<1>8. \A s \in SUBSET (1 .. n) :
        iter[s] = IF s = {} THEN base ELSE CleanedUp(iter[s \ {Max(s)}], c.moves[Max(s)])
  <2> SUFFICES ASSUME NEW s \in SUBSET (1 .. n)
               PROVE  iter[s] = IF s = {} THEN base ELSE CleanedUp(iter[s \ {Max(s)}], c.moves[Max(s)])
    OBVIOUS
  <2>1. iter[s] = IF s = {} THEN base ELSE step[<<iter[s \ {Max(s)}], Max(s)>>]
    BY <1>6 DEF IsFold
  <2>2. CASE s = {}
    BY <2>1, <2>2
  <2>3. CASE s # {}
    <3>1. PICK k \in 1 .. n : k = Max(s) /\ s \ {k} \in SUBSET (1 .. n)
      BY <1>7, <2>3
    <3>2. iter[s \ {k}] \in ChangeRec
      BY <1>6, <3>1
    <3>3. iter[s] = step[<<iter[s \ {k}], k>>]
      BY <2>1, <2>3, <3>1
    <3>4. iter[s] = CleanedUp(iter[s \ {k}], c.moves[k])
      BY <1>5, <3>2, <3>3
    <3> QED
      BY <2>3, <3>1, <3>4
  <2> QED
    BY <2>2, <2>3
<1>9. iter = [s \in SUBSET (1 .. n) |->
                IF s = {} THEN base ELSE CleanedUp(iter[s \ {Max(s)}], c.moves[Max(s)])]
  BY <1>8
<1>10. F = [s \in SUBSET (1 .. n) |->
              IF s = {} THEN base ELSE CleanedUp(F[s \ {Max(s)}], c.moves[Max(s)])]
  BY <1>9, Zenon
<1>11. clean_up_stale_moves(c) = F[1 .. n]
  BY <1>1 DEF clean_up_stale_moves, FoldLeft, MapThenFoldSet, CleanedUp, IsStale, base
<1> HIDE DEF F
<1>12. F[{}] = base
  BY <1>10
<1>13. \A s \in SUBSET (1 .. n) : s # {} /\ F[s \ {Max(s)}] \in ChangeRec =>
           F[s] = step[<<F[s \ {Max(s)}], Max(s)>>]
  <2> SUFFICES ASSUME NEW s \in SUBSET (1 .. n), s # {}, F[s \ {Max(s)}] \in ChangeRec
               PROVE  F[s] = step[<<F[s \ {Max(s)}], Max(s)>>]
    OBVIOUS
  <2>1. PICK k \in 1 .. n : k = Max(s)
    BY <1>7
  <2>2. F[s] = IF s = {} THEN base ELSE CleanedUp(F[s \ {Max(s)}], c.moves[Max(s)])
    BY <1>10
  <2>3. F[s] = CleanedUp(F[s \ {k}], c.moves[k])
    BY <2>1, <2>2
  <2>4. step[<<F[s \ {k}], k>>] = CleanedUp(F[s \ {k}], c.moves[k])
    BY <1>5, <2>1
  <2> QED
    BY <2>1, <2>3, <2>4
<1>14. PICK acc \in [0 .. n -> ChangeRec] : StepsTo(acc, n, base, step, F[1 .. n])
  BY <1>2, <1>4, <1>12, <1>13, FoldSteps
<1>15. /\ acc[0] = base
       /\ \A k \in 1 .. n : acc[k] = step[<<acc[k - 1], k>>]
       /\ F[1 .. n] = acc[n]
  BY <1>14 DEF StepsTo
<1>16. \A k \in 1 .. n : acc[k] = CleanedUp(acc[k - 1], c.moves[k])
  <2>1. \A k \in 1 .. n : acc[k - 1] \in ChangeRec
    OBVIOUS
  <2> QED
    BY <1>5, <1>15, <2>1
<1> QED
  BY <1>11, <1>15, <1>16 DEF base

(* Cleaning up keeps changes right, and those told of.                      *)
LEMMA CleanUpIsRight ==
  ASSUME NEW x \in Seq(Nat), NEW y \in Seq(Nat), NEW c, Right(c, x, y), IsInjective(x), IsInjective(y)
  PROVE  /\ Right(clean_up_stale_moves(c), x, y)
         /\ clean_up_stale_moves(c).modifications = c.modifications
         /\ \A M, T : Told(M, c.insertions, c.moves, y, T)
              => Told(M, clean_up_stale_moves(c).insertions, clean_up_stale_moves(c).moves, y, T)
<1> DEFINE ms == c.moves
           Comes(d, k) ==
             /\ d.modifications = c.modifications
             /\ Turns(d.deletions, d.insertions, x, y)
             /\ \A m \in ToSet(d.moves) :
                  /\ GoodMove(m, d.deletions, d.insertions, x, y)
                  /\ \E l \in 1 .. k : m = ms[l]
             /\ \A l \in k + 1 .. Len(ms) : GoodMove(ms[l], d.deletions, d.insertions, x, y)
             /\ DistinctFroms(d.moves)
             /\ \A j \in c.insertions : j \in d.insertions \/ \E l \in 1 .. k : ms[l].to = j
<1>1. c \in ChangeRec /\ ms \in Seq(MoveRec) /\ DistinctFroms(ms)
  BY DEF Right, ChangeRec
<1>2. PICK n \in Nat : n = Len(ms) /\ DOMAIN ms = 1 .. n /\ \A k \in 1 .. n : ms[k] \in MoveRec
  BY <1>1, RowsLen
<1>3. \A k \in 1 .. n : ms[k] \in ToSet(ms)
  BY <1>2 DEF ToSet
<1>4. \A k, l \in 1 .. n : (ms[k].from = ms[l].from \/ ms[k].to = ms[l].to) => k = l
  BY <1>1, <1>2, RightMoves DEF DistinctFroms
<1>5. PICK acc \in [0 .. n -> ChangeRec] :
           /\ acc[0] = [c EXCEPT !.moves = <<>>]
           /\ \A k \in 1 .. n : acc[k] = CleanedUp(acc[k - 1], ms[k])
           /\ clean_up_stale_moves(c) = acc[n]
  BY <1>1, <1>2, CleanUpSteps
<1>6. Comes(acc[0], 0)
  <2>1. /\ acc[0].deletions = c.deletions /\ acc[0].insertions = c.insertions
        /\ acc[0].modifications = c.modifications /\ acc[0].moves = <<>>
    BY <1>1, <1>5 DEF ChangeRec
  <2>2. ToSet(<<>>) = {} /\ DistinctFroms(<<>>)
    BY DEF ToSet, DistinctFroms
  <2>3. \A l \in 0 + 1 .. Len(ms) : l \in 1 .. n
    BY <1>2
  <2>4. \A m \in ToSet(ms) : GoodMove(m, c.deletions, c.insertions, x, y)
    BY DEF Right
  <2> QED
    BY <1>3, <2>1, <2>2, <2>3, <2>4 DEF Right
<1>7. ASSUME NEW k \in 1 .. n, Comes(acc[k - 1], k - 1) PROVE Comes(acc[k], k)
  <2> DEFINE d == acc[k - 1]
             m == ms[k]
             e == acc[k]
  <2>1. d \in ChangeRec /\ e = CleanedUp(d, m) /\ m \in MoveRec
    BY <1>2, <1>5
  <2>2. (k - 1) + 1 = k /\ k \in (k - 1) + 1 .. Len(ms)
    BY <1>2
  <2>3. GoodMove(m, d.deletions, d.insertions, x, y)
    BY <1>7, <2>2
  <2>4. /\ \A l \in k + 1 .. Len(ms) : l \in (k - 1) + 1 .. Len(ms) /\ l \in 1 .. n /\ l # k
        /\ \A l \in 1 .. k - 1 : l \in 1 .. k /\ l \in 1 .. n /\ l # k
        /\ k \in 1 .. k
    BY <1>2
  <2>5. \A l \in k + 1 .. Len(ms) : /\ GoodMove(ms[l], d.deletions, d.insertions, x, y)
                                    /\ ms[l].from # m.from /\ ms[l].to # m.to
    <3> SUFFICES ASSUME NEW l \in k + 1 .. Len(ms)
                 PROVE  /\ GoodMove(ms[l], d.deletions, d.insertions, x, y)
                        /\ ms[l].from # m.from /\ ms[l].to # m.to
      OBVIOUS
    <3>1. GoodMove(ms[l], d.deletions, d.insertions, x, y)
      BY <1>7, <2>4
    <3>2. l \in 1 .. n /\ l # k
      BY <2>4
    <3>3. ms[l].from # m.from /\ ms[l].to # m.to
      BY <1>4, <3>2
    <3> QED
      BY <3>1, <3>3
  <2>6. \A o \in ToSet(d.moves) : /\ GoodMove(o, d.deletions, d.insertions, x, y)
                                  /\ o.from # m.from /\ o.to # m.to
                                  /\ \E l \in 1 .. k : o = ms[l]
    <3> SUFFICES ASSUME NEW o \in ToSet(d.moves)
                 PROVE  /\ GoodMove(o, d.deletions, d.insertions, x, y)
                        /\ o.from # m.from /\ o.to # m.to
                        /\ \E l \in 1 .. k : o = ms[l]
      OBVIOUS
    <3>1. GoodMove(o, d.deletions, d.insertions, x, y)
      BY <1>7
    <3>2. PICK l \in 1 .. k - 1 : o = ms[l]
      BY <1>7
    <3>3. l \in 1 .. k /\ l \in 1 .. n /\ l # k
      BY <2>4
    <3>4. o.from # m.from /\ o.to # m.to
      BY <1>4, <3>2, <3>3
    <3> QED
      BY <3>1, <3>2, <3>3, <3>4
  <2>7. /\ d.modifications = c.modifications
        /\ Turns(d.deletions, d.insertions, x, y)
        /\ DistinctFroms(d.moves)
        /\ \A j \in c.insertions : j \in d.insertions \/ \E l \in 1 .. k - 1 : ms[l].to = j
    BY <1>7
  <2> HIDE DEF d, m, e, Comes, ms
  <2>8. CASE IsStale(m, d)
    <3>1. /\ e.modifications = d.modifications /\ e.moves = d.moves
          /\ e.deletions = d.deletions \ {m.from} /\ e.insertions = d.insertions \ {m.to}
      BY <2>1, <2>8 DEF CleanedUp, ChangeRec
    <3>2. Turns(e.deletions, e.insertions, x, y)
      <4>1. unshift(d.deletions, m.from) = unshift(d.insertions, m.to)
        BY <2>8, Zenon DEF IsStale, unshift
      <4>2. m.from \in d.deletions /\ m.to \in d.insertions /\ x[m.from + 1] = y[m.to + 1]
        BY <2>3 DEF GoodMove
      <4>3. PICK f \in d.deletions : f = m.from
        BY <4>2
      <4>4. PICK t \in d.insertions : t = m.to
        BY <4>2
      <4>5. unshift(d.deletions, f) = unshift(d.insertions, t) /\ x[f + 1] = y[t + 1]
        BY <4>1, <4>2, <4>3, <4>4
      <4>6. Turns(d.deletions \ {f}, d.insertions \ {t}, x, y)
        BY <2>7, <4>5, TurnsWithoutMove
      <4> QED
        BY <3>1, <4>3, <4>4, <4>6
    <3>3. \A o : GoodMove(o, d.deletions, d.insertions, x, y) /\ o.from # m.from /\ o.to # m.to
                   => GoodMove(o, e.deletions, e.insertions, x, y)
      BY <3>1 DEF GoodMove
    <3>4. \A j \in c.insertions : j \in e.insertions \/ \E l \in 1 .. k : ms[l].to = j
      <4>1. m.to = ms[k].to
        BY DEF m
      <4> QED
        BY <2>4, <2>7, <3>1, <4>1
    <3> QED
      BY <2>5, <2>6, <2>7, <3>1, <3>2, <3>3, <3>4 DEF Comes, e
  <2>9. CASE ~IsStale(m, d)
    <3>1. e = [d EXCEPT !.moves = Append(d.moves, m)]
      BY <2>1, <2>9 DEF CleanedUp
    <3>2. /\ e.modifications = d.modifications /\ e.moves = Append(d.moves, m)
          /\ e.deletions = d.deletions /\ e.insertions = d.insertions
      BY <2>1, <3>1 DEF ChangeRec
    <3>3. d.moves \in Seq(MoveRec)
      BY <2>1 DEF ChangeRec
    <3>4. /\ Append(d.moves, m) \in Seq(MoveRec) /\ DistinctFroms(Append(d.moves, m))
          /\ ToSet(Append(d.moves, m)) = ToSet(d.moves) \cup {m}
      BY <2>1, <2>6, <2>7, <3>3, OneMoreMove
    <3>10. \A o \in ToSet(e.moves) : GoodMove(o, e.deletions, e.insertions, x, y) /\ \E l \in 1 .. k : o = ms[l]
      <4>1. m = ms[k]
        BY DEF m
      <4> QED
        BY <2>3, <2>4, <2>6, <3>2, <3>4, <4>1
    <3>11. \A j \in c.insertions : j \in e.insertions \/ \E l \in 1 .. k : ms[l].to = j
      BY <2>4, <2>7, <3>2
    <3> QED
      BY <2>5, <2>7, <3>2, <3>4, <3>10, <3>11 DEF Comes, e
  <2> QED
    BY <2>8, <2>9
<1>8. Comes(acc[n], n)
  <2> DEFINE Bad == {k \in 0 .. n : ~Comes(acc[k], k)}
  <2> HIDE DEF Comes
  <2> SUFFICES ASSUME Bad # {} PROVE FALSE
    BY <1>2
  <2>1. PICK k \in Bad : \A j \in Bad : k <= j
    <3>1. Bad \in SUBSET Nat
      OBVIOUS
    <3> HIDE DEF Bad
    <3> QED
      BY <3>1, LeastOne
  <2>2. k # 0
    BY <1>6, <2>1
  <2>3. k \in 1 .. n /\ k - 1 \in 0 .. n /\ ~(k <= k - 1)
    BY <2>1, <2>2
  <2>4. Comes(acc[k - 1], k - 1)
    BY <2>1, <2>3
  <2> QED
    BY <1>7, <2>1, <2>3, <2>4
<1> DEFINE d == acc[n]
<1>9. d \in ChangeRec /\ clean_up_stale_moves(c) = d
  BY <1>5
<1>10. Right(d, x, y) /\ d.modifications = c.modifications
  BY <1>8, <1>9 DEF Right
<1>11. ASSUME NEW M, NEW T, Told(M, c.insertions, c.moves, y, T)
       PROVE  Told(M, d.insertions, d.moves, y, T)
  <2>1. ASSUME NEW j, j \notin d.insertions \/ \E m \in ToSet(d.moves) : m.to = j
        PROVE  j \notin c.insertions \/ \E m \in ToSet(c.moves) : m.to = j
    <3>1. \A m \in ToSet(d.moves) : m \in ToSet(c.moves)
      BY <1>3, <1>8
    <3>2. \A l \in 1 .. n : ms[l] \in ToSet(c.moves)
      BY <1>3
    <3> QED
      BY <1>8, <2>1, <3>1, <3>2
  <2> QED
    BY <1>11, <2>1 DEF Told
<1> QED
  BY <1>9, <1>10, <1>11

-----------------------------------------------------------------------------
(* A move taken out of moves, of which the last takes the place.            *)
LEMMA WithoutIs ==
  ASSUME NEW ms \in Seq(MoveRec), DistinctFroms(ms), NEW m \in ToSet(ms)
  PROVE  /\ without(ms, m) \in Seq(MoveRec)
         /\ DistinctFroms(without(ms, m))
         /\ ToSet(without(ms, m)) = ToSet(ms) \ {m}
<1>1. PICK n \in Nat : n = Len(ms) /\ DOMAIN ms = 1 .. n /\ \A k \in 1 .. n : ms[k] \in MoveRec
  BY RowsLen
<1>2. PICK p \in 1 .. n : ms[p] = m
  BY <1>1 DEF ToSet
<1>3. \A k, l \in 1 .. n : ms[k].from = ms[l].from => k = l
  BY <1>1 DEF DistinctFroms
<1> DEFINE at == [k \in 1 .. n - 1 |-> IF k = p THEN n ELSE k]
           w == [k \in 1 .. n - 1 |-> ms[at[k]]]
<1>4. \A k \in 1 .. n - 1 : at[k] \in 1 .. n /\ at[k] # p
  BY <1>2
<1>5. \A k, l \in 1 .. n - 1 : at[k] = at[l] => k = l
  BY <1>2
<1>6. \A q \in 1 .. n : q # p => \E k \in 1 .. n - 1 : at[k] = q
  <2> SUFFICES ASSUME NEW q \in 1 .. n, q # p PROVE \E k \in 1 .. n - 1 : at[k] = q
    OBVIOUS
  <2>1. CASE q = n
    <3>1. p \in 1 .. n - 1 /\ at[p] = q
      BY <1>2, <2>1
    <3> QED
      BY <3>1
  <2>2. CASE q # n
    <3>1. q \in 1 .. n - 1
      BY <2>2
    <3>2. at[q] = q
      BY <3>1
    <3> QED
      BY <3>1, <3>2
  <2> QED
    BY <2>1, <2>2
<1>7. without(ms, m) = w
  <2>1. \A k \in 1 .. n : ms[k] = m <=> k = p
    BY <1>2, <1>3
  <2>2. \A k \in 1 .. n - 1 : (IF ms[k] = m THEN ms[n] ELSE ms[k]) = ms[at[k]]
    BY <2>1
  <2>3. w = [k \in 1 .. n - 1 |-> IF ms[k] = m THEN ms[n] ELSE ms[k]]
    BY <2>2
  <2> HIDE DEF w
  <2> QED
    BY <1>1, <2>3 DEF without
<1> HIDE DEF at
<1>8. w \in Seq(MoveRec)
  <2>1. n - 1 \in Nat
    BY <1>2
  <2> QED
    BY <1>1, <1>4, <2>1
<1>9. DOMAIN w = 1 .. n - 1 /\ \A k \in 1 .. n - 1 : w[k] = ms[at[k]]
  OBVIOUS
<1> HIDE DEF w
<1>10. DistinctFroms(w)
  <2> SUFFICES ASSUME NEW k \in 1 .. n - 1, NEW l \in 1 .. n - 1, w[k].from = w[l].from PROVE k = l
    BY <1>9 DEF DistinctFroms
  <2>1. ms[at[k]].from = ms[at[l]].from
    BY <1>9
  <2>2. at[k] = at[l]
    BY <1>3, <1>4, <2>1 DEF DistinctFroms
  <2> QED
    BY <1>5, <2>2
<1>11. \A o : o \in ToSet(w) <=> o \in ToSet(ms) /\ o # m
  <2>1. \A o : o \in ToSet(w) <=> \E k \in 1 .. n - 1 : o = ms[at[k]]
    BY <1>9 DEF ToSet
  <2>2. \A o : o \in ToSet(ms) <=> \E q \in 1 .. n : o = ms[q]
    BY <1>1 DEF ToSet
  <2>3. \A q \in 1 .. n : ms[q] = m <=> q = p
    BY <1>2, <1>3
  <2> QED
    BY <1>4, <1>6, <2>1, <2>2, <2>3
<1>12. ToSet(w) = ToSet(ms) \ {m}
  BY <1>11
<1> QED
  BY <1>7, <1>8, <1>10, <1>12

(* updateMoves, move by move.                                               *)
UpdateRec == [moves : Seq(MoveRec), c : ChangeRec]
Again(acc, old) == {m \in ToSet(acc.c.moves) : m.from = old.to}

MoveUpdated(acc, old, c) ==
  LET next == CHOOSE m \in Again(acc, old) : TRUE
  IN IF Again(acc, old) # {}
     THEN [moves |-> Append(acc.moves, [old EXCEPT !.to = next.to]),
           c |-> [acc.c EXCEPT !.moves = without(@, next)]]
     ELSE IF old.to \in c.deletions THEN acc
     ELSE [acc EXCEPT !.moves = Append(@, carried(old, c.deletions, c.insertions))]

LEMMA WithoutType ==
  ASSUME NEW ms \in Seq(MoveRec), NEW m \in ToSet(ms)
  PROVE  without(ms, m) \in Seq(MoveRec)
<1>1. PICK n \in Nat : n = Len(ms) /\ DOMAIN ms = 1 .. n /\ \A k \in 1 .. n : ms[k] \in MoveRec
  BY RowsLen
<1>2. PICK p \in 1 .. n : ms[p] = m
  BY <1>1 DEF ToSet
<1>3. n - 1 \in Nat /\ n \in 1 .. n /\ \A k \in 1 .. n - 1 : k \in 1 .. n
  BY <1>2
<1>4. [k \in 1 .. n - 1 |-> IF ms[k] = m THEN ms[n] ELSE ms[k]] \in Seq(MoveRec)
  BY <1>1, <1>3
<1> QED
  BY <1>1, <1>4 DEF without

LEMMA MoveUpdatedType ==
  ASSUME NEW acc \in UpdateRec, NEW old \in MoveRec, NEW c \in ChangeRec,
         c.deletions \in PositionSets, c.insertions \in PositionSets
  PROVE  MoveUpdated(acc, old, c) \in UpdateRec
<1>1. /\ acc.moves \in Seq(MoveRec) /\ acc.c \in ChangeRec /\ acc.c.moves \in Seq(MoveRec)
      /\ acc = [moves |-> acc.moves, c |-> acc.c]
  BY DEF UpdateRec, ChangeRec
<1>2. ASSUME NEW m \in MoveRec PROVE Append(acc.moves, m) \in Seq(MoveRec)
  BY <1>1, AppendIs
<1>3. CASE Again(acc, old) # {}
  <2> DEFINE next == CHOOSE m \in Again(acc, old) : TRUE
  <2>1. next \in Again(acc, old)
    BY <1>3, Zenon
  <2> HIDE DEF next
  <2>2. next \in ToSet(acc.c.moves) /\ next \in MoveRec
    BY <1>1, <2>1 DEF Again, ToSet
  <2>3. [old EXCEPT !.to = next.to] \in MoveRec
    BY <2>2 DEF MoveRec
  <2>4. [acc.c EXCEPT !.moves = without(@, next)] \in ChangeRec
    BY <1>1, <2>2, WithoutType DEF ChangeRec
  <2>5. MoveUpdated(acc, old, c) = [moves |-> Append(acc.moves, [old EXCEPT !.to = next.to]),
                                    c |-> [acc.c EXCEPT !.moves = without(@, next)]]
    BY <1>3 DEF MoveUpdated, next
  <2>6. Append(acc.moves, [old EXCEPT !.to = next.to]) \in Seq(MoveRec)
    BY <1>2, <2>3
  <2> QED
    BY <2>4, <2>5, <2>6 DEF UpdateRec
<1>4. CASE Again(acc, old) = {} /\ old.to \in c.deletions
  BY <1>4 DEF MoveUpdated
<1>5. CASE Again(acc, old) = {} /\ old.to \notin c.deletions
  <2>1. PICK t \in Nat : t = old.to /\ t \notin c.deletions
    BY <1>5 DEF MoveRec
  <2>2. unshift(c.deletions, t) \in Nat
    BY <2>1, ShiftUnshift
  <2>3. shift(c.insertions, unshift(c.deletions, t)) \in Nat
    BY <2>2, ShiftIs
  <2>4. carried(old, c.deletions, c.insertions) \in MoveRec
    BY <2>1, <2>3 DEF carried, MoveRec
  <2>5. Append(acc.moves, carried(old, c.deletions, c.insertions)) \in Seq(MoveRec)
    BY <1>2, <2>4
  <2>6. MoveUpdated(acc, old, c)
          = [acc EXCEPT !.moves = Append(acc.moves, carried(old, c.deletions, c.insertions))]
    BY <1>5 DEF MoveUpdated
  <2> QED
    BY <2>5, <2>6 DEF UpdateRec
<1> QED
  BY <1>3, <1>4, <1>5

Updates(acc, moves, n, c) ==
  /\ acc[0] = [moves |-> <<>>, c |-> c]
  /\ \A k \in 1 .. n : acc[k] = MoveUpdated(acc[k - 1], moves[k], c)
  /\ updateMoves(moves, c) = acc[n]

LEMMA UpdateSteps ==
  ASSUME NEW moves \in Seq(MoveRec), NEW n \in Nat, n = Len(moves), NEW c \in ChangeRec,
         c.deletions \in PositionSets, c.insertions \in PositionSets
  PROVE  \E acc \in [0 .. n -> UpdateRec] : Updates(acc, moves, n, c)
<1> DEFINE base == [moves |-> <<>>, c |-> c]
           step == [a \in UpdateRec \X (1 .. n) |-> MoveUpdated(a[1], moves[a[2]], c)]
           F == CHOOSE g : g = [s \in SUBSET (1 .. n) |->
                  IF s = {} THEN base ELSE MoveUpdated(g[s \ {Max(s)}], moves[Max(s)], c)]
<1>1. DOMAIN moves = 1 .. n /\ \A k \in 1 .. n : moves[k] \in MoveRec
  OBVIOUS
<1>2. base \in UpdateRec
  BY DEF UpdateRec
<1>3. \A d \in UpdateRec, m \in MoveRec : MoveUpdated(d, m, c) \in UpdateRec
  BY MoveUpdatedType
<1>4. step \in [UpdateRec \X (1 .. n) -> UpdateRec]
  <2>1. \A a \in UpdateRec \X (1 .. n) : MoveUpdated(a[1], moves[a[2]], c) \in UpdateRec
    BY <1>1, <1>3
  <2> QED
    BY <2>1
<1>5. \A d \in UpdateRec, k \in 1 .. n : step[<<d, k>>] = MoveUpdated(d, moves[k], c)
  OBVIOUS
<1> HIDE DEF step, base
<1>6. PICK iter \in [SUBSET (1 .. n) -> UpdateRec] : IsFold(iter, n, base, step)
  BY <1>2, <1>4, FoldExists
<1>7. \A s \in SUBSET (1 .. n) : s # {} => Max(s) \in 1 .. n /\ s \ {Max(s)} \in SUBSET (1 .. n)
  BY MaxIs
<1>8. \A s \in SUBSET (1 .. n) :
        iter[s] = IF s = {} THEN base ELSE MoveUpdated(iter[s \ {Max(s)}], moves[Max(s)], c)
  <2> SUFFICES ASSUME NEW s \in SUBSET (1 .. n)
               PROVE  iter[s] = IF s = {} THEN base ELSE MoveUpdated(iter[s \ {Max(s)}], moves[Max(s)], c)
    OBVIOUS
  <2>1. iter[s] = IF s = {} THEN base ELSE step[<<iter[s \ {Max(s)}], Max(s)>>]
    BY <1>6 DEF IsFold
  <2>2. CASE s = {}
    BY <2>1, <2>2
  <2>3. CASE s # {}
    <3>1. PICK k \in 1 .. n : k = Max(s) /\ s \ {k} \in SUBSET (1 .. n)
      BY <1>7, <2>3
    <3>2. iter[s \ {k}] \in UpdateRec
      BY <1>6, <3>1
    <3>3. iter[s] = step[<<iter[s \ {k}], k>>]
      BY <2>1, <2>3, <3>1
    <3>4. iter[s] = MoveUpdated(iter[s \ {k}], moves[k], c)
      BY <1>5, <3>2, <3>3
    <3> QED
      BY <2>3, <3>1, <3>4
  <2> QED
    BY <2>2, <2>3
<1>9. iter = [s \in SUBSET (1 .. n) |->
                IF s = {} THEN base ELSE MoveUpdated(iter[s \ {Max(s)}], moves[Max(s)], c)]
  BY <1>8
<1>10. F = [s \in SUBSET (1 .. n) |->
              IF s = {} THEN base ELSE MoveUpdated(F[s \ {Max(s)}], moves[Max(s)], c)]
  BY <1>9, Zenon
<1>11. updateMoves(moves, c) = F[1 .. n]
  BY <1>1 DEF updateMoves, FoldLeft, MapThenFoldSet, MoveUpdated, Again, carried, base
<1> HIDE DEF F
<1>12. F[{}] = base
  BY <1>10
<1>13. \A s \in SUBSET (1 .. n) : s # {} /\ F[s \ {Max(s)}] \in UpdateRec =>
           F[s] = step[<<F[s \ {Max(s)}], Max(s)>>]
  <2> SUFFICES ASSUME NEW s \in SUBSET (1 .. n), s # {}, F[s \ {Max(s)}] \in UpdateRec
               PROVE  F[s] = step[<<F[s \ {Max(s)}], Max(s)>>]
    OBVIOUS
  <2>1. PICK k \in 1 .. n : k = Max(s)
    BY <1>7
  <2>2. F[s] = IF s = {} THEN base ELSE MoveUpdated(F[s \ {Max(s)}], moves[Max(s)], c)
    BY <1>10
  <2>3. F[s] = MoveUpdated(F[s \ {k}], moves[k], c)
    BY <2>1, <2>2
  <2>4. step[<<F[s \ {k}], k>>] = MoveUpdated(F[s \ {k}], moves[k], c)
    BY <1>5, <2>1
  <2> QED
    BY <2>1, <2>3, <2>4
<1>14. PICK acc \in [0 .. n -> UpdateRec] : StepsTo(acc, n, base, step, F[1 .. n])
  BY <1>2, <1>4, <1>12, <1>13, FoldSteps
<1>15. /\ acc[0] = base
       /\ \A k \in 1 .. n : acc[k] = step[<<acc[k - 1], k>>]
       /\ F[1 .. n] = acc[n]
  BY <1>14 DEF StepsTo
<1>16. \A k \in 1 .. n : acc[k] = MoveUpdated(acc[k - 1], moves[k], c)
  <2>1. \A k \in 1 .. n : acc[k - 1] \in UpdateRec
    OBVIOUS
  <2> QED
    BY <1>5, <1>15, <2>1
<1> QED
  BY <1>11, <1>15, <1>16 DEF base, Updates

(* The moves brought up to date: those of rows that stay, and those that    *)
(* a later move continues, which is taken out of the later ones.            *)
LEMMA UpdateMovesAre ==
  ASSUME NEW ms \in Seq(MoveRec), DistinctFroms(ms), NEW c \in ChangeRec, DistinctFroms(c.moves),
         c.deletions \in PositionSets, c.insertions \in PositionSets
  PROVE  LET u == updateMoves(ms, c)
         IN /\ u \in UpdateRec
            /\ DistinctFroms(u.moves) /\ DistinctFroms(u.c.moves)
            /\ \A m \in ToSet(u.c.moves) : m \in ToSet(c.moves)
            /\ \A p \in ToSet(u.moves) : \E o \in ToSet(ms) :
                 /\ p.from = o.from
                 /\ \/ o.to \notin c.deletions /\ p = carried(o, c.deletions, c.insertions)
                    \/ \E m \in ToSet(c.moves) : m.from = o.to /\ p.to = m.to /\ m \notin ToSet(u.c.moves)
<1> DEFINE E == c.deletions
           J == c.insertions
           GoesOn(a, p, o) ==
             /\ p.from = o.from
             /\ \/ o.to \notin E /\ p = carried(o, E, J)
                \/ \E m \in ToSet(c.moves) : m.from = o.to /\ p.to = m.to /\ m \notin ToSet(a.c.moves)
           Comes(a, k) ==
             /\ DistinctFroms(a.moves) /\ DistinctFroms(a.c.moves)
             /\ \A m \in ToSet(a.c.moves) : m \in ToSet(c.moves)
             /\ \A p \in ToSet(a.moves) : \E l \in 1 .. k : GoesOn(a, p, ms[l])
<1>1. PICK n \in Nat : n = Len(ms) /\ DOMAIN ms = 1 .. n /\ \A k \in 1 .. n : ms[k] \in MoveRec
  BY RowsLen
<1>2. \A k \in 1 .. n : ms[k] \in ToSet(ms)
  BY <1>1 DEF ToSet
<1>3. \A k, l \in 1 .. n : ms[k].from = ms[l].from => k = l
  BY <1>1 DEF DistinctFroms
<1>9. PICK acc \in [0 .. n -> UpdateRec] : Updates(acc, ms, n, c)
  BY <1>1, UpdateSteps
<1>4. /\ acc[0] = [moves |-> <<>>, c |-> c]
      /\ \A k \in 1 .. n : acc[k] = MoveUpdated(acc[k - 1], ms[k], c)
      /\ updateMoves(ms, c) = acc[n]
  BY <1>9 DEF Updates
<1>5. Comes(acc[0], 0)
  <2>1. acc[0].moves = <<>> /\ acc[0].c = c
    BY <1>4
  <2>2. ToSet(<<>>) = {} /\ DistinctFroms(<<>>)
    BY DEF ToSet, DistinctFroms
  <2> QED
    BY <2>1, <2>2
<1>6. ASSUME NEW k \in 1 .. n, Comes(acc[k - 1], k - 1) PROVE Comes(acc[k], k)
  <2> DEFINE a == acc[k - 1]
             b == acc[k]
             old == ms[k]
  <2>1. a \in UpdateRec /\ b \in UpdateRec /\ b = MoveUpdated(a, old, c) /\ old \in MoveRec
    BY <1>1, <1>4
  <2>2. /\ \A l \in 1 .. k - 1 : l \in 1 .. k /\ l \in 1 .. n /\ l # k
        /\ k \in 1 .. k
    OBVIOUS
  <2>3. /\ DistinctFroms(a.moves) /\ DistinctFroms(a.c.moves)
        /\ \A m \in ToSet(a.c.moves) : m \in ToSet(c.moves)
        /\ \A p \in ToSet(a.moves) : \E l \in 1 .. k - 1 : GoesOn(a, p, ms[l])
    BY <1>6
  <2>4. \A p \in ToSet(a.moves) : p.from # old.from
    BY <1>3, <2>2, <2>3
  <2>5. /\ a.moves \in Seq(MoveRec) /\ a.c \in ChangeRec /\ a.c.moves \in Seq(MoveRec)
        /\ a = [moves |-> a.moves, c |-> a.c]
    BY <2>1 DEF UpdateRec, ChangeRec
  <2> HIDE DEF a, b
  <2>6. CASE Again(a, old) # {}
    <3> DEFINE next == CHOOSE m \in Again(a, old) : TRUE
               p == [old EXCEPT !.to = next.to]
    <3>1. next \in Again(a, old)
      BY <2>6, Zenon
    <3>2. /\ b.moves = Append(a.moves, p)
          /\ b.c = [a.c EXCEPT !.moves = without(@, next)]
      BY <2>1, <2>6 DEF MoveUpdated
    <3> HIDE DEF next
    <3>3. next \in ToSet(a.c.moves) /\ next.from = old.to /\ next \in MoveRec
      BY <2>5, <3>1 DEF Again, ToSet
    <3>4. b.c.moves = without(a.c.moves, next)
      BY <2>5, <3>2 DEF ChangeRec
    <3>5. DistinctFroms(b.c.moves) /\ ToSet(b.c.moves) = ToSet(a.c.moves) \ {next}
      BY <2>3, <2>5, <3>3, <3>4, WithoutIs
    <3>6. p \in MoveRec /\ p.from = old.from /\ p.to = next.to
      BY <2>1, <3>3 DEF MoveRec
    <3> HIDE DEF p
    <3>7. DistinctFroms(b.moves) /\ ToSet(b.moves) = ToSet(a.moves) \cup {p}
      BY <2>3, <2>4, <2>5, <3>2, <3>6, OneMoreMove
    <3>8. GoesOn(b, p, old)
      BY <2>3, <3>3, <3>5, <3>6
    <3>9. \A q, o : GoesOn(a, q, o) => GoesOn(b, q, o)
      BY <3>5
    <3> HIDE DEF GoesOn
    <3> QED
      BY <2>2, <2>3, <3>5, <3>7, <3>8, <3>9 DEF b
  <2>7. CASE Again(a, old) = {} /\ old.to \in E
    <3>1. b = a
      BY <2>1, <2>7 DEF MoveUpdated
    <3> HIDE DEF GoesOn
    <3> QED
      BY <2>2, <2>3, <3>1 DEF b
  <2>8. CASE Again(a, old) = {} /\ old.to \notin E
    <3> DEFINE p == carried(old, E, J)
    <3>1. b = [a EXCEPT !.moves = Append(a.moves, p)]
      BY <2>1, <2>8 DEF MoveUpdated
    <3>2. b.moves = Append(a.moves, p) /\ b.c = a.c
      BY <2>5, <3>1
    <3>3. p \in MoveRec /\ p.from = old.from
      <4>1. PICK t \in Nat : t = old.to /\ t \notin E
        BY <2>1, <2>8 DEF MoveRec
      <4>2. unshift(E, t) \in Nat
        BY <4>1, ShiftUnshift
      <4>3. shift(J, unshift(E, t)) \in Nat
        BY <4>2, ShiftIs
      <4> QED
        BY <2>1, <4>1, <4>3 DEF carried, MoveRec
    <3>4. GoesOn(b, p, old)
      BY <2>8, <3>3
    <3> HIDE DEF p
    <3>5. DistinctFroms(b.moves) /\ ToSet(b.moves) = ToSet(a.moves) \cup {p}
      BY <2>3, <2>4, <2>5, <3>2, <3>3, OneMoreMove
    <3>6. \A q, o : GoesOn(a, q, o) => GoesOn(b, q, o)
      BY <3>2
    <3> HIDE DEF GoesOn
    <3> QED
      BY <2>2, <2>3, <3>2, <3>4, <3>5, <3>6 DEF b
  <2> QED
    BY <2>6, <2>7, <2>8
<1>7. Comes(acc[n], n)
  <2> DEFINE Bad == {k \in 0 .. n : ~Comes(acc[k], k)}
  <2> HIDE DEF Comes
  <2> SUFFICES ASSUME Bad # {} PROVE FALSE
    BY <1>1
  <2>1. PICK k \in Bad : \A j \in Bad : k <= j
    <3>1. Bad \in SUBSET Nat
      OBVIOUS
    <3> HIDE DEF Bad
    <3> QED
      BY <3>1, LeastOne
  <2>2. k # 0
    BY <1>5, <2>1
  <2>3. k \in 1 .. n /\ k - 1 \in 0 .. n /\ ~(k <= k - 1)
    BY <2>1, <2>2
  <2>4. Comes(acc[k - 1], k - 1)
    BY <2>1, <2>3
  <2> QED
    BY <1>6, <2>1, <2>3, <2>4
<1>8. acc[n] \in UpdateRec /\ updateMoves(ms, c) = acc[n]
  BY <1>4
<1> QED
  BY <1>2, <1>7, <1>8

-----------------------------------------------------------------------------
(* The new moves of a merge: those of rows that did not come before, from   *)
(* where they were before the earlier changes.                              *)
Fresh(ms, I) == Picked(ms, {k \in DOMAIN ms : ms[k].from \notin I})

Compensated(ms, D, I) ==
  [k \in DOMAIN ms |-> [ms[k] EXCEPT !.from = shift(D, unshift(I, ms[k].from))]]

LEMMA FreshIs ==
  ASSUME NEW ms \in Seq(MoveRec), DistinctFroms(ms), NEW I
  PROVE  /\ Fresh(ms, I) \in Seq(MoveRec)
         /\ DistinctFroms(Fresh(ms, I))
         /\ \A m : m \in ToSet(Fresh(ms, I)) <=> m \in ToSet(ms) /\ m.from \notin I
<1> DEFINE places == {k \in DOMAIN ms : ms[k].from \notin I}
<1>1. places \in SUBSET DOMAIN ms
  OBVIOUS
<1>2. \A m : m \in {ms[p] : p \in places} <=> m \in ToSet(ms) /\ m.from \notin I
  <2>1. \A m : m \in ToSet(ms) <=> \E k \in DOMAIN ms : m = ms[k]
    BY DEF ToSet
  <2> QED
    BY <2>1
<1> HIDE DEF places
<1>3. /\ Picked(ms, places) \in Seq(MoveRec)
      /\ ToSet(Picked(ms, places)) = {ms[p] : p \in places}
      /\ DistinctFroms(Picked(ms, places))
  BY <1>1, PickedMoves
<1>4. Fresh(ms, I) = Picked(ms, places)
  BY DEF Fresh, places
<1> QED
  BY <1>2, <1>3, <1>4

LEMMA CompensatedAre ==
  ASSUME NEW ms \in Seq(MoveRec), DistinctFroms(ms), NEW D \in PositionSets, NEW I \in PositionSets,
         \A m \in ToSet(ms) : m.from \notin I
  PROVE  /\ Compensated(ms, D, I) \in Seq(MoveRec)
         /\ DistinctFroms(Compensated(ms, D, I))
         /\ \A q \in ToSet(Compensated(ms, D, I)) : \E m \in ToSet(ms) :
              q.to = m.to /\ q.from = shift(D, unshift(I, m.from))
<1>1. PICK n \in Nat : n = Len(ms) /\ DOMAIN ms = 1 .. n
  BY MovesAre
<1>2. \A k \in 1 .. n : /\ ms[k] \in MoveRec /\ ms[k] \in ToSet(ms) /\ ms[k].from \notin I
                        /\ ms[k].from \in Nat /\ ms[k].to \in Nat
  BY <1>1, MovesAre
<1> DEFINE to(k) == shift(D, unshift(I, ms[k].from))
<1>3. ASSUME NEW k \in 1 .. n PROVE to(k) \in Nat
  <2>1. PICK f \in Nat : f = ms[k].from /\ f \notin I
    BY <1>2
  <2>2. unshift(I, f) \in Nat
    BY <2>1, ShiftUnshift
  <2> QED
    BY <2>1, <2>2, ShiftIs
<1>4. ASSUME NEW k \in 1 .. n, NEW l \in 1 .. n, to(k) = to(l) PROVE k = l
  <2>1. PICK f \in Nat : f = ms[k].from /\ f \notin I
    BY <1>2
  <2>2. PICK g \in Nat : g = ms[l].from /\ g \notin I
    BY <1>2
  <2>3. unshift(I, f) \in Nat /\ shift(I, unshift(I, f)) = f
    BY <2>1, ShiftUnshift
  <2>4. unshift(I, g) \in Nat /\ shift(I, unshift(I, g)) = g
    BY <2>2, ShiftUnshift
  <2>5. unshift(I, f) = unshift(I, g)
    BY <1>4, <2>1, <2>2, <2>3, <2>4, ShiftOrder
  <2> QED
    BY <1>1, <2>1, <2>2, <2>3, <2>4, <2>5 DEF DistinctFroms
<1> HIDE DEF to
<1> DEFINE e(k) == [ms[k] EXCEPT !.from = to(k)]
           w == [k \in 1 .. n |-> e(k)]
<1>5. \A k \in 1 .. n : e(k) \in MoveRec /\ e(k).from = to(k) /\ e(k).to = ms[k].to
  BY <1>2, <1>3 DEF MoveRec
<1>6. Compensated(ms, D, I) = w
  BY <1>1, Zenon DEF Compensated, to
<1> HIDE DEF e
<1>7. w \in Seq(MoveRec)
  BY <1>5
<1>8. DOMAIN w = 1 .. n /\ \A k \in 1 .. n : w[k].from = to(k) /\ w[k].to = ms[k].to
  BY <1>5
<1> HIDE DEF w
<1>9. DistinctFroms(w)
  BY <1>4, <1>8 DEF DistinctFroms
<1>10. ASSUME NEW q \in ToSet(w) PROVE \E m \in ToSet(ms) : q.to = m.to /\ q.from = shift(D, unshift(I, m.from))
  <2>1. PICK k \in 1 .. n : q = w[k]
    BY <1>8 DEF ToSet
  <2>2. ms[k] \in ToSet(ms) /\ q.to = ms[k].to /\ q.from = shift(D, unshift(I, ms[k].from))
    BY <1>2, <1>8, <2>1 DEF to
  <2> QED
    BY <2>2
<1> QED
  BY <1>6, <1>7, <1>9, <1>10

LEMMA JoinedAre ==
  ASSUME NEW a \in Seq(MoveRec), NEW b \in Seq(MoveRec), DistinctFroms(a), DistinctFroms(b),
         \A p \in ToSet(a), q \in ToSet(b) : p.from # q.from
  PROVE  /\ a \o b \in Seq(MoveRec)
         /\ DistinctFroms(a \o b)
         /\ \A m \in ToSet(a \o b) : m \in ToSet(a) \/ m \in ToSet(b)
<1>1. PICK n \in Nat : n = Len(a) /\ DOMAIN a = 1 .. n /\ \A k \in 1 .. n : a[k] \in ToSet(a)
  BY MovesAre
<1>2. PICK l \in Nat : l = Len(b) /\ DOMAIN b = 1 .. l /\ \A k \in 1 .. l : b[k] \in ToSet(b)
  BY MovesAre
<1>3. PICK s \in Seq(MoveRec) : s = a \o b
  BY ConcatIs
<1>4. /\ Len(s) = n + l
      /\ \A k \in 1 .. n : s[k] = a[k]
      /\ \A k \in 1 .. l : s[n + k] = b[k]
  BY <1>1, <1>2, <1>3, ConcatIs
<1>5. DOMAIN s = 1 .. n + l
  BY <1>4, MovesAre
<1>6. ASSUME NEW k \in 1 .. n + l, ~(k <= n) PROVE k - n \in 1 .. l /\ s[k] = b[k - n]
  <2>1. PICK h \in 1 .. l : h = k - n /\ n + h = k
    BY <1>6
  <2> QED
    BY <1>4, <2>1
<1>7. ASSUME NEW k \in 1 .. n + l, k <= n PROVE k \in 1 .. n /\ s[k] = a[k]
  BY <1>4, <1>7
<1>8. ASSUME NEW k \in 1 .. n + l, NEW h \in 1 .. n + l, s[k].from = s[h].from PROVE k = h
  <2>1. CASE k <= n /\ h <= n
    BY <1>1, <1>7, <1>8, <2>1 DEF DistinctFroms
  <2>2. CASE k <= n /\ ~(h <= n)
    BY <1>1, <1>2, <1>6, <1>7, <1>8, <2>2
  <2>3. CASE ~(k <= n) /\ h <= n
    BY <1>1, <1>2, <1>6, <1>7, <1>8, <2>3
  <2>4. CASE ~(k <= n) /\ ~(h <= n)
    <3>1. /\ k - n \in 1 .. l /\ s[k] = b[k - n]
          /\ h - n \in 1 .. l /\ s[h] = b[h - n]
      BY <1>6, <2>4
    <3>2. b[k - n].from = b[h - n].from
      BY <1>8, <3>1
    <3>3. k - n = h - n
      BY <1>2, <3>1, <3>2 DEF DistinctFroms
    <3> QED
      BY <3>3
  <2> QED
    BY <2>1, <2>2, <2>3, <2>4
<1>9. DistinctFroms(s)
  BY <1>5, <1>8 DEF DistinctFroms
<1>10. ASSUME NEW m \in ToSet(s) PROVE m \in ToSet(a) \/ m \in ToSet(b)
  <2>1. PICK k \in 1 .. n + l : m = s[k]
    BY <1>5 DEF ToSet
  <2>2. CASE k <= n
    BY <1>1, <1>7, <2>1, <2>2
  <2>3. CASE ~(k <= n)
    BY <1>2, <1>6, <2>1, <2>3
  <2> QED
    BY <2>2, <2>3
<1> QED
  BY <1>3, <1>9, <1>10

(* What merge makes of two changes, before it cleans up.                    *)
Joined(self, c) ==
  LET u == updateMoves(self.moves, c)
  IN [deletions |-> add_shifted_by(self.deletions, self.insertions, c.deletions),
      insertions |-> insert_at(erase_at(self.insertions, c.deletions), c.insertions),
      modifications |-> {},
      moves |-> u.moves \o Compensated(Fresh(u.c.moves, self.insertions), self.deletions, self.insertions)]

MovedOn(self, c) ==
  LET u == updateMoves(self.moves, c)
  IN {m \in ToSet(c.moves) : m.from \in self.modifications
        /\ (m \in ToSet(Fresh(u.c.moves, self.insertions)) \/ m \notin ToSet(u.c.moves))}

MergedModifications(self, c) ==
  shift_for_insert_at(erase_at(self.modifications, c.deletions), c.insertions)
    \cup c.modifications \cup {m.to : m \in MovedOn(self, c)}

LEMMA MergeIs ==
  ASSUME NEW self, NEW c, ~IsEmpty(c), ~IsEmpty(self)
  PROVE  merge(self, c) = [clean_up_stale_moves(Joined(self, c)) EXCEPT
                             !.modifications = MergedModifications(self, c)]
BY Zenon DEF merge, Joined, MovedOn, MergedModifications, Fresh, Compensated

(* The moves of two changes in a row: those of the earlier ones, brought up *)
(* to date, and those of the later ones that come from rows there were.     *)
(* Where a move of the merged changes comes from: one made before, carried  *)
(* on, or one of c, which may go on from one made before.                   *)
JoinedMove(p, self, c) ==
  \/ \E o \in ToSet(self.moves) :
       o.to \notin c.deletions /\ p = carried(o, c.deletions, c.insertions)
  \/ \E m \in ToSet(c.moves) :
       /\ p.to = m.to
       /\ \/ \E o \in ToSet(self.moves) : o.to = m.from /\ p.from = o.from
          \/ m.from \notin self.insertions
               /\ p.from = shift(self.deletions, unshift(self.insertions, m.from))
       /\ \/ m \in ToSet(Fresh(updateMoves(self.moves, c).c.moves, self.insertions))
          \/ m \notin ToSet(updateMoves(self.moves, c).c.moves)

LEMMA JoinedMoves ==
  ASSUME NEW x \in Seq(Nat), NEW y \in Seq(Nat), NEW z \in Seq(Nat),
         NEW self, Right(self, x, y), NEW c, Right(c, y, z), NEW j2, j2 = Joined(self, c)
  PROVE  /\ j2.moves \in Seq(MoveRec) /\ DistinctFroms(j2.moves)
         /\ \A p \in ToSet(j2.moves) : JoinedMove(p, self, c)
<1> DEFINE u == updateMoves(self.moves, c)
           D == self.deletions
           I == self.insertions
           f == Fresh(u.c.moves, I)
           b == Compensated(f, D, I)
<1>1. /\ self.moves \in Seq(MoveRec) /\ DistinctFroms(self.moves)
      /\ c \in ChangeRec /\ c.moves \in Seq(MoveRec) /\ DistinctFroms(c.moves)
      /\ Turns(D, I, x, y) /\ Turns(c.deletions, c.insertions, y, z)
      /\ \A o \in ToSet(self.moves) : o.from \in D
  BY DEF Right, ChangeRec, GoodMove
<1>2. /\ D \in PositionSets /\ I \in PositionSets /\ D \in SUBSET Nat
      /\ c.deletions \in PositionSets /\ c.insertions \in PositionSets
  BY <1>1, TurnsSets
<1>3. /\ u \in UpdateRec
      /\ DistinctFroms(u.moves) /\ DistinctFroms(u.c.moves)
      /\ \A m \in ToSet(u.c.moves) : m \in ToSet(c.moves)
      /\ \A p \in ToSet(u.moves) : \E o \in ToSet(self.moves) :
           /\ p.from = o.from
           /\ \/ o.to \notin c.deletions /\ p = carried(o, c.deletions, c.insertions)
              \/ \E m \in ToSet(c.moves) : m.from = o.to /\ p.to = m.to /\ m \notin ToSet(u.c.moves)
  BY <1>1, <1>2, UpdateMovesAre
<1> HIDE DEF u
<1>4. u.moves \in Seq(MoveRec) /\ u.c.moves \in Seq(MoveRec)
  BY <1>3 DEF UpdateRec, ChangeRec
<1>5. /\ f \in Seq(MoveRec) /\ DistinctFroms(f)
      /\ \A m : m \in ToSet(f) <=> m \in ToSet(u.c.moves) /\ m.from \notin I
  BY <1>3, <1>4, FreshIs
<1> HIDE DEF f
<1>6. /\ b \in Seq(MoveRec) /\ DistinctFroms(b)
      /\ \A q \in ToSet(b) : \E m \in ToSet(f) : q.to = m.to /\ q.from = shift(D, unshift(I, m.from))
  BY <1>2, <1>5, CompensatedAre
<1> HIDE DEF b
<1>7. ASSUME NEW p \in ToSet(u.moves), NEW q \in ToSet(b) PROVE p.from # q.from
  <2>1. p.from \in D
    BY <1>1, <1>3
  <2>2. PICK m \in ToSet(f) : q.from = shift(D, unshift(I, m.from))
    BY <1>6
  <2>3. PICK k \in Nat : k = m.from /\ k \notin I
    BY <1>5, MovesAre
  <2>4. unshift(I, k) \in Nat
    BY <1>2, <2>3, ShiftUnshift
  <2>5. shift(D, unshift(I, k)) \notin D
    BY <1>2, <2>4, ShiftIs
  <2> QED
    BY <2>1, <2>2, <2>3, <2>5
<1>8. j2.moves = u.moves \o b
  BY DEF Joined, u, b, f
<1>9. /\ u.moves \o b \in Seq(MoveRec) /\ DistinctFroms(u.moves \o b)
      /\ \A m \in ToSet(u.moves \o b) : m \in ToSet(u.moves) \/ m \in ToSet(b)
  BY <1>3, <1>4, <1>6, <1>7, JoinedAre
<1> SUFFICES ASSUME NEW p \in ToSet(j2.moves)
             PROVE  \/ \E o \in ToSet(self.moves) :
                         o.to \notin c.deletions /\ p = carried(o, c.deletions, c.insertions)
                    \/ \E m \in ToSet(c.moves) :
                         /\ p.to = m.to
                         /\ \/ \E o \in ToSet(self.moves) : o.to = m.from /\ p.from = o.from
                            \/ m.from \notin I /\ p.from = shift(D, unshift(I, m.from))
                         /\ m \in ToSet(f) \/ m \notin ToSet(u.c.moves)
  BY <1>8, <1>9 DEF u, f, JoinedMove
<1>10. CASE p \in ToSet(u.moves)
  BY <1>3, <1>10
<1>11. CASE p \in ToSet(b)
  BY <1>3, <1>5, <1>6, <1>11
<1> QED
  BY <1>8, <1>9, <1>10, <1>11

LEMMA JoinedType ==
  ASSUME NEW x \in Seq(Nat), NEW y \in Seq(Nat), NEW z \in Seq(Nat),
         NEW self, Right(self, x, y), NEW c, Right(c, y, z), NEW j2, j2 = Joined(self, c)
  PROVE  /\ j2 \in ChangeRec
         /\ j2.deletions = insert_at(erase_at(c.deletions, self.insertions), self.deletions)
         /\ j2.insertions = insert_at(erase_at(self.insertions, c.deletions), c.insertions)
<1>1. Turns(self.deletions, self.insertions, x, y) /\ Turns(c.deletions, c.insertions, y, z)
  BY DEF Right
<1>2. /\ self.deletions \in PositionSets /\ self.insertions \in PositionSets
      /\ c.deletions \in PositionSets /\ c.insertions \in PositionSets
  BY <1>1, TurnsSets
<1>3. add_shifted_by(self.deletions, self.insertions, c.deletions)
        = insert_at(erase_at(c.deletions, self.insertions), self.deletions)
  BY <1>2, AddShiftedInserts
<1>4. /\ j2.deletions = insert_at(erase_at(c.deletions, self.insertions), self.deletions)
      /\ j2.insertions = insert_at(erase_at(self.insertions, c.deletions), c.insertions)
      /\ j2 = [deletions |-> j2.deletions, insertions |-> j2.insertions, modifications |-> {},
               moves |-> j2.moves]
  BY <1>3 DEF Joined
<1>5. j2.deletions \in SUBSET Nat /\ j2.insertions \in SUBSET Nat
  <2>1. erase_at(c.deletions, self.insertions) \in PositionSets
    BY <1>2, PositionSetsClosed
  <2>2. erase_at(self.insertions, c.deletions) \in PositionSets
    BY <1>2, PositionSetsClosed
  <2>3. insert_at(erase_at(c.deletions, self.insertions), self.deletions) \in PositionSets
    BY <1>2, <2>1, PositionSetsClosed
  <2>4. insert_at(erase_at(self.insertions, c.deletions), c.insertions) \in PositionSets
    BY <1>2, <2>2, PositionSetsClosed
  <2> QED
    BY <1>4, <2>3, <2>4 DEF PositionSets
<1>6. j2.moves \in Seq(MoveRec)
  BY JoinedMoves
<1>7. j2 \in ChangeRec
  BY <1>4, <1>5, <1>6 DEF ChangeRec
<1> QED
  BY <1>4, <1>7

LEMMA JoinedIsRight ==
  ASSUME NEW x \in Seq(Nat), NEW y \in Seq(Nat), NEW z \in Seq(Nat),
         NEW self, Right(self, x, y), NEW c, Right(c, y, z)
  PROVE  Right(Joined(self, c), x, z)
<1> DEFINE D == self.deletions
           I == self.insertions
           E == c.deletions
           J == c.insertions
<1>1. PICK j2 : j2 = Joined(self, c)
  OBVIOUS
<1>2. /\ j2 \in ChangeRec
      /\ j2.deletions = insert_at(erase_at(E, I), D)
      /\ j2.insertions = insert_at(erase_at(I, E), J)
  BY <1>1, JoinedType
<1>3. Turns(D, I, x, y) /\ Turns(E, J, y, z)
  BY DEF Right
<1>4. /\ D \in PositionSets /\ I \in PositionSets /\ D \in SUBSET Nat
      /\ E \in PositionSets /\ J \in PositionSets
  BY <1>3, TurnsSets
<1>5. \A p \in ToSet(j2.moves) :
        \/ \E o \in ToSet(self.moves) : o.to \notin E /\ p = carried(o, E, J)
        \/ \E m \in ToSet(c.moves) :
             /\ p.to = m.to
             /\ \/ \E o \in ToSet(self.moves) : o.to = m.from /\ p.from = o.from
                \/ m.from \notin I /\ p.from = shift(D, unshift(I, m.from))
  <2>1. \A p \in ToSet(j2.moves) : JoinedMove(p, self, c)
    BY <1>1, JoinedMoves
  <2> QED
    BY <2>1 DEF JoinedMove
<1>6. j2.moves \in Seq(MoveRec) /\ DistinctFroms(j2.moves)
  BY <1>1, JoinedMoves
<1>7. ASSUME NEW p \in ToSet(j2.moves), NEW m \in ToSet(c.moves), p.to = m.to,
             \/ \E o \in ToSet(self.moves) : o.to = m.from /\ p.from = o.from
             \/ m.from \notin I /\ p.from = shift(D, unshift(I, m.from))
      PROVE  GoodMove(p, j2.deletions, j2.insertions, x, z)
  <2>1. p \in MoveRec
    BY <1>6, MovesAre
  <2>2. m \in MoveRec /\ m.from \in E /\ m.to \in J /\ y[m.from + 1] = z[m.to + 1]
    BY DEF Right, GoodMove
  <2>3. p.to \in j2.insertions
    BY <1>2, <1>7, <2>2 DEF insert_at
  <2>4. CASE \E o \in ToSet(self.moves) : o.to = m.from /\ p.from = o.from
    <3>1. PICK o \in ToSet(self.moves) : o.to = m.from /\ p.from = o.from
      BY <2>4
    <3>2. o.from \in D /\ x[o.from + 1] = y[o.to + 1]
      BY DEF Right, GoodMove
    <3>3. p.from \in j2.deletions
      BY <1>2, <3>1, <3>2 DEF insert_at
    <3> QED
      BY <1>7, <2>1, <2>2, <2>3, <3>1, <3>2, <3>3 DEF GoodMove
  <2>5. CASE m.from \notin I /\ p.from = shift(D, unshift(I, m.from))
    <3>1. PICK k \in Nat \ I : k = m.from
      BY <2>2, <2>5 DEF MoveRec
    <3>2. k \in E /\ k < Len(y)
      <4>1. E \subseteq 0 .. Len(y) - 1 /\ Len(y) \in Nat
        BY <1>3, RowsLen DEF Turns
      <4> QED
        BY <2>2, <3>1, <4>1
    <3>3. x[shift(D, unshift(I, k)) + 1] = y[k + 1]
      <4>1. \A j \in Nat \ I : j < Len(y) => x[shift(D, unshift(I, j)) + 1] = y[j + 1]
        BY <1>3, StaysSame
      <4> QED
        BY <3>1, <3>2, <4>1
    <3>4. unshift(I, k) \in erase_at(E, I)
      BY <1>4, <3>1, <3>2, EraseInsert
    <3>5. shift(D, unshift(I, k)) \in j2.deletions
      BY <1>2, <3>4 DEF insert_at, shift_for_insert_at
    <3> QED
      BY <1>7, <2>1, <2>2, <2>3, <2>5, <3>1, <3>3, <3>5 DEF GoodMove
  <2> QED
    BY <1>7, <2>4, <2>5
<1>8. \A p \in ToSet(j2.moves) :
        \/ \E o \in ToSet(self.moves) : o.to \notin E /\ p = carried(o, E, J)
        \/ GoodMove(p, j2.deletions, j2.insertions, x, z)
  BY <1>5, <1>7
<1>9. Right(j2, x, z)
  <2> HIDE DEF D, I, E, J
  <2>1. /\ j2.deletions = insert_at(erase_at(E, self.insertions), self.deletions)
        /\ j2.insertions = insert_at(erase_at(self.insertions, E), J)
    BY <1>2 DEF D, I
  <2> QED
    BY <1>2, <1>3, <1>6, <1>8, <2>1, RightFollowed
<1> QED
  BY <1>1, <1>9

LEMMA JoinedIsTold ==
  ASSUME NEW x \in Seq(Nat), NEW y \in Seq(Nat), NEW z \in Seq(Nat), IsInjective(y), IsInjective(z),
         NEW self, NEW T1, Exact(self, x, y, T1), NEW c, NEW T2, Exact(c, y, z, T2)
  PROVE  Told(MergedModifications(self, c), Joined(self, c).insertions, Joined(self, c).moves, z,
              T1 \cup T2)
<1> DEFINE D == self.deletions
           I == self.insertions
           M == self.modifications
           E == c.deletions
           J == c.insertions
           M2 == MergedModifications(self, c)
           u == updateMoves(self.moves, c)
           Goes(m) == m \in ToSet(Fresh(u.c.moves, I)) \/ m \notin ToSet(u.c.moves)
<1>1. PICK j2 : j2 = Joined(self, c)
  OBVIOUS
<1>2. /\ Right(self, x, y) /\ Told(M, I, self.moves, y, T1)
      /\ Right(c, y, z) /\ Told(c.modifications, J, c.moves, z, T2)
  BY DEF Exact
<1>3. j2.insertions = insert_at(erase_at(I, E), J)
  BY <1>1, <1>2, JoinedType
<1>4. /\ Turns(D, I, x, y) /\ Turns(E, J, y, z) /\ E \subseteq 0 .. Len(y) - 1 /\ J \subseteq 0 .. Len(z) - 1
      /\ self.moves \in Seq(MoveRec)
  BY <1>2 DEF Right, Turns, ChangeRec
<1>5. /\ I \in PositionSets /\ E \in PositionSets /\ J \in PositionSets
  BY <1>4, TurnsSets
<1>6. \A p \in ToSet(j2.moves) :
        \/ \E o \in ToSet(self.moves) : o.to \notin E /\ p = carried(o, E, J)
        \/ \E m \in ToSet(c.moves) :
             /\ p.to = m.to
             /\ \/ \E o \in ToSet(self.moves) : o.to = m.from /\ p.from = o.from
                \/ m.from \notin I /\ p.from = shift(D, unshift(I, m.from))
             /\ Goes(m)
  <2>1. \A p \in ToSet(j2.moves) : JoinedMove(p, self, c)
    BY <1>1, <1>2, JoinedMoves
  <2> QED
    BY <2>1 DEF JoinedMove
<1>7. \A j : j \in M2 <=>
        \/ j \in shift_for_insert_at(erase_at(M, E), J) \/ j \in c.modifications
        \/ \E m \in ToSet(c.moves) : m.from \in M /\ Goes(m) /\ m.to = j
  BY DEF MergedModifications, MovedOn
<1> HIDE DEF M2, Goes
<1>8. \A m \in ToSet(c.moves) : m \in MoveRec /\ m.from \in E /\ m.to \in J /\ y[m.from + 1] = z[m.to + 1]
  BY <1>2 DEF Right, GoodMove
<1>9. \A j \in shift_for_insert_at(erase_at(M, E), J) : j \in 0 .. Len(z) - 1 /\ j \notin J
  <2>1. M \subseteq 0 .. Len(y) - 1
    BY <1>2 DEF Told
  <2> QED
    <3> HIDE DEF M, E, J
    <3> QED
      BY <1>4, <2>1, CarriedRange
<1>10. M2 \subseteq 0 .. Len(z) - 1
  <2>1. c.modifications \subseteq 0 .. Len(z) - 1
    BY <1>2 DEF Told
  <2>2. \A m \in ToSet(c.moves) : m.to \in 0 .. Len(z) - 1
    BY <1>4, <1>8
  <2>3. \A j : j \in M2 => j \in 0 .. Len(z) - 1
    BY <1>7, <1>9, <2>1, <2>2, Zenon
  <2> QED
    BY <2>3
<1>11. ASSUME NEW o \in ToSet(self.moves), o.to \notin E
       PROVE  /\ carried(o, E, J).to = shift(J, unshift(E, o.to))
              /\ carried(o, E, J).to \notin J
  <2>1. o \in MoveRec
    BY <1>4, MovesAre
  <2>2. carried(o, E, J).to = shift(J, unshift(E, o.to))
    BY <2>1 DEF carried, MoveRec
  <2>3. PICK k \in Nat : k = o.to /\ k \notin E
    BY <1>11, <2>1 DEF MoveRec
  <2>4. unshift(E, k) \in Nat
    BY <1>5, <2>3, ShiftUnshift
  <2>5. shift(J, unshift(E, k)) \notin J
    BY <1>5, <2>4, ShiftIs
  <2> QED
    BY <2>2, <2>3, <2>5
<1>12. \A p \in ToSet(j2.moves) : p.to \notin J =>
         \E o \in ToSet(self.moves) : o.to \notin E /\ p.to = shift(J, unshift(E, o.to))
  BY <1>6, <1>8, <1>11, SMTT(40)
<1>13. \A j \in 0 .. Len(z) - 1 : j \notin J =>
         (j \in M2 <=> j \in shift_for_insert_at(erase_at(M, E), J) \/ z[j + 1] \in T2)
  <2> SUFFICES ASSUME NEW j \in 0 .. Len(z) - 1, j \notin J
               PROVE  j \in M2 <=> j \in shift_for_insert_at(erase_at(M, E), J) \/ z[j + 1] \in T2
    OBVIOUS
  <2>1. j \in c.modifications <=> z[j + 1] \in T2
    BY <1>2 DEF Told
  <2>2. \A m \in ToSet(c.moves) : m.to # j
    BY <1>8
  <2>3. j \in M2 <=> j \in shift_for_insert_at(erase_at(M, E), J) \/ j \in c.modifications
    BY <1>7, <2>2, Zenon
  <2> QED
    BY <2>1, <2>3
<1>14. ASSUME NEW j \in J, NEW p \in ToSet(j2.moves), p.to = j
       PROVE  j \in M2 <=> z[j + 1] \in T1 \/ z[j + 1] \in T2
  <2>1. PICK m \in ToSet(c.moves) : /\ m.to = j /\ Goes(m)
                                    /\ m.from \notin I \/ \E o \in ToSet(self.moves) : o.to = m.from
    BY <1>6, <1>11, <1>14
  <2>2. \A l \in ToSet(c.moves) : l.to = j => l = m
    <3>1. \A k, l \in DOMAIN c.moves : c.moves[k].to = c.moves[l].to => k = l
      BY <1>2, RightMoves
    <3>2. \A l \in ToSet(c.moves) : \E k \in DOMAIN c.moves : l = c.moves[k]
      BY DEF ToSet
    <3>3. ASSUME NEW l \in ToSet(c.moves), l.to = j PROVE l = m
      <4>1. PICK k \in DOMAIN c.moves : l = c.moves[k]
        BY <3>2
      <4>2. PICK h \in DOMAIN c.moves : m = c.moves[h]
        BY <2>1, <3>2
      <4>3. c.moves[k].to = c.moves[h].to
        BY <2>1, <3>3, <4>1, <4>2
      <4> QED
        BY <3>1, <4>1, <4>2, <4>3
    <3> QED
      BY <3>3
  <2>3. j \in 0 .. Len(z) - 1 /\ m.from \in 0 .. Len(y) - 1
    BY <1>4, <1>8
  <2>4. m.from \in M <=> y[m.from + 1] \in T1
    BY <1>2, <2>1, <2>3 DEF Told
  <2>5. j \in c.modifications <=> z[j + 1] \in T2
    BY <1>2, <2>1, <2>3 DEF Told
  <2>6. j \notin shift_for_insert_at(erase_at(M, E), J)
    BY <1>9
  <2>7. j \in M2 <=> j \in c.modifications \/ m.from \in M
    BY <1>7, <2>1, <2>2, <2>6
  <2> QED
    BY <1>8, <2>1, <2>4, <2>5, <2>7
<1>15. \A j \in J : (\E p \in ToSet(j2.moves) : p.to = j) =>
         (j \in M2 <=> z[j + 1] \in T1 \/ z[j + 1] \in T2)
  BY <1>14
<1> HIDE DEF I, E, J, M
<1>16. Told(M2, insert_at(erase_at(I, E), J), j2.moves, z, T1 \cup T2)
  BY <1>2, <1>4, <1>5, <1>10, <1>12, <1>13, <1>15, ToldFollowed
<1> QED
  BY <1>1, <1>3, <1>16 DEF M2

(* No deletions and no insertions: the rows are the same.                   *)
LEMMA NothingTurns ==
  ASSUME NEW y \in Seq(Nat), NEW z \in Seq(Nat), Turns({}, {}, y, z)
  PROVE  y = z
<1>1. \A k \in Nat : shift({}, k) = k
  BY OnePosition
<1>2. \A k \in Nat : (k < Len(y) <=> k < Len(z)) /\ (k < Len(y) => y[k + 1] = z[k + 1])
  BY <1>1 DEF Turns, SameRows
<1>3. PICK n \in Nat : n = Len(y)
  BY RowsLen
<1>4. PICK l \in Nat : l = Len(z)
  BY RowsLen
<1>5. n = l
  <2>1. (n < n <=> n < l) /\ (l < n <=> l < l)
    BY <1>2, <1>3, <1>4
  <2> QED
    BY <2>1
<1>6. ASSUME NEW k \in 1 .. n PROVE y[k] = z[k]
  <2>1. k - 1 \in Nat /\ k - 1 < n /\ (k - 1) + 1 = k
    OBVIOUS
  <2> QED
    BY <1>2, <1>3, <2>1
<1> QED
  BY <1>3, <1>4, <1>5, <1>6, SameSequence

LEMMA NoMoves == ToSet(<<>>) = {} /\ DistinctFroms(<<>>)
BY DEF ToSet, DistinctFroms

(* merge: changes that are right about two stretches of transactions make   *)
(* one that is right about both, moves made of two moves included.          *)
THEOREM MergeIsExact ==
  ASSUME NEW x \in Seq(Nat), NEW y \in Seq(Nat), NEW z \in Seq(Nat),
         IsInjective(x), IsInjective(y), IsInjective(z),
         NEW self, NEW T1, Exact(self, x, y, T1), NEW c, NEW T2, Exact(c, y, z, T2)
  PROVE  Exact(merge(self, c), x, z, T1 \cup T2)
<1>1. /\ Right(self, x, y) /\ Told(self.modifications, self.insertions, self.moves, y, T1)
      /\ Right(c, y, z) /\ Told(c.modifications, c.insertions, c.moves, z, T2)
  BY DEF Exact
<1>2. Turns(self.deletions, self.insertions, x, y) /\ Turns(c.deletions, c.insertions, y, z)
  BY <1>1 DEF Right
<1>3. CASE IsEmpty(c)
  <2>1. c.deletions = {} /\ c.insertions = {} /\ c.modifications = {} /\ c.moves = <<>>
    BY <1>3 DEF IsEmpty, NoChanges
  <2>2. y = z
    BY <1>2, <2>1, NothingTurns
  <2>3. \A j \in 0 .. Len(y) - 1 : y[j + 1] \notin T2
    BY <1>1, <2>1, <2>2 DEF Told
  <2>4. Told(self.modifications, self.insertions, self.moves, y, T1 \cup T2)
    BY <1>1, <2>3 DEF Told
  <2>5. merge(self, c) = self
    BY <1>3 DEF merge
  <2> QED
    BY <1>1, <2>2, <2>4, <2>5 DEF Exact
<1>4. CASE ~IsEmpty(c) /\ IsEmpty(self)
  <2>1. self.deletions = {} /\ self.insertions = {} /\ self.modifications = {} /\ self.moves = <<>>
    BY <1>4 DEF IsEmpty, NoChanges
  <2>2. x = y
    BY <1>2, <2>1, NothingTurns
  <2>3. \A i \in 0 .. Len(y) - 1 : y[i + 1] \notin T1
    BY <1>1, <2>1 DEF Told
  <2>4. ASSUME NEW j \in 0 .. Len(z) - 1, j \notin c.insertions PROVE z[j + 1] \notin T1
    <3>1. PICK k \in Nat \ c.insertions : k = j /\ k < Len(z)
      <4>1. Len(z) \in Nat
        BY RowsLen
      <4> QED
        BY <2>4, <4>1
    <3>2. PICK i \in Nat : i < Len(y) /\ y[i + 1] = z[k + 1]
      <4>1. \A l \in Nat \ c.insertions : l < Len(z) =>
              /\ shift(c.deletions, unshift(c.insertions, l)) \in Nat \ c.deletions
              /\ shift(c.deletions, unshift(c.insertions, l)) < Len(y)
              /\ y[shift(c.deletions, unshift(c.insertions, l)) + 1] = z[l + 1]
        BY <1>2, StaysSame
      <4> QED
        BY <3>1, <4>1
    <3>3. i \in 0 .. Len(y) - 1
      <4>1. Len(y) \in Nat
        BY RowsLen
      <4> QED
        BY <3>2, <4>1
    <3> QED
      BY <2>3, <3>1, <3>2, <3>3
  <2>5. ASSUME NEW m \in ToSet(c.moves) PROVE z[m.to + 1] \notin T1
    <3>1. m.from \in c.deletions /\ y[m.from + 1] = z[m.to + 1]
      BY <1>1 DEF Right, GoodMove
    <3>2. m.from \in 0 .. Len(y) - 1
      BY <1>2, <3>1 DEF Turns
    <3> QED
      BY <2>3, <3>1, <3>2
  <2>6. Told(c.modifications, c.insertions, c.moves, z, T1 \cup T2)
    <3>1. c.modifications \subseteq 0 .. Len(z) - 1
      BY <1>1 DEF Told
    <3>2. ASSUME NEW j \in 0 .. Len(z) - 1, j \notin c.insertions \/ \E m \in ToSet(c.moves) : m.to = j
          PROVE  j \in c.modifications <=> z[j + 1] \in T1 \cup T2
      <4>1. j \in c.modifications <=> z[j + 1] \in T2
        BY <1>1, <3>2 DEF Told
      <4>2. z[j + 1] \notin T1
        BY <2>4, <2>5, <3>2
      <4> QED
        BY <4>1, <4>2
    <3> QED
      BY <3>1, <3>2 DEF Told
  <2>7. merge(self, c) = c
    BY <1>4 DEF merge
  <2> QED
    BY <1>1, <2>2, <2>6, <2>7 DEF Exact
<1>5. CASE ~IsEmpty(c) /\ ~IsEmpty(self)
  <2>1. PICK j2 : j2 = Joined(self, c)
    OBVIOUS
  <2>2. PICK M2 : M2 = MergedModifications(self, c)
    OBVIOUS
  <2>3. PICK d : d = clean_up_stale_moves(j2)
    OBVIOUS
  <2>4. merge(self, c) = [d EXCEPT !.modifications = M2]
    BY <1>5, <2>1, <2>2, <2>3, MergeIs
  <2>5. Right(j2, x, z)
    BY <1>1, <2>1, JoinedIsRight
  <2>6. Told(M2, j2.insertions, j2.moves, z, T1 \cup T2)
    BY <2>1, <2>2, JoinedIsTold
  <2>7. Right(d, x, z)
    BY <2>3, <2>5, CleanUpIsRight
  <2>8. \A M, T : Told(M, j2.insertions, j2.moves, z, T) => Told(M, d.insertions, d.moves, z, T)
    BY <2>3, <2>5, CleanUpIsRight
  <2>9. Told(M2, d.insertions, d.moves, z, T1 \cup T2)
    BY <2>6, <2>8
  <2>10. d \in ChangeRec
    BY <2>7 DEF Right
  <2>11. M2 \in SUBSET Nat
    <3>1. M2 \subseteq 0 .. Len(z) - 1 /\ Len(z) \in Nat
      BY <2>9, RowsLen DEF Told
    <3> QED
      BY <3>1
  <2>12. PICK e \in ChangeRec : e = [d EXCEPT !.modifications = M2]
    BY <2>10, <2>11 DEF ChangeRec
  <2>13. /\ e.deletions = d.deletions /\ e.insertions = d.insertions
         /\ e.modifications = M2 /\ e.moves = d.moves
    BY <2>10, <2>12 DEF ChangeRec
  <2>14. Right(e, x, z)
    BY <2>7, <2>13 DEF Right
  <2> QED
    BY <2>4, <2>9, <2>12, <2>13, <2>14 DEF Exact
<1> QED
  BY <1>3, <1>4, <1>5

-----------------------------------------------------------------------------
(* What finalize gives a callback.                                          *)
LEMMA FinalizeIs ==
  ASSUME NEW c
  PROVE  /\ finalize(c).modifications = c.modifications \ c.insertions
         /\ finalize(c).modificationsInOld
              = shift_for_insert_at(erase_at(c.modifications, c.insertions), c.deletions)
BY DEF finalize

LEMMA KeptRows ==
  ASSUME NEW y \in Seq(Nat), NEW I
  PROVE  \A v : v \in ToSet(Others(y, I)) <=> \E j \in 0 .. Len(y) - 1 : j \notin I /\ v = y[j + 1]
<1> DEFINE places == {k \in DOMAIN y : k - 1 \notin I}
<1>1. PICK n \in Nat : n = Len(y) /\ DOMAIN y = 1 .. n
  BY RowsLen
<1>2. places \in SUBSET (1 .. n)
  BY <1>1
<1>3. \A v : (\E p \in places : v = y[p]) <=> \E j \in 0 .. Len(y) - 1 : j \notin I /\ v = y[j + 1]
  <2>1. ASSUME NEW p \in places PROVE \E j \in 0 .. Len(y) - 1 : j \notin I /\ y[p] = y[j + 1]
    <3>1. p - 1 \in 0 .. Len(y) - 1 /\ p - 1 \notin I /\ (p - 1) + 1 = p
      BY <1>1
    <3> QED
      BY <3>1
  <2>2. ASSUME NEW j \in 0 .. Len(y) - 1, j \notin I PROVE j + 1 \in places
    <3>1. j + 1 \in 1 .. n /\ (j + 1) - 1 = j
      BY <1>1
    <3> QED
      BY <1>1, <2>2, <3>1
  <2> HIDE DEF places
  <2> QED
    BY <2>1, <2>2
<1> HIDE DEF places
<1>4. PICK c \in Nat : \E at \in [1 .. c -> places] : PicksAt(y, places, c, at)
  BY <1>1, <1>2, PickedOrder
<1>5. PICK at \in [1 .. c -> places] : PicksAt(y, places, c, at)
  BY <1>4
<1>6. Others(y, I) = [k \in 1 .. c |-> y[at[k]]]
  BY <1>5 DEF PicksAt, Others, places
<1>7. \A v : v \in ToSet([k \in 1 .. c |-> y[at[k]]]) <=> \E k \in 1 .. c : v = y[at[k]]
  BY DEF ToSet
<1>8. \A p \in places : \E k \in 1 .. c : at[k] = p
  BY <1>5 DEF PicksAt
<1>9. \A v : v \in ToSet(Others(y, I)) <=> \E p \in places : v = y[p]
  BY <1>6, <1>7, <1>8
<1> QED
  BY <1>3, <1>9

(* Exact changes are as the properties say.                                 *)
LEMMA ExactSays ==
  ASSUME NEW x \in Seq(Nat), NEW y \in Seq(Nat), IsInjective(x), IsInjective(y),
         NEW c, NEW T, Exact(c, x, y, T)
  PROVE  TurnsInto(c, x, y) /\ MovesOf(c, x, y) /\ ModificationsOf(c, x, y, T)
<1>1. Right(c, x, y) /\ Told(c.modifications, c.insertions, c.moves, y, T)
  BY DEF Exact
<1>2. Turns(c.deletions, c.insertions, x, y) /\ c \in ChangeRec
  BY <1>1 DEF Right
<1>3. TurnsInto(c, x, y)
  BY <1>2, TurnsIntoIs
<1>4. MovesOf(c, x, y)
  BY <1>1, RightMoves
<1> DEFINE M == c.modifications
           I == c.insertions
           D == c.deletions
           old == shift_for_insert_at(erase_at(M, I), D)
           kept == ToSet(Others(y, I))
<1>5. \A v : v \in kept <=> \E j \in 0 .. Len(y) - 1 : j \notin I /\ v = y[j + 1]
  BY KeptRows
<1>6. \A j \in 0 .. Len(y) - 1 : j \notin I => (j \in M <=> y[j + 1] \in T)
  BY <1>1 DEF Told
<1>7. \A j \in M : j \in 0 .. Len(y) - 1 /\ j \in Nat /\ j < Len(y)
  <2>1. M \subseteq 0 .. Len(y) - 1 /\ Len(y) \in Nat
    BY <1>1, RowsLen DEF Told
  <2> QED
    BY <2>1
<1>8. \A v : v \in T \cap kept <=> \E j \in M \ I : v = y[j + 1]
  BY <1>5, <1>6, <1>7
<1>9. \A j \in M \ I : x[shift(D, unshift(I, j)) + 1] = y[j + 1]
  <2>1. \A j \in Nat \ I : j < Len(y) => x[shift(D, unshift(I, j)) + 1] = y[j + 1]
    BY <1>2, StaysSame
  <2> QED
    BY <1>7, <2>1
<1>10. \A i : i \in old <=> \E j \in M \ I : i = shift(D, unshift(I, j))
  BY DEF shift_for_insert_at, erase_at
<1> HIDE DEF old, kept, M, I, D
<1>11. \A v : v \in {y[i + 1] : i \in M \ I} <=> v \in T \cap kept
  BY <1>8
<1>12. \A v : v \in {x[i + 1] : i \in old} <=> v \in T \cap kept
  BY <1>8, <1>9, <1>10
<1>13. {y[i + 1] : i \in M \ I} = T \cap kept
  BY <1>11, Zenon
<1>14. {x[i + 1] : i \in old} = T \cap kept
  BY <1>12, Zenon
<1>15. finalize(c).modifications = M \ I /\ finalize(c).modificationsInOld = old
  BY <1>2, FinalizeIs DEF M, I, D, old
<1>16. ModificationsOf(c, x, y, T)
  BY <1>13, <1>14, <1>15 DEF ModificationsOf, kept, I
<1> QED
  BY <1>3, <1>4, <1>16

-----------------------------------------------------------------------------
(* Rows that stay in their order.                                           *)
Stay(D, I, x, y) ==
  /\ D \subseteq 0 .. Len(x) - 1 /\ I \subseteq 0 .. Len(y) - 1
  /\ \A i \in Nat \ D : i < Len(x) => \E j \in Nat \ I : j < Len(y) /\ x[i + 1] = y[j + 1]
  /\ \A j \in Nat \ I : j < Len(y) => \E i \in Nat \ D : i < Len(x) /\ x[i + 1] = y[j + 1]
  /\ \A i, k \in Nat \ D, j, l \in Nat \ I :
       i < k /\ k < Len(x) /\ j < Len(y) /\ l < Len(y) /\ x[i + 1] = y[j + 1] /\ x[k + 1] = y[l + 1]
         => j < l

(* The places of the new rows that stay are numbered by the insertions, as  *)
(* those of the old ones by the deletions: there is one way to do that.     *)
LEMMA TurnsIfStay ==
  ASSUME NEW x \in Seq(Nat), NEW y \in Seq(Nat), IsInjective(y), NEW D, NEW I, Stay(D, I, x, y)
  PROVE  Turns(D, I, x, y)
<1>1. PICK n \in Nat : n = Len(x)
  BY RowsLen
<1>2. PICK l \in Nat : l = Len(y) /\ DOMAIN y = 1 .. l
  BY RowsLen
<1>3. D \in PositionSets /\ I \in PositionSets
  <2>1. D \in SUBSET Nat /\ I \in SUBSET Nat /\ (\A i \in D : i < n) /\ \A j \in I : j < l
    BY <1>1, <1>2 DEF Stay
  <2> QED
    BY <1>1, <1>2, <2>1 DEF PositionSets
<1> DEFINE At(i, j) == j < l /\ x[i + 1] = y[j + 1]
           of == [i \in Nat |-> CHOOSE j \in Nat \ I : At(i, j)]
           g == [k \in Nat |-> IF shift(D, k) < n THEN of[shift(D, k)] ELSE (shift(D, k) - n) + l]
<1>4. ASSUME NEW i \in Nat \ D, i < n PROVE of[i] \in Nat \ I /\ of[i] < l /\ x[i + 1] = y[of[i] + 1]
  <2>1. \E j \in Nat \ I : At(i, j)
    BY <1>1, <1>2, <1>4 DEF Stay
  <2>2. (CHOOSE j \in Nat \ I : At(i, j)) \in Nat \ I /\ At(i, CHOOSE j \in Nat \ I : At(i, j))
    BY <2>1, Zenon
  <2> QED
    BY <2>2
<1> HIDE DEF of
<1>5. \A k \in Nat : shift(D, k) \in Nat /\ shift(D, k) \notin D
  BY <1>3, ShiftIs
<1>6. ASSUME NEW k \in Nat, shift(D, k) < n
      PROVE  g[k] \in Nat \ I /\ g[k] < l /\ x[shift(D, k) + 1] = y[g[k] + 1]
  <2>1. g[k] = of[shift(D, k)]
    BY <1>6
  <2> QED
    BY <1>4, <1>5, <1>6, <2>1
<1>7. ASSUME NEW k \in Nat, ~(shift(D, k) < n)
      PROVE  g[k] \in Nat \ I /\ ~(g[k] < l) /\ g[k] = (shift(D, k) - n) + l
  <2>1. PICK s \in Nat : s = shift(D, k)
    BY <1>5
  <2>2. g[k] = (s - n) + l
    BY <1>7, <2>1
  <2>3. (s - n) + l \in Nat /\ ~((s - n) + l < l)
    BY <1>7, <2>1
  <2>4. \A j \in I : j < l
    BY <1>2 DEF Stay
  <2> HIDE DEF g
  <2> QED
    BY <2>1, <2>2, <2>3, <2>4
<1> HIDE DEF g
<1>8. ASSUME NEW k \in Nat, NEW h \in Nat, k < h PROVE g[k] < g[h]
  <2>1. PICK s \in Nat \ D : s = shift(D, k)
    BY <1>5
  <2>2. PICK t \in Nat \ D : t = shift(D, h)
    BY <1>5
  <2>3. s < t
    BY <1>3, <1>8, <2>1, <2>2, ShiftOrder
  <2>4. CASE t < n
    <3>1. s < n
      BY <2>3, <2>4
    <3>2. g[k] \in Nat \ I /\ g[k] < l /\ x[s + 1] = y[g[k] + 1]
      BY <1>6, <2>1, <3>1
    <3>3. g[h] \in Nat \ I /\ g[h] < l /\ x[t + 1] = y[g[h] + 1]
      BY <1>6, <2>2, <2>4
    <3> QED
      BY <1>1, <1>2, <2>3, <2>4, <3>2, <3>3 DEF Stay
  <2>5. CASE ~(t < n) /\ s < n
    <3>1. g[k] \in Nat /\ g[k] < l
      BY <1>6, <2>1, <2>5
    <3>2. g[h] \in Nat /\ ~(g[h] < l)
      BY <1>7, <2>2, <2>5
    <3> QED
      BY <3>1, <3>2
  <2>6. CASE ~(t < n) /\ ~(s < n)
    <3>1. g[k] = (s - n) + l
      BY <1>7, <2>1, <2>6
    <3>2. g[h] = (t - n) + l
      BY <1>7, <2>2, <2>6
    <3> QED
      BY <2>3, <3>1, <3>2
  <2> QED
    BY <2>4, <2>5, <2>6
<1>9. g \in [Nat -> Nat] /\ \A k \in Nat : g[k] \notin I
  <2>1. \A k \in Nat : g[k] \in Nat \ I
    BY <1>6, <1>7
  <2>2. g = [k \in Nat |-> g[k]]
    BY DEF g
  <2> QED
    BY <2>1, <2>2
<1>10. ASSUME NEW j \in Nat \ I PROVE \E k \in Nat : g[k] = j
  <2>1. CASE j < l
    <3>1. PICK i \in Nat \ D : i < n /\ x[i + 1] = y[j + 1]
      BY <1>1, <1>2, <2>1 DEF Stay
    <3>2. PICK k \in Nat : k = unshift(D, i) /\ shift(D, k) = i
      BY <1>3, ShiftUnshift
    <3>3. g[k] \in Nat \ I /\ g[k] < l /\ y[g[k] + 1] = y[j + 1]
      BY <1>6, <3>1, <3>2
    <3>4. PICK v \in Nat : v = g[k]
      BY <3>3
    <3>5. v + 1 \in DOMAIN y /\ j + 1 \in DOMAIN y /\ y[v + 1] = y[j + 1]
      BY <1>2, <2>1, <3>3, <3>4
    <3>6. v + 1 = j + 1
      BY <3>5 DEF IsInjective
    <3> QED
      BY <3>4, <3>6
  <2>2. CASE ~(j < l)
    <3>1. PICK i \in Nat : i = (j - l) + n /\ ~(i < n) /\ (i - n) + l = j
      BY <2>2
    <3>2. i \in Nat \ D
      BY <1>1, <3>1 DEF Stay
    <3>3. PICK k \in Nat : k = unshift(D, i) /\ shift(D, k) = i
      BY <1>3, <3>2, ShiftUnshift
    <3> QED
      BY <1>7, <3>1, <3>3
  <2> QED
    BY <2>1, <2>2
<1>11. \A k \in Nat : shift(I, k) = g[k]
  BY <1>3, <1>8, <1>9, <1>10, ShiftIsUnique
<1>12. SameRows(D, I, x, y)
  BY <1>1, <1>2, <1>6, <1>7, <1>11 DEF SameRows
<1> QED
  BY <1>12 DEF Turns, Stay

(* The rows K are in the same order in x and in y.                          *)
SameOrder(x, y, K) ==
  \A p, q \in 1 .. Len(x), r, s \in 1 .. Len(y) :
    p < q /\ x[p] \in K /\ x[q] \in K /\ x[p] = y[r] /\ x[q] = y[s] => r < s

LEMMA TurnsIfSameOrder ==
  ASSUME NEW x \in Seq(Nat), NEW y \in Seq(Nat), IsInjective(y),
         NEW K \in SUBSET ToSet(x), K \subseteq ToSet(y), SameOrder(x, y, K)
  PROVE  Turns({i \in 0 .. Len(x) - 1 : x[i + 1] \notin K}, {j \in 0 .. Len(y) - 1 : y[j + 1] \notin K},
               x, y)
<1> DEFINE D == {i \in 0 .. Len(x) - 1 : x[i + 1] \notin K}
           I == {j \in 0 .. Len(y) - 1 : y[j + 1] \notin K}
<1>1. PICK n \in Nat : n = Len(x) /\ DOMAIN x = 1 .. n
  BY RowsLen
<1>2. PICK l \in Nat : l = Len(y) /\ DOMAIN y = 1 .. l
  BY RowsLen
<1>3. ASSUME NEW i \in Nat, i < n PROVE i \notin D => x[i + 1] \in K
  BY <1>1, <1>3
<1>4. ASSUME NEW j \in Nat, j < l PROVE j \notin I => y[j + 1] \in K
  BY <1>2, <1>4
<1>5. ASSUME NEW v \in K PROVE \E i \in Nat \ D : i < n /\ x[i + 1] = v
  <2>1. PICK p \in 1 .. n : x[p] = v
    BY <1>1 DEF ToSet
  <2>2. p - 1 \in Nat /\ p - 1 < n /\ (p - 1) + 1 = p
    BY <2>1
  <2>3. p - 1 \notin D
    BY <2>1, <2>2
  <2> HIDE DEF D
  <2> QED
    BY <2>1, <2>2, <2>3
<1>6. ASSUME NEW v \in K PROVE \E j \in Nat \ I : j < l /\ y[j + 1] = v
  <2>1. PICK p \in 1 .. l : y[p] = v
    BY <1>2 DEF ToSet
  <2>2. p - 1 \in Nat /\ p - 1 < l /\ (p - 1) + 1 = p
    BY <2>1
  <2>3. p - 1 \notin I
    BY <2>1, <2>2
  <2> HIDE DEF I
  <2> QED
    BY <2>1, <2>2, <2>3
<1>7. D \subseteq 0 .. n - 1 /\ I \subseteq 0 .. l - 1
  BY <1>1, <1>2
<1> HIDE DEF D, I
<1>8. ASSUME NEW i \in Nat \ D, NEW k \in Nat \ D, NEW j \in Nat \ I, NEW h \in Nat \ I,
             i < k, k < n, j < l, h < l, x[i + 1] = y[j + 1], x[k + 1] = y[h + 1]
      PROVE  j < h
  <2>1. x[i + 1] \in K /\ x[k + 1] \in K
    <3>1. i < n
      BY <1>8
    <3> QED
      BY <1>3, <1>8, <3>1
  <2>2. i + 1 \in 1 .. n /\ k + 1 \in 1 .. n /\ j + 1 \in 1 .. l /\ h + 1 \in 1 .. l /\ i + 1 < k + 1
    BY <1>8
  <2>3. j + 1 < h + 1
    BY <1>1, <1>2, <1>8, <2>1, <2>2 DEF SameOrder
  <2> QED
    BY <2>3
<1>9. Stay(D, I, x, y)
  <2>1. \A i \in Nat \ D : i < n => \E j \in Nat \ I : j < l /\ x[i + 1] = y[j + 1]
    BY <1>3, <1>6
  <2>2. \A j \in Nat \ I : j < l => \E i \in Nat \ D : i < n /\ x[i + 1] = y[j + 1]
    BY <1>4, <1>5
  <2> QED
    BY <1>1, <1>2, <1>7, <1>8, <2>1, <2>2 DEF Stay
<1>10. Turns(D, I, x, y)
  BY <1>9, TurnsIfStay
<1> QED
  BY <1>10 DEF D, I

(* Rows in the order of the table.                                          *)
LEMMA TableOrder ==
  ASSUME NEW x \in Seq(Nat), InTableOrder(x)
  PROVE  \A p, q \in 1 .. Len(x) : p < q => x[p] < x[q]
<1>1. PICK n \in Nat : n = Len(x) /\ \A k \in 1 .. n : x[k] \in Nat
  BY RowsLen
<1>2. ASSUME NEW p \in 1 .. n PROVE \A q \in 1 .. n : p < q => x[p] < x[q]
  <2> DEFINE Bad == {q \in 1 .. n : p < q /\ ~(x[p] < x[q])}
  <2> SUFFICES ASSUME Bad # {} PROVE FALSE
    OBVIOUS
  <2>1. PICK q \in Bad : \A k \in Bad : q <= k
    <3>1. Bad \in SUBSET Nat
      OBVIOUS
    <3> HIDE DEF Bad
    <3> QED
      BY <3>1, LeastOne
  <2>2. PICK h \in 1 .. n - 1 : h = q - 1 /\ h + 1 = q /\ ~(q <= h)
    BY <2>1
  <2>3. h \in 1 .. n /\ x[h] < x[q]
    BY <1>1, <2>2 DEF InTableOrder
  <2>4. h \notin Bad
    BY <2>1, <2>2
  <2>5. p = h \/ p < h
    BY <2>1, <2>2
  <2>6. x[p] \in Nat /\ x[h] \in Nat /\ x[q] \in Nat /\ ~(x[p] < x[q])
    BY <1>1, <2>1, <2>3
  <2>7. x[p] = x[h] \/ x[p] < x[h]
    BY <2>3, <2>4, <2>5
  <2>8. PICK u, v, t \in Nat : u = x[p] /\ v = x[h] /\ t = x[q]
    BY <2>6
  <2>9. (u = v \/ u < v) /\ v < t /\ ~(u < t)
    BY <2>3, <2>6, <2>7, <2>8
  <2> QED
    BY <2>9
<1> QED
  BY <1>1, <1>2

LEMMA SameTableOrder ==
  ASSUME NEW x \in Seq(Nat), NEW y \in Seq(Nat), InTableOrder(x), InTableOrder(y), NEW K
  PROVE  SameOrder(x, y, K)
<1>1. PICK n \in Nat : n = Len(x) /\ \A k \in 1 .. n : x[k] \in Nat
  BY RowsLen
<1>2. PICK l \in Nat : l = Len(y) /\ \A k \in 1 .. l : y[k] \in Nat
  BY RowsLen
<1>3. \A p, q \in 1 .. n : p < q => x[p] < x[q]
  BY <1>1, TableOrder
<1>4. \A r, s \in 1 .. l : s < r => y[s] < y[r]
  BY <1>2, TableOrder
<1> SUFFICES ASSUME NEW p \in 1 .. n, NEW q \in 1 .. n, NEW r \in 1 .. l, NEW s \in 1 .. l,
                    p < q, x[p] = y[r], x[q] = y[s]
             PROVE  r < s
  BY <1>1, <1>2 DEF SameOrder
<1>5. x[p] \in Nat /\ x[q] \in Nat /\ x[p] < x[q]
  BY <1>1, <1>3
<1>6. ~(s < r)
  <2>1. s < r => y[s] < y[r]
    BY <1>4
  <2> QED
    BY <1>5, <2>1
<1>7. s # r
  BY <1>5
<1> QED
  BY <1>6, <1>7

(* Of the rows that both runs have, in the order of one of them.            *)
RowsIn(x, C) == Picked(x, {k \in DOMAIN x : x[k] \in C})

LEMMA PickedRows ==
  ASSUME NEW x \in Seq(Nat), IsInjective(x), NEW C, NEW a, a = RowsIn(x, C)
  PROVE  /\ a \in Seq(Nat) /\ IsInjective(a)
         /\ \A v : v \in ToSet(a) <=> v \in C /\ v \in ToSet(x)
         /\ \A K \in SUBSET C : SameOrder(x, a, K) /\ SameOrder(a, x, K)
<1> DEFINE places == {k \in DOMAIN x : x[k] \in C}
<1>1. PICK n \in Nat : n = Len(x) /\ DOMAIN x = 1 .. n /\ \A k \in 1 .. n : x[k] \in Nat
  BY RowsLen
<1>2. places \in SUBSET (1 .. n) /\ \A p \in 1 .. n : p \in places <=> x[p] \in C
  BY <1>1
<1> HIDE DEF places
<1>3. PICK c \in Nat : \E at \in [1 .. c -> places] : PicksAt(x, places, c, at)
  BY <1>1, <1>2, PickedOrder
<1>4. PICK at \in [1 .. c -> places] : PicksAt(x, places, c, at)
  BY <1>3
<1>5. /\ a = [k \in 1 .. c |-> x[at[k]]]
      /\ \A k, l \in 1 .. c : k < l => at[k] < at[l]
      /\ \A p \in places : \E k \in 1 .. c : at[k] = p
  BY <1>4 DEF PicksAt, places, RowsIn
<1>6. \A k \in 1 .. c : at[k] \in 1 .. n /\ at[k] \in places
  BY <1>2
<1>7. a \in Seq(Nat)
  BY <1>1, <1>5, <1>6
<1>8. DOMAIN a = 1 .. c /\ Len(a) = c /\ \A k \in 1 .. c : a[k] = x[at[k]]
  <2>1. PICK row \in [1 .. c -> Nat] : \A k \in 1 .. c : row[k] = x[at[k]]
    <3>1. [k \in 1 .. c |-> x[at[k]]] \in [1 .. c -> Nat]
      BY <1>1, <1>6
    <3> QED
      BY <3>1
  <2>2. a = [k \in 1 .. c |-> row[k]]
    BY <1>5, <2>1
  <2>3. DOMAIN a = 1 .. c /\ \A k \in 1 .. c : a[k] = row[k]
    BY <2>2
  <2>4. Len(a) = c
    BY <2>2
  <2> QED
    BY <2>1, <2>3, <2>4
<1>9. \A k, l \in 1 .. c : at[k] = at[l] => k = l
  <2> SUFFICES ASSUME NEW k \in 1 .. c, NEW l \in 1 .. c, at[k] = at[l] PROVE k = l
    OBVIOUS
  <2>1. ~(k < l) /\ ~(l < k)
    BY <1>5, <1>6
  <2> QED
    BY <2>1
<1>10. \A p, q \in 1 .. n : x[p] = x[q] => p = q
  BY <1>1 DEF IsInjective
<1>11. IsInjective(a)
  <2>1. ASSUME NEW k \in 1 .. c, NEW l \in 1 .. c, a[k] = a[l] PROVE k = l
    <3>1. x[at[k]] = x[at[l]] /\ at[k] \in 1 .. n /\ at[l] \in 1 .. n
      BY <1>6, <1>8, <2>1, Zenon
    <3>2. at[k] = at[l]
      BY <1>10, <3>1
    <3> QED
      BY <1>9, <3>2
  <2> QED
    BY <1>8, <2>1 DEF IsInjective
<1>12. \A v : v \in ToSet(a) <=> v \in C /\ v \in ToSet(x)
  <2>1. \A v : v \in ToSet(a) <=> \E k \in 1 .. c : v = x[at[k]]
    <3>1. \A v : v \in ToSet(a) <=> \E k \in 1 .. c : v = a[k]
      BY <1>8, Zenon DEF ToSet
    <3>2. ASSUME NEW v, NEW k \in 1 .. c PROVE v = a[k] <=> v = x[at[k]]
      BY <1>8
    <3>3. \A v : (\E k \in 1 .. c : v = a[k]) <=> \E k \in 1 .. c : v = x[at[k]]
      BY <3>2, Zenon
    <3> DEFINE P(v) == \E k \in 1 .. c : v = a[k]
               Q(v) == \E k \in 1 .. c : v = x[at[k]]
    <3>4. \A v : (v \in ToSet(a) <=> P(v)) /\ (P(v) <=> Q(v))
      BY <3>1, <3>3
    <3> HIDE DEF P
    <3>5. \A v : v \in ToSet(a) <=> Q(v)
      BY <3>4
    <3> QED
      BY <3>5
  <2>2. \A v : v \in ToSet(x) <=> \E p \in 1 .. n : v = x[p]
    BY <1>1 DEF ToSet
  <2>3. ASSUME NEW v, v \in C, v \in ToSet(x) PROVE v \in ToSet(a)
    <3>1. PICK p \in 1 .. n : v = x[p]
      BY <2>2, <2>3
    <3>2. PICK k \in 1 .. c : at[k] = p
      BY <1>2, <1>5, <2>3, <3>1
    <3> QED
      BY <2>1, <3>1, <3>2
  <2>4. ASSUME NEW v \in ToSet(a) PROVE v \in C /\ v \in ToSet(x)
    <3>1. PICK k \in 1 .. c : v = x[at[k]]
      BY <2>1
    <3> QED
      BY <1>2, <1>6, <2>2, <3>1
  <2> QED
    BY <2>3, <2>4
<1>13. ASSUME NEW p \in 1 .. n, NEW k \in 1 .. c, x[p] = a[k] PROVE at[k] = p
  <2>1. at[k] \in 1 .. n /\ x[p] = x[at[k]]
    BY <1>6, <1>8, <1>13
  <2> QED
    BY <1>10, <2>1
<1>14. ASSUME NEW K \in SUBSET C PROVE SameOrder(x, a, K)
  <2> SUFFICES ASSUME NEW p \in 1 .. n, NEW q \in 1 .. n, NEW r \in 1 .. c, NEW s \in 1 .. c,
                      p < q, x[p] = a[r], x[q] = a[s]
               PROVE  r < s
    BY <1>1, <1>8 DEF SameOrder
  <2>1. at[r] = p /\ at[s] = q
    BY <1>13
  <2>2. ~(s < r) /\ r # s
    BY <1>5, <2>1
  <2> QED
    BY <2>2
<1>15. ASSUME NEW K \in SUBSET C PROVE SameOrder(a, x, K)
  <2> SUFFICES ASSUME NEW p \in 1 .. n, NEW q \in 1 .. n, NEW r \in 1 .. c, NEW s \in 1 .. c,
                      r < s, x[p] = a[r], x[q] = a[s]
               PROVE  p < q
    BY <1>1, <1>8 DEF SameOrder
  <2>1. at[r] = p /\ at[s] = q
    BY <1>13
  <2> QED
    BY <1>5, <2>1
<1> QED
  BY <1>7, <1>11, <1>12, <1>14, <1>15

LEMMA SameOrderCompose ==
  ASSUME NEW x \in Seq(Nat), NEW y \in Seq(Nat), NEW z \in Seq(Nat), NEW K \in SUBSET ToSet(y),
         SameOrder(x, y, K), SameOrder(y, z, K)
  PROVE  SameOrder(x, z, K)
<1>1. DOMAIN y = 1 .. Len(y) /\ \A v \in K : \E k \in 1 .. Len(y) : v = y[k]
  BY RowsLen DEF ToSet
<1> SUFFICES ASSUME NEW p \in 1 .. Len(x), NEW q \in 1 .. Len(x), NEW r \in 1 .. Len(z), NEW s \in 1 .. Len(z),
                    p < q, x[p] \in K, x[q] \in K, x[p] = z[r], x[q] = z[s]
             PROVE  r < s
  BY DEF SameOrder
<1>2. PICK k \in 1 .. Len(y) : x[p] = y[k]
  BY <1>1
<1>3. PICK h \in 1 .. Len(y) : x[q] = y[h]
  BY <1>1
<1>4. k < h
  BY <1>2, <1>3 DEF SameOrder
<1> QED
  BY <1>2, <1>3, <1>4 DEF SameOrder

(* The same rows, each once, are as many.                                   *)
LEMMA RowsCount ==
  ASSUME NEW x \in Seq(Nat), IsInjective(x)
  PROVE  Cardinality(ToSet(x)) = Len(x)
<1>1. PICK n \in Nat : n = Len(x) /\ DOMAIN x = 1 .. n
  BY RowsLen
<1>2. x \in Bijection(1 .. n, ToSet(x))
  <2>1. x = [k \in 1 .. n |-> x[k]] /\ \A k \in 1 .. n : x[k] \in ToSet(x)
    BY <1>1 DEF ToSet
  <2>2. x \in [1 .. n -> ToSet(x)]
    BY <2>1
  <2>3. \A v \in ToSet(x) : \E k \in 1 .. n : x[k] = v
    BY <1>1 DEF ToSet
  <2> QED
    BY <1>1, <2>2, <2>3 DEF Bijection, Injection, Surjection, IsInjective
<1>3. IsFiniteSet(1 .. n) /\ Cardinality(1 .. n) = n
  BY FS_Interval
<1>4. ExistsBijection(1 .. n, ToSet(x))
  BY <1>2 DEF ExistsBijection
<1>5. Cardinality(ToSet(x)) = Cardinality(1 .. n)
  BY <1>3, <1>4, FS_Bijection
<1> QED
  BY <1>1, <1>3, <1>5

-----------------------------------------------------------------------------
(* The longest match.  Its rows, and those of the run that ends at the row  *)
(* before i, are the same in a and in b, and are inside the window w.       *)
GoodMatch(a, b, m, w, i) ==
  m.size > 0 =>
    /\ w.begin1 <= m.i /\ m.i + m.size <= i
    /\ w.begin2 <= m.j /\ m.j + m.size <= w.end2
    /\ \A k \in Nat : k < m.size => a[(m.i + k) + 1] = b[(m.j + k) + 1]

GoodRun(a, b, run, w, i) ==
  run.len > 0 =>
    /\ w.begin1 + run.len <= i
    /\ w.begin2 + run.len <= run.j + 1 /\ run.j < w.end2
    /\ \A k \in Nat : k < run.len => a[i - k] = b[(run.j + 1) - k]

Counts(mods) == {-1, 0} \cup {countFrom(mods, from, to) : from \in Int, to \in Int}
RunRec == [j : Nat, len : Nat]
MatchRec(mods) == [i : Int, j : Int, size : Nat, modified : Counts(mods)]
AccRec(mods) == [prev : RunRec, best : MatchRec(mods)]
WindowRec == [begin1 : Nat, end1 : Nat, begin2 : Nat, end2 : Nat]

(* What a row makes of the best match so far: leaves its places, or takes   *)
(* those of the run that ends at the row.                                   *)
Looked(acc2, acc, w, i, j, size) ==
  IF j < w.begin2 \/ j >= w.end2
  THEN acc2.prev = [j |-> 0, len |-> 0] /\ acc2.best = acc.best
  ELSE /\ acc2.prev = [j |-> j, len |-> size]
       /\ \/ acc2.best.i = acc.best.i /\ acc2.best.j = acc.best.j /\ acc2.best.size = acc.best.size
          \/ acc2.best.i = (i - size) + 1 /\ acc2.best.j = (j - size) + 1 /\ acc2.best.size = size

LEMMA LookedIs ==
  ASSUME NEW a, NEW b, NEW mods, NEW w \in WindowRec, NEW acc \in AccRec(mods), NEW i \in Nat,
         NEW j \in Nat, j = placeIn(b, a[i + 1]),
         NEW size \in Nat, size = IF acc.prev.j + 1 = j /\ acc.prev.len > 0 THEN acc.prev.len + 1 ELSE 1
  PROVE  /\ longest_so_far(a, b, mods, w, acc, i) \in AccRec(mods)
         /\ Looked(longest_so_far(a, b, mods, w, acc, i), acc, w, i, j, size)
<1> DEFINE V == Counts(mods)
           mCount(from, to) == IF from < 0 THEN 0 ELSE countFrom(mods, from, to)
           best == acc.best
           match == [i |-> (i - size) + 1, j |-> (j - size) + 1, size |-> size, modified |-> -1]
           bestModified == IF best.modified = -1 THEN mCount((best.j - size) + 1, best.j + 1)
                           ELSE best.modified
           modified == mCount((j - size) + 1, j + 1)
           acc2 == longest_so_far(a, b, mods, w, acc, i)
<1>1. \A from, to \in Int : mCount(from, to) \in V
  BY DEF Counts
<1>2. -1 \in V
  BY DEF Counts
<1>3. acc = [prev |-> acc.prev, best |-> best] /\ best \in MatchRec(mods) /\ acc.prev \in RunRec
  BY DEF AccRec
<1>4. best.i \in Int /\ best.j \in Int /\ best.size \in Nat /\ best.modified \in V
  BY <1>3 DEF MatchRec
<1>5. bestModified \in V /\ modified \in V
  <2>1. (best.j - size) + 1 \in Int /\ best.j + 1 \in Int /\ (j - size) + 1 \in Int /\ j + 1 \in Int
    BY <1>4
  <2> HIDE DEF mCount, V
  <2> QED
    BY <1>1, <1>4, <2>1
<1>6. acc2 =
        IF j < w.begin2 \/ j >= w.end2 THEN [acc EXCEPT !.prev = [j |-> 0, len |-> 0]]
        ELSE [prev |-> [j |-> j, len |-> size],
              best |-> IF size > best.size THEN match
                       ELSE IF size < best.size THEN best
                       ELSE IF modified < bestModified THEN [match EXCEPT !.modified = modified]
                       ELSE [best EXCEPT !.modified = bestModified]]
  BY DEF longest_so_far
<1> HIDE DEF acc2, modified, bestModified, mCount, V
<1>7. CASE j < w.begin2 \/ j >= w.end2
  <2>1. acc2 = [prev |-> [j |-> 0, len |-> 0], best |-> best]
    BY <1>3, <1>6, <1>7
  <2>2. [j |-> 0, len |-> 0] \in RunRec
    BY DEF RunRec
  <2> HIDE DEF best
  <2> QED
    BY <1>3, <1>7, <2>1, <2>2 DEF AccRec, Looked, acc2, best
<1>8. CASE ~(j < w.begin2 \/ j >= w.end2)
  <2>1. match \in MatchRec(mods) /\ match.i = (i - size) + 1 /\ match.j = (j - size) + 1 /\ match.size = size
    BY <1>2 DEF MatchRec, V
  <2>2. /\ [match EXCEPT !.modified = modified] \in MatchRec(mods)
        /\ [match EXCEPT !.modified = modified].i = (i - size) + 1
        /\ [match EXCEPT !.modified = modified].j = (j - size) + 1
        /\ [match EXCEPT !.modified = modified].size = size
    BY <1>5 DEF MatchRec, V
  <2>3. /\ [best EXCEPT !.modified = bestModified] \in MatchRec(mods)
        /\ [best EXCEPT !.modified = bestModified].i = best.i
        /\ [best EXCEPT !.modified = bestModified].j = best.j
        /\ [best EXCEPT !.modified = bestModified].size = best.size
    <3> HIDE DEF best
    <3> QED
      BY <1>3, <1>5 DEF MatchRec, V
  <2> DEFINE r == IF size > best.size THEN match
                  ELSE IF size < best.size THEN best
                  ELSE IF modified < bestModified THEN [match EXCEPT !.modified = modified]
                  ELSE [best EXCEPT !.modified = bestModified]
  <2>4. acc2 = [prev |-> [j |-> j, len |-> size], best |-> r]
    BY <1>6, <1>8
  <2>5. /\ r \in MatchRec(mods)
        /\ \/ r.i = best.i /\ r.j = best.j /\ r.size = best.size
           \/ r.i = (i - size) + 1 /\ r.j = (j - size) + 1 /\ r.size = size
    <3> HIDE DEF match, best
    <3> QED
      BY <1>3, <2>1, <2>2, <2>3
  <2>6. [j |-> j, len |-> size] \in RunRec
    BY DEF RunRec
  <2> HIDE DEF r
  <2> QED
    BY <1>8, <2>4, <2>5, <2>6 DEF AccRec, Looked, acc2
<1> QED
  BY <1>7, <1>8 DEF acc2

LEMMA GoodStep ==
  ASSUME NEW a, NEW b, NEW w \in WindowRec, NEW i \in Nat, NEW mods, NEW acc \in AccRec(mods),
         NEW acc2 \in AccRec(mods), NEW j \in Nat, b[j + 1] = a[i + 1],
         NEW size \in Nat, size = IF acc.prev.j + 1 = j /\ acc.prev.len > 0 THEN acc.prev.len + 1 ELSE 1,
         Looked(acc2, acc, w, i, j, size), w.begin1 <= i,
         GoodRun(a, b, acc.prev, w, i), GoodMatch(a, b, acc.best, w, i)
  PROVE  GoodRun(a, b, acc2.prev, w, i + 1) /\ GoodMatch(a, b, acc2.best, w, i + 1)
<1>1. /\ w.begin1 \in Nat /\ w.begin2 \in Nat /\ w.end2 \in Nat
      /\ acc.prev.j \in Nat /\ acc.prev.len \in Nat
      /\ acc.best.i \in Int /\ acc.best.j \in Int /\ acc.best.size \in Nat
  BY DEF WindowRec, AccRec, RunRec, MatchRec
<1>2. ASSUME NEW m, m.i = acc.best.i, m.j = acc.best.j, m.size = acc.best.size
      PROVE  GoodMatch(a, b, m, w, i + 1)
  BY <1>1, <1>2 DEF GoodMatch
<1>3. CASE j < w.begin2 \/ j >= w.end2
  <2>1. acc2.prev = [j |-> 0, len |-> 0] /\ acc2.best = acc.best
    BY <1>3 DEF Looked
  <2> QED
    BY <1>2, <2>1 DEF GoodRun
<1>4. CASE ~(j < w.begin2 \/ j >= w.end2)
  <2>1. /\ acc2.prev = [j |-> j, len |-> size]
        /\ \/ acc2.best.i = acc.best.i /\ acc2.best.j = acc.best.j /\ acc2.best.size = acc.best.size
           \/ acc2.best.i = (i - size) + 1 /\ acc2.best.j = (j - size) + 1 /\ acc2.best.size = size
    BY <1>4 DEF Looked
  <2>2. /\ size > 0
        /\ w.begin1 + size <= i + 1
        /\ w.begin2 + size <= j + 1 /\ j < w.end2
    <3>1. CASE acc.prev.j + 1 = j /\ acc.prev.len > 0
      BY <1>1, <1>4, <3>1 DEF GoodRun
    <3>2. CASE ~(acc.prev.j + 1 = j /\ acc.prev.len > 0)
      BY <1>1, <1>4, <3>2
    <3> QED
      BY <3>1, <3>2
  <2>3. ASSUME NEW k \in Nat, k < size PROVE a[(i + 1) - k] = b[(j + 1) - k]
    <3>1. CASE k = 0
      BY <3>1
    <3>2. CASE k # 0
      <4>1. PICK h \in Nat : h = k - 1 /\ (i + 1) - k = i - h /\ (j + 1) - k = j - h
        BY <3>2
      <4>2. acc.prev.j + 1 = j /\ acc.prev.len > 0 /\ h < acc.prev.len
        BY <1>1, <2>3, <3>2, <4>1
      <4>3. a[i - h] = b[(acc.prev.j + 1) - h]
        BY <4>1, <4>2 DEF GoodRun
      <4> QED
        BY <4>1, <4>2, <4>3
    <3> QED
      BY <3>1, <3>2
  <2>4. GoodRun(a, b, acc2.prev, w, i + 1)
    BY <2>1, <2>2, <2>3 DEF GoodRun
  <2>5. ASSUME NEW m, m.i = (i - size) + 1, m.j = (j - size) + 1, m.size = size
        PROVE  GoodMatch(a, b, m, w, i + 1)
    <3>1. ASSUME NEW k \in Nat, k < size PROVE a[(m.i + k) + 1] = b[(m.j + k) + 1]
      <4>1. PICK h \in Nat : /\ h < size /\ h = (size - 1) - k
                             /\ (i + 1) - h = (((i - size) + 1) + k) + 1
                             /\ (j + 1) - h = (((j - size) + 1) + k) + 1
        BY <3>1
      <4> QED
        BY <2>3, <2>5, <4>1
    <3>2. w.begin1 <= (i - size) + 1 /\ ((i - size) + 1) + size <= i + 1
      BY <1>1, <2>2
    <3>3. w.begin2 <= (j - size) + 1 /\ ((j - size) + 1) + size <= w.end2
      BY <1>1, <2>2
    <3> QED
      BY <2>5, <3>1, <3>2, <3>3 DEF GoodMatch
  <2> QED
    BY <1>2, <2>1, <2>4, <2>5
<1> QED
  BY <1>3, <1>4

(* find_longest_match, row by row.                                          *)
Longest(best, acc, n, a, b, mods, w) ==
  /\ acc[0] = [prev |-> [j |-> 0, len |-> 0],
               best |-> [i |-> w.begin1, j |-> w.begin2, size |-> 0, modified |-> 0]]
  /\ \A k \in 1 .. n : acc[k] = longest_so_far(a, b, mods, w, acc[k - 1], (w.begin1 + k) - 1)
  /\ best = acc[n].best

(* The rows of a are those of b.                                            *)
Permuted(a, b) ==
  /\ a \in Seq(Nat) /\ b \in Seq(Nat) /\ Len(a) = Len(b)
  /\ IsInjective(a) /\ IsInjective(b) /\ ToSet(a) = ToSet(b)

LEMMA PlaceIs ==
  ASSUME NEW a, NEW b, Permuted(a, b), NEW i \in Nat, i < Len(a)
  PROVE  /\ placeIn(b, a[i + 1]) \in Nat /\ placeIn(b, a[i + 1]) < Len(b)
         /\ b[placeIn(b, a[i + 1]) + 1] = a[i + 1]
<1>1. PICK n \in Nat : n = Len(a) /\ n = Len(b) /\ DOMAIN a = 1 .. n /\ DOMAIN b = 1 .. n
  BY RowsLen DEF Permuted
<1>2. a[i + 1] \in ToSet(a)
  <2>1. i + 1 \in 1 .. n
    BY <1>1
  <2> QED
    BY <1>1, <2>1 DEF ToSet
<1>3. PICK p \in 1 .. n : b[p] = a[i + 1]
  BY <1>1, <1>2 DEF Permuted, ToSet
<1>4. p - 1 \in 0 .. Len(b) - 1 /\ b[(p - 1) + 1] = a[i + 1]
  BY <1>1, <1>3
<1>5. \E j \in 0 .. Len(b) - 1 : b[j + 1] = a[i + 1]
  BY <1>4
<1>6. placeIn(b, a[i + 1]) \in 0 .. Len(b) - 1 /\ b[placeIn(b, a[i + 1]) + 1] = a[i + 1]
  BY <1>5, Zenon DEF placeIn
<1> QED
  BY <1>1, <1>6

LEMMA LongestSteps ==
  ASSUME NEW a, NEW b, Permuted(a, b), NEW mods, NEW w \in WindowRec, w.end1 <= Len(a),
         NEW n \in Nat, n = IF w.begin1 <= w.end1 THEN w.end1 - w.begin1 ELSE 0
  PROVE  \E acc \in [0 .. n -> AccRec(mods)] :
           Longest(find_longest_match(a, b, mods, w), acc, n, a, b, mods, w)
<1> DEFINE base == [prev |-> [j |-> 0, len |-> 0],
                    best |-> [i |-> w.begin1, j |-> w.begin2, size |-> 0, modified |-> 0]]
           T == AccRec(mods)
           next(acc, k) == longest_so_far(a, b, mods, w, acc, (w.begin1 + k) - 1)
           step == [q \in T \X (1 .. n) |-> next(q[1], q[2])]
<1>1. PICK seq : seq = [k \in 1 .. w.end1 - w.begin1 |-> w.begin1 + k - 1]
  OBVIOUS
<1>2. w.begin1 \in Nat /\ w.begin2 \in Nat /\ w.end1 \in Nat
  BY DEF WindowRec
<1>3. DOMAIN seq = 1 .. n /\ \A k \in 1 .. n : seq[k] = (w.begin1 + k) - 1
  <2>1. \A k \in Int : k \in 1 .. w.end1 - w.begin1 <=> k \in 1 .. n
    BY <1>2
  <2>2. 1 .. w.end1 - w.begin1 = 1 .. n
    <3>1. 1 .. w.end1 - w.begin1 \subseteq Int /\ 1 .. n \subseteq Int
      BY <1>2
    <3> QED
      BY <2>1, <3>1, Zenon
  <2> QED
    BY <1>1, <1>2, <2>2
<1>4. \A k \in 1 .. n : (w.begin1 + k) - 1 \in Nat /\ (w.begin1 + k) - 1 < w.end1
  BY <1>2
<1>5. base \in T
  <2>1. 0 \in Counts(mods)
    BY DEF Counts
  <2> QED
    BY <1>2, <2>1 DEF AccRec, RunRec, MatchRec
<1>6. ASSUME NEW acc \in T, NEW k \in 1 .. n PROVE next(acc, k) \in T
  <2>1. PICK i \in Nat : i = (w.begin1 + k) - 1 /\ i < w.end1
    BY <1>4
  <2>2. Len(a) \in Nat
    BY RowsLen DEF Permuted
  <2>3. i < Len(a)
    BY <1>2, <2>1, <2>2
  <2>4. PICK j \in Nat : j = placeIn(b, a[i + 1])
    BY <2>3, PlaceIs
  <2>5. PICK size \in Nat : size = IF acc.prev.j + 1 = j /\ acc.prev.len > 0 THEN acc.prev.len + 1 ELSE 1
    <3>1. acc.prev.len \in Nat
      BY DEF AccRec, RunRec
    <3> QED
      BY <3>1
  <2>6. longest_so_far(a, b, mods, w, acc, i) \in T
    BY <2>4, <2>5, LookedIs
  <2> QED
    BY <2>1, <2>6
<1> HIDE DEF T, base, next
<1>7. step \in [T \X (1 .. n) -> T]
  <2>1. \A q \in T \X (1 .. n) : next(q[1], q[2]) \in T
    BY <1>6
  <2> QED
    BY <2>1
<1>8. \A acc \in T, k \in 1 .. n : step[<<acc, k>>] = next(acc, k)
  OBVIOUS
<1> HIDE DEF step
<1> DEFINE F == CHOOSE g : g = [s \in SUBSET (1 .. n) |->
                  IF s = {} THEN base
                  ELSE longest_so_far(a, b, mods, w, g[s \ {Max(s)}], seq[Max(s)])]
<1>9. PICK iter \in [SUBSET (1 .. n) -> T] : IsFold(iter, n, base, step)
  BY <1>5, <1>7, FoldExists
<1>10. \A s \in SUBSET (1 .. n) : s # {} => Max(s) \in 1 .. n /\ s \ {Max(s)} \in SUBSET (1 .. n)
  BY MaxIs
<1>11. \A acc, k : k \in 1 .. n => next(acc, k) = longest_so_far(a, b, mods, w, acc, seq[k])
  BY <1>3 DEF next
<1>12. \A s \in SUBSET (1 .. n) :
         iter[s] = IF s = {} THEN base
                   ELSE longest_so_far(a, b, mods, w, iter[s \ {Max(s)}], seq[Max(s)])
  <2> SUFFICES ASSUME NEW s \in SUBSET (1 .. n)
               PROVE  iter[s] = IF s = {} THEN base
                                ELSE longest_so_far(a, b, mods, w, iter[s \ {Max(s)}], seq[Max(s)])
    OBVIOUS
  <2>1. iter[s] = IF s = {} THEN base ELSE step[<<iter[s \ {Max(s)}], Max(s)>>]
    BY <1>9 DEF IsFold
  <2>2. CASE s = {}
    BY <2>1, <2>2
  <2>3. CASE s # {}
    <3>1. PICK k \in 1 .. n : k = Max(s) /\ s \ {k} \in SUBSET (1 .. n)
      BY <1>10, <2>3
    <3>2. iter[s \ {k}] \in T
      BY <1>9, <3>1
    <3>3. iter[s] = step[<<iter[s \ {k}], k>>]
      BY <2>1, <2>3, <3>1
    <3>4. iter[s] = longest_so_far(a, b, mods, w, iter[s \ {k}], seq[k])
      BY <1>8, <1>11, <3>2, <3>3
    <3> QED
      BY <2>3, <3>1, <3>4
  <2> QED
    BY <2>2, <2>3
<1>13. iter = [s \in SUBSET (1 .. n) |->
                 IF s = {} THEN base
                 ELSE longest_so_far(a, b, mods, w, iter[s \ {Max(s)}], seq[Max(s)])]
  BY <1>12
<1>14. F = [s \in SUBSET (1 .. n) |->
              IF s = {} THEN base
              ELSE longest_so_far(a, b, mods, w, F[s \ {Max(s)}], seq[Max(s)])]
  BY <1>13, Zenon
<1>15. find_longest_match(a, b, mods, w) = F[1 .. n].best
  <2>1. find_longest_match(a, b, mods, w) =
          FoldLeft(LAMBDA acc, i : longest_so_far(a, b, mods, w, acc, i), base, seq).best
    BY <1>1, Zenon DEF find_longest_match, base
  <2> QED
    BY <1>3, <2>1 DEF FoldLeft, MapThenFoldSet
<1> HIDE DEF F
<1>16. F[{}] = base
  BY <1>14
<1>17. \A s \in SUBSET (1 .. n) : s # {} /\ F[s \ {Max(s)}] \in T =>
         F[s] = step[<<F[s \ {Max(s)}], Max(s)>>]
  <2> SUFFICES ASSUME NEW s \in SUBSET (1 .. n), s # {}, F[s \ {Max(s)}] \in T
               PROVE  F[s] = step[<<F[s \ {Max(s)}], Max(s)>>]
    OBVIOUS
  <2>1. PICK k \in 1 .. n : k = Max(s)
    BY <1>10
  <2>2. F[s] = IF s = {} THEN base
               ELSE longest_so_far(a, b, mods, w, F[s \ {Max(s)}], seq[Max(s)])
    BY <1>14
  <2>3. F[s] = longest_so_far(a, b, mods, w, F[s \ {k}], seq[k])
    BY <2>1, <2>2
  <2>4. step[<<F[s \ {k}], k>>] = longest_so_far(a, b, mods, w, F[s \ {k}], seq[k])
    BY <1>8, <1>11, <2>1
  <2> QED
    BY <2>1, <2>3, <2>4
<1>18. PICK acc \in [0 .. n -> T] : StepsTo(acc, n, base, step, F[1 .. n])
  BY <1>5, <1>7, <1>16, <1>17, FoldSteps
<1>19. /\ acc[0] = base
       /\ \A k \in 1 .. n : acc[k] = step[<<acc[k - 1], k>>]
       /\ F[1 .. n] = acc[n]
  BY <1>18 DEF StepsTo
<1>20. \A k \in 1 .. n : acc[k] = next(acc[k - 1], k)
  <2>1. \A k \in 1 .. n : acc[k - 1] \in T
    OBVIOUS
  <2> QED
    BY <1>8, <1>19, <2>1
<1>21. Longest(find_longest_match(a, b, mods, w), acc, n, a, b, mods, w)
  BY <1>15, <1>19, <1>20 DEF Longest, base, next
<1> QED
  BY <1>21 DEF T

(* The match that is found has the same rows in both, inside the window.    *)
LEMMA LongestIs ==
  ASSUME NEW a, NEW b, Permuted(a, b), NEW mods, NEW w \in WindowRec, w.begin1 <= w.end1, w.end1 <= Len(a)
  PROVE  /\ find_longest_match(a, b, mods, w) \in MatchRec(mods)
         /\ GoodMatch(a, b, find_longest_match(a, b, mods, w), w, w.end1)
<1>1. PICK m : m = find_longest_match(a, b, mods, w)
  OBVIOUS
<1>2. w.begin1 \in Nat /\ w.end1 \in Nat /\ Len(a) \in Nat
  BY RowsLen DEF WindowRec, Permuted
<1>3. PICK n \in Nat : n = w.end1 - w.begin1
  BY <1>2
<1>4. PICK acc \in [0 .. n -> AccRec(mods)] : Longest(m, acc, n, a, b, mods, w)
  BY <1>1, <1>3, LongestSteps
<1>5. /\ acc[0] = [prev |-> [j |-> 0, len |-> 0],
                   best |-> [i |-> w.begin1, j |-> w.begin2, size |-> 0, modified |-> 0]]
      /\ \A k \in 1 .. n : acc[k] = longest_so_far(a, b, mods, w, acc[k - 1], (w.begin1 + k) - 1)
      /\ m = acc[n].best
  BY <1>4 DEF Longest
<1> DEFINE Good(k) == /\ GoodRun(a, b, acc[k].prev, w, w.begin1 + k)
                      /\ GoodMatch(a, b, acc[k].best, w, w.begin1 + k)
<1>6. Good(0)
  BY <1>5 DEF GoodRun, GoodMatch
<1>7. ASSUME NEW k \in 1 .. n, Good(k - 1) PROVE Good(k)
  <2>1. PICK i \in Nat : /\ i = (w.begin1 + k) - 1 /\ i = w.begin1 + (k - 1) /\ i + 1 = w.begin1 + k
                         /\ w.begin1 <= i /\ i < Len(a)
    <3>1. PICK l \in Nat : l = Len(a)
      BY <1>2
    <3>2. w.end1 <= l
      BY <3>1
    <3>3. k \in Nat /\ k >= 1 /\ k <= w.end1 - w.begin1
      BY <1>3
    <3>4. PICK begin1, end1 \in Nat : begin1 = w.begin1 /\ end1 = w.end1
      BY <1>2
    <3>5. k <= end1 - begin1 /\ end1 <= l
      BY <3>2, <3>3, <3>4
    <3>6. PICK i \in Nat : i = (begin1 + k) - 1
      BY <3>3
    <3>7. i = begin1 + (k - 1) /\ i + 1 = begin1 + k /\ begin1 <= i /\ i < l
      BY <3>3, <3>5, <3>6
    <3> QED
      BY <3>1, <3>4, <3>6, <3>7
  <2>2. PICK c \in AccRec(mods) : c = acc[k - 1]
    OBVIOUS
  <2>3. PICK c2 \in AccRec(mods) : c2 = acc[k]
    OBVIOUS
  <2>4. PICK j \in Nat : j = placeIn(b, a[i + 1]) /\ b[j + 1] = a[i + 1]
    BY <2>1, PlaceIs, ZenonT(40)
  <2>5. PICK size \in Nat : size = IF c.prev.j + 1 = j /\ c.prev.len > 0 THEN c.prev.len + 1 ELSE 1
    <3>1. c.prev.len \in Nat
      BY DEF AccRec, RunRec
    <3> QED
      BY <3>1
  <2>6. c2 = longest_so_far(a, b, mods, w, c, i)
    BY <1>5, <2>1, <2>2, <2>3
  <2>7. Looked(c2, c, w, i, j, size)
    BY <2>4, <2>5, <2>6, LookedIs
  <2>8. GoodRun(a, b, c.prev, w, i) /\ GoodMatch(a, b, c.best, w, i)
    BY <1>7, <2>1, <2>2
  <2>9. GoodRun(a, b, c2.prev, w, i + 1) /\ GoodMatch(a, b, c2.best, w, i + 1)
    BY <2>1, <2>4, <2>5, <2>7, <2>8, GoodStep
  <2> QED
    BY <2>1, <2>3, <2>9
<1>8. Good(n)
  <2> DEFINE Bad == {k \in 0 .. n : ~Good(k)}
  <2> HIDE DEF Good
  <2> SUFFICES ASSUME Bad # {} PROVE FALSE
    BY <1>3
  <2>1. PICK k \in Bad : \A j \in Bad : k <= j
    <3>1. Bad \in SUBSET Nat
      OBVIOUS
    <3> HIDE DEF Bad
    <3> QED
      BY <3>1, LeastOne
  <2>2. k # 0
    BY <1>6, <2>1
  <2>3. k \in 1 .. n /\ k - 1 \in 0 .. n /\ ~(k <= k - 1)
    BY <2>1, <2>2
  <2>4. Good(k - 1)
    BY <2>1, <2>3
  <2> QED
    BY <1>7, <2>1, <2>3, <2>4
<1>9. w.begin1 + n = w.end1
  BY <1>2, <1>3
<1>10. m \in MatchRec(mods)
  <2>1. acc[n] \in AccRec(mods)
    OBVIOUS
  <2> QED
    BY <1>5, <2>1 DEF AccRec
<1> QED
  BY <1>1, <1>5, <1>8, <1>9, <1>10

(* No match is found in a window that has no rows of a.                     *)
LEMMA NoLongest ==
  ASSUME NEW a, NEW b, Permuted(a, b), NEW mods, NEW w \in WindowRec, ~(w.begin1 <= w.end1), w.end1 <= Len(a)
  PROVE  find_longest_match(a, b, mods, w).size = 0
<1>1. PICK m : m = find_longest_match(a, b, mods, w)
  OBVIOUS
<1>2. PICK n \in Nat : n = 0
  OBVIOUS
<1>3. PICK acc \in [0 .. n -> AccRec(mods)] : Longest(m, acc, n, a, b, mods, w)
  BY <1>1, <1>2, LongestSteps
<1>4. acc[0].best.size = 0 /\ m = acc[n].best
  BY <1>3 DEF Longest
<1> QED
  BY <1>1, <1>2, <1>4

-----------------------------------------------------------------------------
(* What a recursive call adds to, and the calls it makes, have a solution:  *)
(* the least one.                                                           *)
Solves(g, W, V, own, calls) ==
  /\ g \in [W -> SUBSET V]
  /\ \A w \in W : \A v \in V : v \in g[w] <=> v \in own[w] \/ \E c \in calls[w] : v \in g[c]

AreCalls(W, V, own, calls) == own \in [W -> SUBSET V] /\ calls \in [W -> SUBSET W]

LEMMA FixpointExists ==
  ASSUME NEW W, NEW V, NEW own, NEW calls, AreCalls(W, V, own, calls)
  PROVE  \E g : Solves(g, W, V, own, calls)
<1> USE DEF AreCalls
<1> DEFINE Closed(h) == \A w \in W : /\ own[w] \subseteq h[w]
                                     /\ \A c \in calls[w] : h[c] \subseteq h[w]
           g == [w \in W |-> {v \in V : \A h \in [W -> SUBSET V] : Closed(h) => v \in h[w]}]
           f == [w \in W |-> {v \in V : v \in own[w] \/ \E c \in calls[w] : v \in g[c]}]
<1>1. g \in [W -> SUBSET V] /\ f \in [W -> SUBSET V]
  OBVIOUS
<1>2. \A w \in W, v \in V : v \in g[w] <=> \A h \in [W -> SUBSET V] : Closed(h) => v \in h[w]
  OBVIOUS
<1>3. \A w \in W, v \in V : v \in f[w] <=> v \in own[w] \/ \E c \in calls[w] : v \in g[c]
  OBVIOUS
<1> HIDE DEF f, g
<1>4. ASSUME NEW w \in W, NEW v \in V, v \in f[w] PROVE v \in g[w]
  <2> SUFFICES ASSUME NEW h \in [W -> SUBSET V], Closed(h) PROVE v \in h[w]
    BY <1>2
  <2>1. CASE v \in own[w]
    BY <2>1
  <2>2. CASE \E c \in calls[w] : v \in g[c]
    <3>1. PICK c \in calls[w] : v \in g[c]
      BY <2>2
    <3>2. c \in W
      OBVIOUS
    <3>3. v \in h[c]
      BY <1>2, <3>1, <3>2
    <3> QED
      BY <3>3
  <2> QED
    BY <1>3, <1>4, <2>1, <2>2
<1>5. Closed(f)
  <2> SUFFICES ASSUME NEW w \in W PROVE own[w] \subseteq f[w] /\ \A c \in calls[w] : f[c] \subseteq f[w]
    OBVIOUS
  <2>1. own[w] \subseteq f[w]
    BY <1>3
  <2>2. ASSUME NEW c \in calls[w], NEW v \in f[c] PROVE v \in f[w]
    <3>1. c \in W /\ v \in V
      BY <1>1
    <3>2. v \in g[c]
      BY <1>4, <2>2, <3>1
    <3> QED
      BY <1>3, <3>1, <3>2
  <2> QED
    BY <2>1, <2>2
<1>6. ASSUME NEW w \in W, NEW v \in V, v \in g[w] PROVE v \in f[w]
  <2> HIDE DEF Closed
  <2> QED
    BY <1>1, <1>2, <1>5, <1>6
<1> HIDE DEF Closed
<1>7. \A w \in W : \A v \in V : v \in g[w] <=> v \in own[w] \/ \E c \in calls[w] : v \in g[c]
  BY <1>3, <1>4, <1>6
<1>8. Solves(g, W, V, own, calls)
  BY <1>1, <1>7 DEF Solves
<1> QED
  BY <1>8

(* The windows find_longest_matches may be called with.                     *)
Windows(n) == [begin1 : 0 .. n, end1 : 0 .. n, begin2 : 0 .. n, end2 : 0 .. n]
LeftOf(w, m) == [w EXCEPT !.end1 = m.i, !.end2 = m.j]
RightOf(w, m) == [w EXCEPT !.begin1 = m.i + m.size, !.begin2 = m.j + m.size]

HasLeft(w, m) == m.i > w.begin1 /\ m.j > w.begin2
HasRight(w, m) == m.i + m.size < w.end2 /\ m.j + m.size < w.end2

(* The matches in the window w, from those in the windows beside its        *)
(* longest.                                                                 *)
Found(found, a, b, mods, w) ==
  LET m == find_longest_match(a, b, mods, w)
  IN IF m.size = 0 THEN {}
     ELSE {m} \cup (IF HasLeft(w, m) THEN found[LeftOf(w, m)] ELSE {})
              \cup (IF HasRight(w, m) THEN found[RightOf(w, m)] ELSE {})

LEMMA WindowsAre ==
  ASSUME NEW a, NEW b, Permuted(a, b), NEW mods, NEW w \in Windows(Len(a)),
         NEW m, m = find_longest_match(a, b, mods, w), m.size # 0
  PROVE  /\ m \in MatchRec(mods) /\ w.begin1 <= w.end1
         /\ GoodMatch(a, b, m, w, w.end1)
         /\ LeftOf(w, m) \in Windows(Len(a)) /\ RightOf(w, m) \in Windows(Len(a))
<1>1. PICK n \in Nat : n = Len(a)
  BY RowsLen DEF Permuted
<1>2. w \in WindowRec /\ w.end1 <= Len(a)
  BY <1>1 DEF Windows, WindowRec
<1>3. w.begin1 <= w.end1
  BY <1>2, NoLongest
<1>4. m \in MatchRec(mods) /\ GoodMatch(a, b, m, w, w.end1)
  BY <1>2, <1>3, LongestIs
<1>5. m.i \in Int /\ m.j \in Int /\ m.size \in Nat
  BY <1>4 DEF MatchRec
<1>6. /\ w.begin1 \in 0 .. n /\ w.end1 \in 0 .. n /\ w.begin2 \in 0 .. n /\ w.end2 \in 0 .. n
      /\ w = [begin1 |-> w.begin1, end1 |-> w.end1, begin2 |-> w.begin2, end2 |-> w.end2]
  BY <1>1 DEF Windows
<1>7. m.i \in 0 .. n /\ m.j \in 0 .. n /\ m.i + m.size \in 0 .. n /\ m.j + m.size \in 0 .. n
  <2>1. /\ w.begin1 <= m.i /\ m.i + m.size <= w.end1
        /\ w.begin2 <= m.j /\ m.j + m.size <= w.end2
    BY <1>4, <1>5 DEF GoodMatch
  <2>2. PICK b1, b2, e1, e2 \in 0 .. n : b1 = w.begin1 /\ b2 = w.begin2 /\ e1 = w.end1 /\ e2 = w.end2
    BY <1>6
  <2>3. b1 <= m.i /\ m.i + m.size <= e1 /\ b2 <= m.j /\ m.j + m.size <= e2
    BY <2>1, <2>2
  <2> QED
    BY <1>1, <1>5, <2>3, SMTT(40)
<1>8. LeftOf(w, m) \in Windows(n)
  BY <1>6, <1>7 DEF LeftOf, Windows
<1>9. RightOf(w, m) \in Windows(n)
  BY <1>6, <1>7 DEF RightOf, Windows
<1> QED
  BY <1>1, <1>3, <1>4, <1>8, <1>9

LEMMA FoundExists ==
  ASSUME NEW a, NEW b, Permuted(a, b), NEW mods
  PROVE  \E g : g = [w \in Windows(Len(a)) |-> Found(g, a, b, mods, w)]
<1> DEFINE W == Windows(Len(a))
           V == MatchRec(mods)
           long(w) == find_longest_match(a, b, mods, w)
           own == [w \in W |-> {v \in V : long(w).size # 0 /\ v = long(w)}]
           calls == [w \in W |-> {c \in W : /\ long(w).size # 0
                                            /\ \/ HasLeft(w, long(w)) /\ c = LeftOf(w, long(w))
                                               \/ HasRight(w, long(w)) /\ c = RightOf(w, long(w))}]
<1>1. own \in [W -> SUBSET V] /\ calls \in [W -> SUBSET W]
  OBVIOUS
<1>2. \A w \in W, v \in V : v \in own[w] <=> long(w).size # 0 /\ v = long(w)
  OBVIOUS
<1>3. \A w \in W, c \in W : c \in calls[w] <=>
        /\ long(w).size # 0
        /\ \/ HasLeft(w, long(w)) /\ c = LeftOf(w, long(w))
           \/ HasRight(w, long(w)) /\ c = RightOf(w, long(w))
  OBVIOUS
<1>4. \A w \in W : long(w).size # 0 => long(w) \in V /\ LeftOf(w, long(w)) \in W /\ RightOf(w, long(w)) \in W
  BY WindowsAre
<1> HIDE DEF own, calls, W, V, long
<1>5. PICK g \in [W -> SUBSET V] :
        \A w \in W : \A v \in V : v \in g[w] <=> v \in own[w] \/ \E c \in calls[w] : v \in g[c]
  <2>1. AreCalls(W, V, own, calls)
    BY <1>1 DEF AreCalls
  <2>2. PICK g : Solves(g, W, V, own, calls)
    BY <2>1, FixpointExists
  <2> QED
    BY <2>2 DEF Solves
<1>6. ASSUME NEW w \in W PROVE g[w] = Found(g, a, b, mods, w)
  <2>1. PICK m : m = long(w)
    OBVIOUS
  <2>2. Found(g, a, b, mods, w) =
          IF m.size = 0 THEN {}
          ELSE {m} \cup (IF HasLeft(w, m) THEN g[LeftOf(w, m)] ELSE {})
                   \cup (IF HasRight(w, m) THEN g[RightOf(w, m)] ELSE {})
    BY <2>1 DEF Found, long
  <2>3. CASE m.size = 0
    <3>1. \A v \in V : v \notin g[w]
      BY <1>1, <1>2, <1>3, <1>5, <2>1, <2>3
    <3>2. g[w] \subseteq V
      BY <1>5
    <3> QED
      BY <2>2, <2>3, <3>1, <3>2
  <2>4. CASE m.size # 0
    <3>1. PICK l \in W : l = LeftOf(w, m)
      BY <1>4, <2>1, <2>4
    <3>2. PICK r \in W : r = RightOf(w, m)
      BY <1>4, <2>1, <2>4
    <3>3. m \in V
      BY <1>4, <2>1, <2>4
    <3>4. \A v \in V : v \in g[w] <=> v = m \/ (HasLeft(w, m) /\ v \in g[l]) \/ (HasRight(w, m) /\ v \in g[r])
      <4>1. \A c \in W : c \in calls[w] <=> (HasLeft(w, m) /\ c = l) \/ (HasRight(w, m) /\ c = r)
        BY <1>3, <2>1, <2>4, <3>1, <3>2
      <4>2. \A v \in V : v \in own[w] <=> v = m
        BY <1>2, <2>1, <2>4
      <4>3. calls[w] \subseteq W
        BY <1>1
      <4> QED
        BY <1>5, <4>1, <4>2, <4>3, Zenon
    <3>5. g[w] \subseteq V /\ g[l] \subseteq V /\ g[r] \subseteq V
      BY <1>5
    <3>6. Found(g, a, b, mods, w) =
            {m} \cup (IF HasLeft(w, m) THEN g[l] ELSE {}) \cup (IF HasRight(w, m) THEN g[r] ELSE {})
      BY <2>2, <2>4, <3>1, <3>2
    <3>7. \A v : v \in Found(g, a, b, mods, w) <=>
                   v = m \/ (HasLeft(w, m) /\ v \in g[l]) \/ (HasRight(w, m) /\ v \in g[r])
      BY <3>6
    <3> HIDE DEF Found
    <3>8. \A v : v \in Found(g, a, b, mods, w) <=> v \in g[w]
      BY <3>3, <3>4, <3>5, <3>7, Zenon
    <3> QED
      BY <3>8
  <2> QED
    BY <2>3, <2>4
<1>7. g = [w \in W |-> Found(g, a, b, mods, w)]
  BY <1>6
<1> QED
  BY <1>7, Zenon DEF W

(* Matches in the window w, none of which crosses another.                  *)
Wholly(m, n) == m.i + m.size <= n.i /\ m.j + m.size <= n.j

GoodMatches(a, b, ms, w) ==
  /\ \A m \in ms : m.i \in Nat /\ m.j \in Nat /\ m.size \in Nat /\ m.size > 0 /\ GoodMatch(a, b, m, w, w.end1)
  /\ \A m, n \in ms : m = n \/ Wholly(m, n) \/ Wholly(n, m)

(* The longest match of a window with the matches beside it.                *)
LEMMA GoodBeside ==
  ASSUME NEW a, NEW b, NEW w \in WindowRec, NEW m, m.i \in Nat, m.j \in Nat, m.size \in Nat, m.size > 0,
         GoodMatch(a, b, m, w, w.end1),
         NEW left, NEW right, GoodMatches(a, b, left, LeftOf(w, m)), GoodMatches(a, b, right, RightOf(w, m)),
         NEW ms, \A v \in ms : v = m \/ v \in left \/ v \in right
  PROVE  GoodMatches(a, b, ms, w)
<1>1. /\ w.begin1 \in Nat /\ w.end1 \in Nat /\ w.begin2 \in Nat /\ w.end2 \in Nat
      /\ w = [begin1 |-> w.begin1, end1 |-> w.end1, begin2 |-> w.begin2, end2 |-> w.end2]
  BY DEF WindowRec
<1>2. /\ w.begin1 <= m.i /\ m.i + m.size <= w.end1
      /\ w.begin2 <= m.j /\ m.j + m.size <= w.end2
  BY DEF GoodMatch
<1>3. /\ LeftOf(w, m).begin1 = w.begin1 /\ LeftOf(w, m).begin2 = w.begin2
      /\ LeftOf(w, m).end1 = m.i /\ LeftOf(w, m).end2 = m.j
  BY <1>1 DEF LeftOf
<1>4. /\ RightOf(w, m).begin1 = m.i + m.size /\ RightOf(w, m).begin2 = m.j + m.size
      /\ RightOf(w, m).end1 = w.end1 /\ RightOf(w, m).end2 = w.end2
  BY <1>1 DEF RightOf
<1>5. ASSUME NEW v \in left
      PROVE  /\ v.i \in Nat /\ v.j \in Nat /\ v.size \in Nat /\ v.size > 0
             /\ GoodMatch(a, b, v, w, w.end1) /\ Wholly(v, m)
  <2>1. v.i \in Nat /\ v.j \in Nat /\ v.size \in Nat /\ v.size > 0
    BY DEF GoodMatches
  <2>2. /\ w.begin1 <= v.i /\ v.i + v.size <= m.i
        /\ w.begin2 <= v.j /\ v.j + v.size <= m.j
        /\ \A k \in Nat : k < v.size => a[(v.i + k) + 1] = b[(v.j + k) + 1]
    BY <1>3, <2>1 DEF GoodMatches, GoodMatch
  <2>3. v.i + v.size <= w.end1 /\ v.j + v.size <= w.end2
    BY <1>1, <1>2, <2>1, <2>2
  <2> QED
    BY <2>1, <2>2, <2>3 DEF GoodMatch, Wholly
<1>6. ASSUME NEW v \in right
      PROVE  /\ v.i \in Nat /\ v.j \in Nat /\ v.size \in Nat /\ v.size > 0
             /\ GoodMatch(a, b, v, w, w.end1) /\ Wholly(m, v)
  <2>1. v.i \in Nat /\ v.j \in Nat /\ v.size \in Nat /\ v.size > 0
    BY DEF GoodMatches
  <2>2. /\ m.i + m.size <= v.i /\ v.i + v.size <= w.end1
        /\ m.j + m.size <= v.j /\ v.j + v.size <= w.end2
        /\ \A k \in Nat : k < v.size => a[(v.i + k) + 1] = b[(v.j + k) + 1]
    BY <1>4, <2>1 DEF GoodMatches, GoodMatch
  <2>3. w.begin1 <= v.i /\ w.begin2 <= v.j
    BY <1>1, <1>2, <2>1, <2>2
  <2> QED
    BY <2>1, <2>2, <2>3 DEF GoodMatch, Wholly
<1>7. ASSUME NEW u \in left, NEW v \in right PROVE Wholly(u, v)
  <2>1. /\ u.i \in Nat /\ u.j \in Nat /\ u.size \in Nat
        /\ v.i \in Nat /\ v.j \in Nat /\ Wholly(u, m) /\ Wholly(m, v)
    BY <1>5, <1>6
  <2> QED
    BY <2>1 DEF Wholly
<1>8. \A v \in ms : v.i \in Nat /\ v.j \in Nat /\ v.size \in Nat /\ v.size > 0 /\ GoodMatch(a, b, v, w, w.end1)
  BY <1>5, <1>6
<1>9. \A u, v \in ms : u = v \/ Wholly(u, v) \/ Wholly(v, u)
  <2>1. \A u, v \in left : u = v \/ Wholly(u, v) \/ Wholly(v, u)
    BY DEF GoodMatches
  <2>2. \A u, v \in right : u = v \/ Wholly(u, v) \/ Wholly(v, u)
    BY DEF GoodMatches
  <2>3. \A v \in left : Wholly(v, m)
    BY <1>5
  <2>4. \A v \in right : Wholly(m, v)
    BY <1>6
  <2> HIDE DEF Wholly
  <2> QED
    BY <1>7, <2>1, <2>2, <2>3, <2>4
<1> QED
  BY <1>8, <1>9 DEF GoodMatches

LEMMA FoundAre ==
  ASSUME NEW a, NEW b, Permuted(a, b), NEW mods,
         NEW found, found = [w \in Windows(Len(a)) |-> Found(found, a, b, mods, w)]
  PROVE  \A w \in Windows(Len(a)) : GoodMatches(a, b, found[w], w)
<1> DEFINE W == Windows(Len(a))
           Width(w) == w.end1 - w.begin1
           Bad == {k \in Nat : \E w \in W : /\ k = Width(w) /\ w.begin1 <= w.end1
                                            /\ ~GoodMatches(a, b, found[w], w)}
<1>1. \A w \in W : w \in WindowRec
  <2>1. PICK n \in Nat : n = Len(a)
    BY RowsLen DEF Permuted
  <2> QED
    BY <2>1 DEF Windows, WindowRec
<1>2. \A w \in W : w.begin1 \in Nat /\ w.end1 \in Nat
  BY <1>1 DEF WindowRec
<1>3. ASSUME NEW w \in W PROVE found[w] = Found(found, a, b, mods, w)
  OBVIOUS
<1>4. ASSUME NEW w \in W, find_longest_match(a, b, mods, w).size = 0 PROVE GoodMatches(a, b, found[w], w)
  <2>1. found[w] = {}
    BY <1>3, <1>4 DEF Found
  <2> QED
    BY <2>1 DEF GoodMatches
<1> HIDE DEF W
<1>5. ASSUME NEW w \in W, ~GoodMatches(a, b, found[w], w)
      PROVE  \E v \in W : /\ ~GoodMatches(a, b, found[v], v) /\ v.begin1 <= v.end1
                          /\ w.begin1 <= w.end1 /\ Width(v) < Width(w)
  <2>1. PICK m : m = find_longest_match(a, b, mods, w)
    OBVIOUS
  <2>2. m.size # 0
    BY <1>4, <1>5, <2>1
  <2>3. PICK l \in W : l = LeftOf(w, m)
    BY <2>1, <2>2, WindowsAre DEF W
  <2>4. PICK r \in W : r = RightOf(w, m)
    BY <2>1, <2>2, WindowsAre DEF W
  <2>5. m \in MatchRec(mods) /\ w.begin1 <= w.end1 /\ GoodMatch(a, b, m, w, w.end1)
    BY <2>1, <2>2, WindowsAre DEF W
  <2>6. m.i \in Int /\ m.j \in Int /\ m.size \in Nat /\ m.size > 0
    BY <2>2, <2>5 DEF MatchRec
  <2>7. /\ w.begin1 \in Nat /\ w.end1 \in Nat /\ w.begin2 \in Nat /\ w.end2 \in Nat
        /\ w = [begin1 |-> w.begin1, end1 |-> w.end1, begin2 |-> w.begin2, end2 |-> w.end2]
    BY <1>1 DEF WindowRec
  <2>8. /\ w.begin1 <= m.i /\ m.i + m.size <= w.end1
        /\ w.begin2 <= m.j /\ m.j + m.size <= w.end2
    BY <2>5, <2>6 DEF GoodMatch
  <2>9. m.i \in Nat /\ m.j \in Nat
    BY <2>6, <2>7, <2>8
  <2>10. l.begin1 = w.begin1 /\ l.end1 = m.i
    BY <2>3, <2>7 DEF LeftOf
  <2>11. r.begin1 = m.i + m.size /\ r.end1 = w.end1
    BY <2>4, <2>7 DEF RightOf
  <2>12. l.begin1 <= l.end1 /\ r.begin1 <= r.end1 /\ Width(l) < Width(w) /\ Width(r) < Width(w)
    BY <2>6, <2>7, <2>8, <2>9, <2>10, <2>11
  <2>13. CASE GoodMatches(a, b, found[l], l) /\ GoodMatches(a, b, found[r], r)
    <3>1. PICK left : left = found[l]
      OBVIOUS
    <3>2. PICK right : right = found[r]
      OBVIOUS
    <3>3. \A v \in found[w] : v = m \/ v \in left \/ v \in right
      <4>1. found[w] = {m} \cup (IF HasLeft(w, m) THEN found[LeftOf(w, m)] ELSE {})
                           \cup (IF HasRight(w, m) THEN found[RightOf(w, m)] ELSE {})
        BY <1>3, <2>1, <2>2 DEF Found
      <4> QED
        BY <2>3, <2>4, <3>1, <3>2, <4>1
    <3>4. GoodMatches(a, b, left, LeftOf(w, m)) /\ GoodMatches(a, b, right, RightOf(w, m))
      BY <2>3, <2>4, <2>13, <3>1, <3>2
    <3>5. w \in WindowRec
      BY <1>1
    <3>6. GoodMatches(a, b, found[w], w)
      BY <2>5, <2>6, <2>9, <3>3, <3>4, <3>5, GoodBeside
    <3> QED
      BY <1>5, <3>6
  <2> QED
    BY <2>5, <2>12, <2>13
<1>6. Bad = {}
  <2> SUFFICES ASSUME Bad # {} PROVE FALSE
    OBVIOUS
  <2>1. Bad \in SUBSET Nat
    OBVIOUS
  <2>2. PICK k \in Bad : \A h \in Bad : k <= h
    <3> HIDE DEF Bad
    <3> QED
      BY <2>1, LeastOne
  <2>3. PICK w \in W : k = Width(w) /\ w.begin1 <= w.end1 /\ ~GoodMatches(a, b, found[w], w)
    BY <2>2
  <2>4. PICK v \in W : ~GoodMatches(a, b, found[v], v) /\ v.begin1 <= v.end1 /\ Width(v) < Width(w)
    BY <1>5, <2>3
  <2>5. Width(v) \in Nat /\ Width(w) \in Nat
    BY <1>2, <2>3, <2>4
  <2>6. Width(v) \in Bad
    BY <2>4, <2>5
  <2>7. k <= Width(v)
    BY <2>2, <2>6
  <2> HIDE DEF Width
  <2> QED
    BY <2>3, <2>4, <2>5, <2>7
<1>7. ASSUME NEW w \in W PROVE GoodMatches(a, b, found[w], w)
  <2> SUFFICES ASSUME ~GoodMatches(a, b, found[w], w) PROVE FALSE
    OBVIOUS
  <2>1. w.begin1 <= w.end1
    BY <1>5
  <2>2. Width(w) \in Nat
    BY <1>2, <2>1
  <2>3. Width(w) \in Bad
    BY <2>1, <2>2
  <2> QED
    BY <1>6, <2>3
<1> QED
  BY <1>7 DEF W

LEMMA MatchesAre ==
  ASSUME NEW a, NEW b, Permuted(a, b), NEW mods, NEW first \in Nat, first <= Len(a)
  PROVE  GoodMatches(a, b, find_longest_matches(a, b, mods, first),
                     [begin1 |-> first, end1 |-> Len(a), begin2 |-> first, end2 |-> Len(b)])
<1> DEFINE w0 == [begin1 |-> first, end1 |-> Len(a), begin2 |-> first, end2 |-> Len(b)]
           F == CHOOSE g : g = [w \in Windows(Len(a)) |-> Found(g, a, b, mods, w)]
<1>1. PICK n \in Nat : n = Len(a) /\ n = Len(b)
  BY RowsLen DEF Permuted
<1>2. w0 \in Windows(Len(a))
  BY <1>1 DEF Windows
<1>3. F = [w \in Windows(Len(a)) |-> Found(F, a, b, mods, w)]
  <2>1. \E g : g = [w \in Windows(Len(a)) |-> Found(g, a, b, mods, w)]
    BY FoundExists
  <2> QED
    BY <2>1, Zenon
<1>4. find_longest_matches(a, b, mods, first) = F[w0]
  BY DEF find_longest_matches, Windows, Found, HasLeft, HasRight, LeftOf, RightOf
<1> HIDE DEF F, w0
<1>5. GoodMatches(a, b, F[w0], w0)
  BY <1>2, <1>3, FoundAre
<1> QED
  BY <1>4, <1>5 DEF w0

(* A place in a and the place in b that has the same row, before the first  *)
(* difference or in a match.                                                *)
Paired(ms, first, i, j) ==
  \/ i < first /\ j = i
  \/ \E m \in ms : \E k \in Nat : k < m.size /\ i = m.i + k /\ j = m.j + k

LEMMA PairedInOrder ==
  ASSUME NEW a, NEW b, NEW ms, NEW first \in Nat, NEW n \in Nat,
         GoodMatches(a, b, ms, [begin1 |-> first, end1 |-> n, begin2 |-> first, end2 |-> n]),
         NEW i \in Nat, NEW j \in Nat, NEW h \in Nat, NEW l \in Nat,
         Paired(ms, first, i, j), Paired(ms, first, h, l), i < h
  PROVE  j < l
<1> DEFINE w == [begin1 |-> first, end1 |-> n, begin2 |-> first, end2 |-> n]
<1>1. ASSUME NEW m \in ms
      PROVE  m.i \in Nat /\ m.j \in Nat /\ m.size \in Nat /\ m.size > 0 /\ first <= m.i /\ first <= m.j
  BY DEF GoodMatches, GoodMatch
<1>2. CASE h < first /\ l = h
  <2>1. ~\E m \in ms : \E k \in Nat : k < m.size /\ i = m.i + k /\ j = m.j + k
    BY <1>1, <1>2
  <2> QED
    BY <1>2, <2>1 DEF Paired
<1>3. CASE \E m \in ms : \E k \in Nat : k < m.size /\ h = m.i + k /\ l = m.j + k
  <2>1. PICK m \in ms, k \in Nat : k < m.size /\ h = m.i + k /\ l = m.j + k
    BY <1>3
  <2>2. m.i \in Nat /\ m.j \in Nat /\ m.size \in Nat /\ first <= m.i /\ first <= m.j
    BY <1>1
  <2>3. CASE i < first /\ j = i
    BY <2>1, <2>2, <2>3
  <2>4. CASE \E o \in ms : \E g \in Nat : g < o.size /\ i = o.i + g /\ j = o.j + g
    <3>1. PICK o \in ms, g \in Nat : g < o.size /\ i = o.i + g /\ j = o.j + g
      BY <2>4
    <3>2. o.i \in Nat /\ o.j \in Nat /\ o.size \in Nat
      BY <1>1
    <3>3. o = m \/ Wholly(o, m) \/ Wholly(m, o)
      BY DEF GoodMatches
    <3>4. CASE o = m
      BY <2>1, <2>2, <3>1, <3>4
    <3>5. CASE Wholly(o, m)
      BY <2>1, <2>2, <3>1, <3>2, <3>5 DEF Wholly
    <3>6. CASE Wholly(m, o)
      BY <2>1, <2>2, <3>1, <3>2, <3>6 DEF Wholly
    <3> QED
      BY <3>3, <3>4, <3>5, <3>6
  <2> QED
    BY <2>3, <2>4 DEF Paired
<1> QED
  BY <1>2, <1>3 DEF Paired

(* The rows that are said to move are the same in both runs, and the others *)
(* are in the same order.                                                   *)
MovedRows(a, b, moved) ==
  /\ moved.a \subseteq 0 .. Len(a) - 1 /\ moved.b \subseteq 0 .. Len(b) - 1
  /\ \A v : (\E i \in moved.a : v = a[i + 1]) <=> (\E j \in moved.b : v = b[j + 1])
  /\ SameOrder(a, b, {v \in ToSet(a) : ~\E i \in moved.a : v = a[i + 1]})

LEMMA PlaceBefore ==
  ASSUME NEW n \in Nat, NEW p \in 1 .. n
  PROVE  \E i \in 0 .. n - 1 : p = i + 1
<1>1. p - 1 \in 0 .. n - 1 /\ p = (p - 1) + 1
  OBVIOUS
<1> QED
  BY <1>1

LEMMA PlaceBeyond ==
  ASSUME NEW n \in Nat, NEW x \in Nat, NEW i \in 0 .. n - 1, x <= i
  PROVE  \E k \in Nat : i = x + k
<1>1. i - x \in Nat /\ i = x + (i - x)
  OBVIOUS
<1> QED
  BY <1>1

LEMMA PlaceInMatch ==
  ASSUME NEW x \in Nat, NEW k \in Nat, NEW size \in Nat, k < size
  PROVE  /\ x + k \in Nat /\ x <= x + k /\ x + k < x + size
         /\ \A n \in Nat : x + size <= n => x + k \in 0 .. n - 1
OBVIOUS

LEMMA PairedRows ==
  ASSUME NEW a, NEW b, Permuted(a, b), NEW n \in Nat, n = Len(a), NEW ms, NEW first \in Nat, first < n,
         \A i \in Nat : i < first => a[i + 1] = b[i + 1],
         GoodMatches(a, b, ms, [begin1 |-> first, end1 |-> n, begin2 |-> first, end2 |-> n])
  PROVE  MovedRows(a, b, [a |-> {i \in first .. n - 1 : ~\E m \in ms : m.i <= i /\ i < m.i + m.size},
                          b |-> {j \in first .. n - 1 : ~\E m \in ms : m.j <= j /\ j < m.j + m.size}])
<1> DEFINE w == [begin1 |-> first, end1 |-> n, begin2 |-> first, end2 |-> n]
           A == {i \in first .. n - 1 : ~\E m \in ms : m.i <= i /\ i < m.i + m.size}
           B == {j \in first .. n - 1 : ~\E m \in ms : m.j <= j /\ j < m.j + m.size}
           K == {v \in ToSet(a) : ~\E i \in A : v = a[i + 1]}
<1>1. DOMAIN a = 1 .. n /\ DOMAIN b = 1 .. n /\ Len(b) = n
  BY RowsLen DEF Permuted
<1>2. ASSUME NEW m \in ms
      PROVE  /\ m.i \in Nat /\ m.j \in Nat /\ m.size \in Nat /\ m.size > 0
             /\ first <= m.i /\ m.i + m.size <= n /\ first <= m.j /\ m.j + m.size <= n
             /\ \A k \in Nat : k < m.size => a[(m.i + k) + 1] = b[(m.j + k) + 1]
  BY DEF GoodMatches, GoodMatch
<1>3. ASSUME NEW i \in 0 .. n - 1, i \notin A
      PROVE  \E j \in 0 .. n - 1 : Paired(ms, first, i, j)
  <2>1. CASE i < first
    BY <2>1 DEF Paired
  <2>2. CASE ~(i < first)
    <3>1. PICK m \in ms : m.i <= i /\ i < m.i + m.size
      BY <1>3, <2>2
    <3>2. PICK k \in Nat : k < m.size /\ i = m.i + k /\ m.j + k \in 0 .. n - 1
      <4>1. PICK mi, mj, ms0 \in Nat : /\ mi = m.i /\ mj = m.j /\ ms0 = m.size
                                       /\ mi <= i /\ i < mi + ms0 /\ mj + ms0 <= n
        BY <1>2, <3>1
      <4>2. PICK k \in Nat : i = mi + k
        BY <4>1, PlaceBeyond, ZenonT(40)
      <4>3. k < ms0
        BY <4>1, <4>2
      <4>4. mj + k \in 0 .. n - 1
        BY <4>1, <4>3, PlaceInMatch
      <4> QED
        BY <4>1, <4>2, <4>3, <4>4
    <3> QED
      BY <3>2 DEF Paired
  <2> QED
    BY <2>1, <2>2
<1>4. ASSUME NEW j \in 0 .. n - 1, j \notin B
      PROVE  \E i \in 0 .. n - 1 : Paired(ms, first, i, j)
  <2>1. CASE j < first
    BY <2>1 DEF Paired
  <2>2. CASE ~(j < first)
    <3>1. PICK m \in ms : m.j <= j /\ j < m.j + m.size
      BY <1>4, <2>2
    <3>2. PICK k \in Nat : k < m.size /\ j = m.j + k /\ m.i + k \in 0 .. n - 1
      <4>1. PICK mi, mj, ms0 \in Nat : /\ mi = m.i /\ mj = m.j /\ ms0 = m.size
                                       /\ mj <= j /\ j < mj + ms0 /\ mi + ms0 <= n
        BY <1>2, <3>1
      <4>2. PICK k \in Nat : j = mj + k
        BY <4>1, PlaceBeyond, ZenonT(40)
      <4>3. k < ms0
        BY <4>1, <4>2
      <4>4. mi + k \in 0 .. n - 1
        BY <4>1, <4>3, PlaceInMatch
      <4> QED
        BY <4>1, <4>2, <4>3, <4>4
    <3> QED
      BY <3>2 DEF Paired
  <2> QED
    BY <2>1, <2>2
<1>5. ASSUME NEW i \in 0 .. n - 1, NEW j \in 0 .. n - 1, Paired(ms, first, i, j)
      PROVE  i \notin A /\ j \notin B /\ a[i + 1] = b[j + 1]
  <2>1. CASE i < first /\ j = i
    BY <2>1
  <2>2. CASE \E m \in ms : \E k \in Nat : k < m.size /\ i = m.i + k /\ j = m.j + k
    <3>1. PICK m \in ms, k \in Nat : k < m.size /\ i = m.i + k /\ j = m.j + k
      BY <2>2
    <3>2. a[i + 1] = b[j + 1]
      BY <1>2, <3>1
    <3>3. m.i <= i /\ i < m.i + m.size /\ m.j <= j /\ j < m.j + m.size
      <4>1. m.i \in Nat /\ m.j \in Nat /\ m.size \in Nat
        BY <1>2
      <4>2. m.i <= m.i + k /\ m.i + k < m.i + m.size
        BY <3>1, <4>1, PlaceInMatch
      <4>3. m.j <= m.j + k /\ m.j + k < m.j + m.size
        BY <3>1, <4>1, PlaceInMatch
      <4> QED
        BY <3>1, <4>2, <4>3
    <3> QED
      BY <3>2, <3>3
  <2> QED
    BY <1>5, <2>1, <2>2 DEF Paired
<1>6. ASSUME NEW p \in 1 .. n, NEW q \in 1 .. n, a[p] = a[q] \/ b[p] = b[q] PROVE p = q
  BY <1>1, <1>6 DEF Permuted, IsInjective
<1>7. A \subseteq 0 .. n - 1 /\ B \subseteq 0 .. n - 1
  OBVIOUS
<1>8. ASSUME NEW v \in ToSet(a) PROVE (\E p \in 1 .. n : v = a[p]) /\ (\E p \in 1 .. n : v = b[p])
  <2>1. v \in ToSet(b)
    BY DEF Permuted
  <2> QED
    BY <1>1, <2>1 DEF ToSet
<1> HIDE DEF A, B
<1>9. ASSUME NEW i \in A PROVE \E j \in B : a[i + 1] = b[j + 1]
  <2>1. i \in 0 .. n - 1 /\ i + 1 \in 1 .. n
    BY <1>7
  <2>2. a[i + 1] \in ToSet(a)
    BY <1>1, <2>1 DEF ToSet
  <2>3. PICK q \in 1 .. n : a[i + 1] = b[q]
    BY <1>8, <2>2
  <2>4. PICK j \in 0 .. n - 1 : q = j + 1
    BY PlaceBefore
  <2>5. CASE j \in B
    BY <2>3, <2>4, <2>5
  <2>6. CASE j \notin B
    <3>1. PICK h \in 0 .. n - 1 : Paired(ms, first, h, j)
      BY <1>4, <2>6
    <3>2. h \notin A /\ a[h + 1] = b[j + 1]
      BY <1>5, <3>1
    <3>3. h + 1 \in 1 .. n /\ a[h + 1] = a[i + 1]
      BY <2>3, <2>4, <3>2
    <3>4. h + 1 = i + 1
      BY <1>6, <2>1, <3>3
    <3> QED
      BY <2>1, <3>2, <3>4
  <2> QED
    BY <2>5, <2>6
<1>10. ASSUME NEW j \in B PROVE \E i \in A : a[i + 1] = b[j + 1]
  <2>1. j \in 0 .. n - 1 /\ j + 1 \in 1 .. n
    BY <1>7
  <2>2. b[j + 1] \in ToSet(a)
    <3>1. b[j + 1] \in ToSet(b)
      BY <1>1, <2>1 DEF ToSet
    <3> QED
      BY <3>1 DEF Permuted
  <2>3. PICK q \in 1 .. n : b[j + 1] = a[q]
    BY <1>8, <2>2
  <2>4. PICK i \in 0 .. n - 1 : q = i + 1
    BY PlaceBefore
  <2>5. CASE i \in A
    BY <2>3, <2>4, <2>5
  <2>6. CASE i \notin A
    <3>1. PICK h \in 0 .. n - 1 : Paired(ms, first, i, h)
      BY <1>3, <2>6
    <3>2. h \notin B /\ a[i + 1] = b[h + 1]
      BY <1>5, <3>1
    <3>3. h + 1 \in 1 .. n /\ b[h + 1] = b[j + 1]
      BY <2>3, <2>4, <3>2
    <3>4. h + 1 = j + 1
      BY <1>6, <2>1, <3>3
    <3> QED
      BY <2>1, <3>2, <3>4
  <2> QED
    BY <2>5, <2>6
<1>11. SameOrder(a, b, K)
  <2> SUFFICES ASSUME NEW p \in 1 .. n, NEW q \in 1 .. n, NEW r \in 1 .. n, NEW s \in 1 .. n,
                      p < q, a[p] \in K, a[q] \in K, a[p] = b[r], a[q] = b[s]
               PROVE  r < s
    BY <1>1 DEF SameOrder
  <2>1. PICK i, h, j, l \in 0 .. n - 1 : p = i + 1 /\ q = h + 1 /\ r = j + 1 /\ s = l + 1
    <3>1. PICK i \in 0 .. n - 1 : p = i + 1
      BY PlaceBefore
    <3>2. PICK h \in 0 .. n - 1 : q = h + 1
      BY PlaceBefore
    <3>3. PICK j \in 0 .. n - 1 : r = j + 1
      BY PlaceBefore
    <3>4. PICK l \in 0 .. n - 1 : s = l + 1
      BY PlaceBefore
    <3> QED
      BY <3>1, <3>2, <3>3, <3>4
  <2>2. i \notin A /\ h \notin A
    BY <2>1
  <2>3. PICK j2 \in 0 .. n - 1 : Paired(ms, first, i, j2)
    BY <1>3, <2>2
  <2>4. PICK l2 \in 0 .. n - 1 : Paired(ms, first, h, l2)
    BY <1>3, <2>2
  <2>5. j2 = j
    <3>1. b[j2 + 1] = b[j + 1]
      BY <1>5, <2>1, <2>3
    <3>2. j2 + 1 \in 1 .. n /\ j + 1 \in 1 .. n
      OBVIOUS
    <3>3. j2 + 1 = j + 1
      BY <1>6, <3>1, <3>2
    <3> QED
      BY <3>3, SMTT(40)
  <2>6. l2 = l
    <3>1. b[l2 + 1] = b[l + 1]
      BY <1>5, <2>1, <2>4
    <3>2. l2 + 1 \in 1 .. n /\ l + 1 \in 1 .. n
      OBVIOUS
    <3>3. l2 + 1 = l + 1
      BY <1>6, <3>1, <3>2
    <3> QED
      BY <3>3
  <2>7. i < h /\ i \in Nat /\ h \in Nat /\ j \in Nat /\ l \in Nat
    BY <2>1
  <2>8. Paired(ms, first, i, j) /\ Paired(ms, first, h, l)
    BY <2>3, <2>4, <2>5, <2>6
  <2>9. j < l
    BY <2>7, <2>8, PairedInOrder, SMTT(40)
  <2> QED
    BY <2>1, <2>9
<1>12. \A v : (\E i \in A : v = a[i + 1]) <=> (\E j \in B : v = b[j + 1])
  BY <1>9, <1>10, ZenonT(40)
<1> QED
  BY <1>1, <1>7, <1>11, <1>12 DEF MovedRows, A, B

LEMMA SortedMoves ==
  ASSUME NEW a, NEW b, Permuted(a, b), NEW mods
  PROVE  MovedRows(a, b, calculate_moves_sorted(a, b, mods))
<1> DEFINE differ == {i \in 0 .. Len(a) - 1 : a[i + 1] # b[i + 1]}
           first == Min(differ)
           ms == find_longest_matches(a, b, mods, first)
<1>1. PICK n \in Nat : n = Len(a) /\ n = Len(b) /\ DOMAIN a = 1 .. n /\ DOMAIN b = 1 .. n
  BY RowsLen DEF Permuted
<1>2. CASE differ = {}
  <2>1. calculate_moves_sorted(a, b, mods) = [a |-> {}, b |-> {}]
    BY <1>2 DEF calculate_moves_sorted
  <2>2. ASSUME NEW p \in 1 .. n PROVE a[p] = b[p]
    <3>1. p - 1 \in 0 .. Len(a) - 1 /\ (p - 1) + 1 = p
      BY <1>1
    <3> QED
      BY <1>2, <3>1
  <2>3. ASSUME NEW p \in 1 .. n, NEW q \in 1 .. n, b[p] = b[q] PROVE p = q
    BY <1>1, <2>3 DEF Permuted, IsInjective
  <2>4. ASSUME NEW K PROVE SameOrder(a, b, K)
    BY <1>1, <2>2, <2>3 DEF SameOrder
  <2> QED
    BY <2>1, <2>4 DEF MovedRows
<1>3. CASE differ # {}
  <2>1. differ \in SUBSET Nat
    BY <1>1
  <2>2. \E i \in differ : \A j \in differ : i <= j
    <3> HIDE DEF differ
    <3> QED
      BY <1>3, <2>1, LeastOne
  <2>3. first \in differ /\ \A j \in differ : first <= j
    <3> HIDE DEF differ
    <3> QED
      BY <2>2, Zenon DEF Min
  <2>4. calculate_moves_sorted(a, b, mods) =
          [a |-> {i \in first .. n - 1 : ~\E m \in ms : m.i <= i /\ i < m.i + m.size},
           b |-> {j \in first .. n - 1 : ~\E m \in ms : m.j <= j /\ j < m.j + m.size}]
    <3> HIDE DEF first
    <3> QED
      BY <1>1, <1>3 DEF calculate_moves_sorted, first
  <2> HIDE DEF first
  <2>5. first \in Nat /\ first < n
    BY <1>1, <2>3
  <2>6. ASSUME NEW i \in Nat, i < first PROVE a[i + 1] = b[i + 1]
    BY <1>1, <2>3, <2>5, <2>6
  <2> HIDE DEF differ
  <2>7. first <= Len(a)
    BY <1>1, <2>5
  <2>8. GoodMatches(a, b, ms, [begin1 |-> first, end1 |-> n, begin2 |-> first, end2 |-> n])
    BY <1>1, <2>5, <2>7, MatchesAre
  <2> HIDE DEF ms
  <2>9. MovedRows(a, b, [a |-> {i \in first .. n - 1 : ~\E m \in ms : m.i <= i /\ i < m.i + m.size},
                         b |-> {j \in first .. n - 1 : ~\E m \in ms : m.j <= j /\ j < m.j + m.size}])
    BY <1>1, <2>5, <2>6, <2>8, PairedRows
  <2> QED
    BY <2>4, <2>9
<1> QED
  BY <1>2, <1>3

-----------------------------------------------------------------------------
(* calculate: two runs of a query.                                          *)
LEMMA CalculateIsExact ==
  ASSUME NEW x \in Seq(Nat), NEW y \in Seq(Nat), IsInjective(x), IsInjective(y), NEW changed,
         NEW in_table_order, in_table_order => InTableOrder(x) /\ InTableOrder(y)
  PROVE  Exact(calculate(x, y, changed, in_table_order), x, y, changed)
<1> DEFINE C == ToSet(x) \cap ToSet(y)
           places(rs, kept) == {i \in 0 .. Len(rs) - 1 : rs[i + 1] \in kept}
           M == places(y, C \cap changed)
<1>1. PICK a : a = RowsIn(x, C)
  OBVIOUS
<1>2. PICK b : b = RowsIn(y, C)
  OBVIOUS
<1>3. PICK moved : moved = IF in_table_order THEN [a |-> {}, b |-> {}]
                           ELSE calculate_moves_sorted(a, b, M)
  OBVIOUS
<1> DEFINE A == {a[i + 1] : i \in moved.a}
           B == {b[j + 1] : j \in moved.b}
           D == places(x, (ToSet(x) \ C) \cup A)
           I == places(y, (ToSet(y) \ C) \cup B)
           K == {v \in C : v \notin A}
<1>4. calculate(x, y, changed, in_table_order)
        = [NoChanges EXCEPT !.deletions = D, !.insertions = I, !.modifications = M]
  BY <1>1, <1>2, <1>3, Zenon DEF calculate, RowsIn
<1>5. /\ a \in Seq(Nat) /\ IsInjective(a)
      /\ \A v : v \in ToSet(a) <=> v \in C /\ v \in ToSet(x)
      /\ \A S \in SUBSET C : SameOrder(x, a, S) /\ SameOrder(a, x, S)
  <2> HIDE DEF C
  <2>1. a \in Seq(Nat) /\ IsInjective(a)
    BY <1>1, PickedRows
  <2>2. \A v : v \in ToSet(a) <=> v \in C /\ v \in ToSet(x)
    BY <1>1, PickedRows
  <2>3. \A S \in SUBSET C : SameOrder(x, a, S) /\ SameOrder(a, x, S)
    BY <1>1, PickedRows
  <2> QED
    BY <2>1, <2>2, <2>3
<1>6. /\ b \in Seq(Nat) /\ IsInjective(b)
      /\ \A v : v \in ToSet(b) <=> v \in C /\ v \in ToSet(y)
      /\ \A S \in SUBSET C : SameOrder(y, b, S) /\ SameOrder(b, y, S)
  <2> HIDE DEF C
  <2>1. b \in Seq(Nat) /\ IsInjective(b)
    BY <1>2, PickedRows
  <2>2. \A v : v \in ToSet(b) <=> v \in C /\ v \in ToSet(y)
    BY <1>2, PickedRows
  <2>3. \A S \in SUBSET C : SameOrder(y, b, S) /\ SameOrder(b, y, S)
    BY <1>2, PickedRows
  <2> QED
    BY <2>1, <2>2, <2>3
<1>7. ToSet(a) = C /\ ToSet(b) = C
  BY <1>5, <1>6
<1>8. Permuted(a, b)
  <2>1. Cardinality(ToSet(a)) = Len(a) /\ Cardinality(ToSet(b)) = Len(b)
    BY <1>5, <1>6, RowsCount
  <2> QED
    BY <1>5, <1>6, <1>7, <2>1 DEF Permuted
<1>9. A = B /\ SameOrder(x, y, K)
  <2>1. CASE in_table_order
    <3>1. A = {} /\ B = {}
      BY <1>3, <2>1
    <3> HIDE DEF K
    <3>2. SameOrder(x, y, K)
      BY <2>1, SameTableOrder
    <3> QED
      BY <3>1, <3>2
  <2>2. CASE ~in_table_order
    <3>1. MovedRows(a, b, moved)
      <4> HIDE DEF M
      <4> QED
        BY <1>3, <1>8, <2>2, SortedMoves
    <3>2. \A v : (\E i \in moved.a : v = a[i + 1]) <=> (\E j \in moved.b : v = b[j + 1])
      BY <3>1 DEF MovedRows
    <3>3. A = B
      BY <3>2, Zenon
    <3>4. K = {v \in ToSet(a) : ~\E i \in moved.a : v = a[i + 1]}
      BY <1>7
    <3>5. SameOrder(a, b, K)
      BY <3>1, <3>4 DEF MovedRows
    <3>6. K \in SUBSET C /\ K \in SUBSET ToSet(a) /\ K \in SUBSET ToSet(b)
      BY <1>7
    <3> HIDE DEF K, C, A, B
    <3>7. SameOrder(x, a, K) /\ SameOrder(b, y, K)
      BY <1>5, <1>6, <3>6
    <3>8. SameOrder(x, b, K)
      BY <1>5, <1>6, <3>5, <3>6, <3>7, SameOrderCompose
    <3>9. SameOrder(x, y, K)
      BY <1>6, <3>6, <3>7, <3>8, SameOrderCompose
    <3> QED
      BY <3>3, <3>9
  <2> QED
    BY <2>1, <2>2
<1>10. PICK n \in Nat : n = Len(x) /\ DOMAIN x = 1 .. n
  BY RowsLen
<1>11. PICK l \in Nat : l = Len(y) /\ DOMAIN y = 1 .. l
  BY RowsLen
<1>12. ASSUME NEW i \in 0 .. Len(x) - 1 PROVE x[i + 1] \in ToSet(x)
  <2>1. i + 1 \in DOMAIN x
    BY <1>10
  <2> QED
    BY <2>1 DEF ToSet
<1>13. ASSUME NEW j \in 0 .. Len(y) - 1 PROVE y[j + 1] \in ToSet(y)
  <2>1. j + 1 \in DOMAIN y
    BY <1>11
  <2> QED
    BY <2>1 DEF ToSet
<1>14. K \in SUBSET ToSet(x) /\ K \subseteq ToSet(y)
  OBVIOUS
<1>15. D = {i \in 0 .. Len(x) - 1 : x[i + 1] \notin K}
  <2> HIDE DEF A, B
  <2>1. \A i \in 0 .. Len(x) - 1 : x[i + 1] \in (ToSet(x) \ C) \cup A <=> x[i + 1] \notin K
    BY <1>12
  <2> QED
    BY <2>1
<1>16. I = {j \in 0 .. Len(y) - 1 : y[j + 1] \notin K}
  <2> HIDE DEF A, B
  <2>1. \A j \in 0 .. Len(y) - 1 : y[j + 1] \in (ToSet(y) \ C) \cup B <=> y[j + 1] \notin K
    BY <1>9, <1>13
  <2> QED
    BY <2>1
<1>17. M \subseteq 0 .. Len(y) - 1 /\ \A j \in 0 .. Len(y) - 1 : j \in M <=> y[j + 1] \in C /\ y[j + 1] \in changed
  OBVIOUS
<1> HIDE DEF D, I, M
<1>18. Turns(D, I, x, y)
  <2> HIDE DEF K
  <2> QED
    BY <1>9, <1>14, <1>15, <1>16, TurnsIfSameOrder
<1>19. PICK c : c = calculate(x, y, changed, in_table_order)
  OBVIOUS
<1>20. c = [deletions |-> D, insertions |-> I, modifications |-> M, moves |-> <<>>]
  BY <1>4, <1>19 DEF NoChanges
<1>21. D \subseteq Nat /\ I \subseteq Nat /\ M \subseteq Nat
  BY <1>10, <1>11, <1>17, <1>18 DEF Turns
<1>22. c \in ChangeRec
  BY <1>18, <1>20, <1>21 DEF ChangeRec
<1>23. Right(c, x, y)
  BY <1>18, <1>20, <1>22, NoMoves DEF Right
<1>24. Told(c.modifications, c.insertions, c.moves, y, changed)
  <2>1. ~\E m \in ToSet(c.moves) : TRUE
    BY <1>20, NoMoves
  <2>2. \A j \in 0 .. Len(y) - 1 : j \notin I => y[j + 1] \in C
    BY <1>16
  <2> QED
    BY <1>17, <1>20, <2>1, <2>2 DEF Told
<1> QED
  BY <1>19, <1>23, <1>24 DEF Exact

-----------------------------------------------------------------------------
(* No changes: of rows that stay as they are.                               *)
LEMMA NothingIsExact ==
  ASSUME NEW x \in Seq(Nat)
  PROVE  Exact(NoChanges, x, x, {})
<1>1. NoChanges.deletions = {} /\ NoChanges.insertions = {} /\ NoChanges.modifications = {} /\ NoChanges.moves = <<>>
  BY DEF NoChanges
<1>2. \A k \in Nat : shift({}, k) = k
  BY OnePosition
<1>3. Turns({}, {}, x, x)
  BY <1>2 DEF Turns, SameRows
<1>4. NoChanges \in ChangeRec
  BY DEF NoChanges, ChangeRec
<1>5. Right(NoChanges, x, x)
  BY <1>1, <1>3, <1>4, NoMoves DEF Right
<1>6. Told({}, {}, <<>>, x, {})
  BY DEF Told
<1> QED
  BY <1>1, <1>5, <1>6 DEF Exact

(* The rows that a query may return.                                        *)
LEMMA RunsAre ==
  ASSUME keys \in Nat, NEW rs \in Runs
  PROVE  rs \in Seq(Nat) /\ IsInjective(rs) /\ Len(NewOnes(rs)) \in Nat
<1>1. MaxResultRows \in Nat
  BY ChangesAssumption
<1>2. rs \in SeqOf(1 .. keys + MaxResultRows, MaxResultRows) /\ IsInjective(rs)
  BY DEF Runs
<1>3. PICK m \in 0 .. MaxResultRows : rs \in [1 .. m -> 1 .. keys + MaxResultRows]
  BY <1>2 DEF SeqOf
<1>4. m \in Nat /\ 1 .. keys + MaxResultRows \subseteq Nat
  BY <1>1
<1>5. rs \in Seq(Nat)
  BY <1>3, <1>4
<1> DEFINE C == {v \in Nat : v > keys}
<1>6. {k \in DOMAIN rs : rs[k] > keys} = {k \in DOMAIN rs : rs[k] \in C}
  <2>1. \A k \in DOMAIN rs : rs[k] > keys <=> rs[k] \in C
    BY <1>5
  <2> HIDE DEF C
  <2> QED
    BY <2>1
<1>7. NewOnes(rs) = RowsIn(rs, C)
  BY <1>6, Zenon DEF NewOnes, RowsIn
<1> HIDE DEF C
<1>8. NewOnes(rs) \in Seq(Nat)
  BY <1>2, <1>5, <1>7, PickedRows
<1> QED
  BY <1>2, <1>5, <1>8

-----------------------------------------------------------------------------
(* The inductive invariant: rows are told apart, those made last are the    *)
(* greatest of a list, and both changes are exact.                          *)
AreRows(rs) == rs \in Seq(Nat) /\ IsInjective(rs)

ChangesInv ==
  /\ keys \in Nat
  /\ AreRows(seen) /\ AreRows(before) /\ AreRows(rows)
  /\ kind = "list" => \A k \in DOMAIN rows : rows[k] <= keys
  /\ Exact(accumulated, seen, before, touchedBefore)
  /\ Exact(changes, before, rows, touched)

LEMMA InvInit == Init => ChangesInv
<1> SUFFICES ASSUME Init PROVE ChangesInv
  OBVIOUS
<1>1. keys \in Nat
  BY ChangesAssumption DEF Init
<1>2. seen = [k \in 1 .. keys |-> k] /\ before = seen /\ rows = seen
  BY DEF Init
<1>3. seen \in Seq(Nat) /\ IsInjective(seen)
  BY <1>1, <1>2 DEF IsInjective
<1>4. \A k \in DOMAIN seen : seen[k] <= keys
  BY <1>1, <1>2
<1>5. Exact(NoChanges, seen, seen, {})
  BY <1>3, NothingIsExact
<1>6. changes = NoChanges /\ accumulated = NoChanges /\ touched = {} /\ touchedBefore = {}
  BY DEF Init
<1> QED
  BY <1>1, <1>2, <1>3, <1>4, <1>5, <1>6 DEF ChangesInv, AreRows

(* An instruction for a list keeps what is known since the last callback.   *)
LEMMA InstructionKeeps ==
  ASSUME ChangesInv, UNCHANGED BetweenCallbacks, keys' \in Nat, rows' \in Seq(Nat), IsInjective(rows'),
         kind = "list" => \A k \in DOMAIN rows' : rows'[k] <= keys',
         Exact(changes', before, rows', touched')
  PROVE  ChangesInv'
BY DEF ChangesInv, BetweenCallbacks, AreRows

LEMMA SetKeeps == ASSUME ChangesInv, NEW i \in Positions, list_set(i) PROVE ChangesInv'
<1>1. /\ rows' = rows /\ keys' = keys /\ UNCHANGED BetweenCallbacks /\ i < Len(rows)
      /\ touched' = touched \cup {rows[i + 1]} /\ changes' = modify(changes, i)
  BY DEF list_set
<1>2. /\ rows \in Seq(Nat) /\ IsInjective(rows) /\ keys \in Nat
      /\ Exact(changes, before, rows, touched) /\ before \in Seq(Nat)
      /\ kind = "list" => \A k \in DOMAIN rows : rows[k] <= keys
  BY DEF ChangesInv, AreRows
<1>3. i \in Nat
  BY DEF Positions
<1>4. Exact(changes', before, rows', touched')
  BY <1>1, <1>2, <1>3, ModifyIsExact
<1> QED
  BY <1>1, <1>2, <1>4, InstructionKeeps

LEMMA InsertKeeps == ASSUME ChangesInv, NEW i \in Positions, list_insert(i) PROVE ChangesInv'
<1>1. /\ keys' = keys + 1 /\ UNCHANGED BetweenCallbacks /\ i <= Len(rows)
      /\ rows' = InsertAt(rows, i + 1, keys') /\ touched' = touched /\ changes' = insert(changes, i)
  BY DEF list_insert
<1>2. /\ rows \in Seq(Nat) /\ IsInjective(rows) /\ keys \in Nat
      /\ Exact(changes, before, rows, touched) /\ before \in Seq(Nat)
      /\ \A k \in DOMAIN rows : rows[k] <= keys
  BY DEF ChangesInv, AreRows, list_insert, Instruction
<1>3. i \in 0 .. Len(rows)
  BY <1>1, <1>2, RowsLen DEF Positions
<1>4. PICK key \in Nat : key = keys' /\ \A k \in DOMAIN rows : rows[k] < key
  <2>1. \A k \in DOMAIN rows : rows[k] \in Nat
    BY <1>2
  <2> QED
    BY <1>1, <1>2, <2>1
<1>5. Exact(changes', before, rows', touched')
  BY <1>1, <1>2, <1>3, <1>4, InsertIsExact
<1>6. rows' \in Seq(Nat) /\ IsInjective(rows') /\ \A k \in DOMAIN rows' : rows'[k] <= key
  BY <1>1, <1>2, <1>3, <1>4, InjectiveInsert
<1> QED
  BY <1>1, <1>4, <1>5, <1>6, InstructionKeeps

LEMMA EraseKeeps == ASSUME ChangesInv, NEW i \in Positions, list_erase(i) PROVE ChangesInv'
<1>1. /\ keys' = keys /\ UNCHANGED BetweenCallbacks /\ i < Len(rows)
      /\ rows' = RemoveAt(rows, i + 1) /\ touched' = touched /\ changes' = erase(changes, i)
  BY DEF list_erase
<1>2. /\ rows \in Seq(Nat) /\ IsInjective(rows) /\ keys \in Nat
      /\ Exact(changes, before, rows, touched) /\ before \in Seq(Nat)
      /\ \A k \in DOMAIN rows : rows[k] <= keys
  BY DEF ChangesInv, AreRows, list_erase, Instruction
<1>3. i \in Nat
  BY DEF Positions
<1>4. Exact(changes', before, rows', touched')
  BY <1>1, <1>2, <1>3, EraseIsExact
<1>5. rows' \in Seq(Nat) /\ IsInjective(rows') /\ \A k \in DOMAIN rows' : rows'[k] <= keys
  BY <1>1, <1>2, <1>3, InjectiveRemove
<1> QED
  BY <1>1, <1>2, <1>4, <1>5, InstructionKeeps

LEMMA MoveKeeps ==
  ASSUME ChangesInv, NEW i \in Positions, NEW j \in Positions, list_move(i, j) PROVE ChangesInv'
<1>1. /\ keys' = keys /\ UNCHANGED BetweenCallbacks /\ i < Len(rows) /\ j < Len(rows)
      /\ rows' = Moved(rows, i, j) /\ touched' = touched /\ changes' = move(changes, i, j)
  BY DEF list_move, Moved
<1>2. /\ rows \in Seq(Nat) /\ IsInjective(rows) /\ keys \in Nat
      /\ Exact(changes, before, rows, touched) /\ before \in Seq(Nat)
      /\ \A k \in DOMAIN rows : rows[k] <= keys
  BY DEF ChangesInv, AreRows, list_move, Instruction
<1>3. i \in Nat /\ j \in Nat
  BY DEF Positions
<1>4. Exact(changes', before, rows', touched')
  BY <1>1, <1>2, <1>3, MoveIsExact
<1>5. rows' \in Seq(Nat) /\ IsInjective(rows') /\ \A k \in DOMAIN rows' : rows'[k] <= keys
  BY <1>1, <1>2, <1>3, InjectiveMove
<1> QED
  BY <1>1, <1>2, <1>4, <1>5, InstructionKeeps

LEMMA SwapKeeps ==
  ASSUME ChangesInv, NEW i \in Positions, NEW j \in Positions, list_swap(i, j) PROVE ChangesInv'
<1>1. /\ keys' = keys /\ UNCHANGED BetweenCallbacks /\ i < j /\ j < Len(rows)
      /\ rows' = Swapped(rows, i, j) /\ touched' = touched
      /\ changes' = IF i + 1 = j THEN move(changes, i, j) ELSE move(move(changes, i, j), j - 1, i)
  BY DEF list_swap, Swapped
<1>2. /\ rows \in Seq(Nat) /\ IsInjective(rows) /\ keys \in Nat
      /\ Exact(changes, before, rows, touched) /\ before \in Seq(Nat)
      /\ \A k \in DOMAIN rows : rows[k] <= keys
  BY DEF ChangesInv, AreRows, list_swap, Instruction
<1>3. i \in Nat /\ j \in Nat
  BY DEF Positions
<1>4. Exact(changes', before, rows', touched')
  BY <1>1, <1>2, <1>3, SwapIsExact
<1>5. rows' \in Seq(Nat) /\ IsInjective(rows') /\ \A k \in DOMAIN rows' : rows'[k] <= keys
  BY <1>1, <1>2, <1>3, InjectiveSwap
<1> QED
  BY <1>1, <1>2, <1>4, <1>5, InstructionKeeps

LEMMA ClearKeeps == ASSUME ChangesInv, list_clear PROVE ChangesInv'
<1>1. /\ keys' = keys /\ UNCHANGED BetweenCallbacks
      /\ rows' = <<>> /\ touched' = touched /\ changes' = clear(changes, Len(rows))
  BY DEF list_clear
<1>2. /\ rows \in Seq(Nat) /\ keys \in Nat
      /\ Exact(changes, before, rows, touched) /\ before \in Seq(Nat)
  BY DEF ChangesInv, AreRows
<1>3. Exact(changes', before, rows', touched')
  BY <1>1, <1>2, ClearIsExact
<1>4. rows' \in Seq(Nat) /\ IsInjective(rows') /\ \A k \in DOMAIN rows' : rows'[k] <= keys
  BY <1>1 DEF IsInjective
<1> QED
  BY <1>1, <1>2, <1>3, <1>4, InstructionKeeps

(* In a transaction that has no changes yet the rows are as before.         *)
LEMMA CalculateKeeps == ASSUME ChangesInv, calculate_changes PROVE ChangesInv'
<1>1. /\ rows \in Seq(Nat) /\ IsInjective(rows) /\ keys \in Nat
      /\ Exact(NoChanges, before, rows, {}) /\ before \in Seq(Nat)
  BY DEF ChangesInv, AreRows, calculate_changes
<1>2. PICK next_rows \in Runs, changed \in SUBSET ToSet(rows), in_table_order \in BOOLEAN :
        /\ in_table_order => InTableOrder(rows) /\ InTableOrder(next_rows)
        /\ keys' = keys + Len(NewOnes(next_rows))
        /\ rows' = next_rows /\ touched' = changed
        /\ changes' = calculate(rows, next_rows, changed, in_table_order)
  BY DEF calculate_changes
<1>3. next_rows \in Seq(Nat) /\ IsInjective(next_rows) /\ Len(NewOnes(next_rows)) \in Nat
  BY <1>1, RunsAre
<1>4. before = rows
  <2>1. Turns({}, {}, before, rows)
    BY <1>1 DEF Exact, Right, NoChanges
  <2> QED
    BY <1>1, <2>1, NothingTurns
<1>5. Exact(changes', before, rows', touched')
  BY <1>1, <1>2, <1>3, <1>4, CalculateIsExact
<1>6. keys' \in Nat /\ rows' \in Seq(Nat) /\ IsInjective(rows')
  BY <1>1, <1>2, <1>3
<1>7. UNCHANGED BetweenCallbacks /\ kind # "list"
  BY DEF calculate_changes
<1> QED
  BY <1>5, <1>6, <1>7, InstructionKeeps

LEMMA AddKeeps == ASSUME ChangesInv, add_changes PROVE ChangesInv'
<1>1. /\ rows \in Seq(Nat) /\ IsInjective(rows) /\ before \in Seq(Nat) /\ IsInjective(before)
      /\ seen \in Seq(Nat) /\ IsInjective(seen) /\ keys \in Nat
      /\ kind = "list" => \A k \in DOMAIN rows : rows[k] <= keys
      /\ Exact(accumulated, seen, before, touchedBefore) /\ Exact(changes, before, rows, touched)
  BY DEF ChangesInv, AreRows
<1>2. PICK c : c = IF kind = "list" THEN clean_up_stale_moves(changes) ELSE changes
  OBVIOUS
<1>3. /\ accumulated' = merge(accumulated, c) /\ before' = rows /\ touchedBefore' = touchedBefore \cup touched
      /\ changes' = NoChanges /\ touched' = {} /\ UNCHANGED <<kind, seen, rows, keys>>
  BY <1>2 DEF add_changes
<1>4. Exact(c, before, rows, touched)
  <2>1. Right(changes, before, rows) /\ Told(changes.modifications, changes.insertions, changes.moves, rows, touched)
    BY <1>1 DEF Exact
  <2>2. PICK d : d = clean_up_stale_moves(changes)
    OBVIOUS
  <2>3. Right(d, before, rows) /\ d.modifications = changes.modifications
    BY <1>1, <2>1, <2>2, CleanUpIsRight
  <2>4. \A M, T : Told(M, changes.insertions, changes.moves, rows, T)
                    => Told(M, d.insertions, d.moves, rows, T)
    BY <1>1, <2>1, <2>2, CleanUpIsRight
  <2>5. Exact(d, before, rows, touched)
    BY <2>1, <2>3, <2>4 DEF Exact
  <2> QED
    BY <1>1, <1>2, <2>2, <2>5
<1>5. Exact(accumulated', seen', before', touchedBefore')
  BY <1>1, <1>3, <1>4, MergeIsExact
<1>6. Exact(changes', before', rows', touched')
  BY <1>1, <1>3, NothingIsExact
<1> QED
  BY <1>1, <1>3, <1>5, <1>6 DEF ChangesInv, AreRows

LEMMA InvNext == ChangesInv /\ [Next]_vars => ChangesInv'
<1> SUFFICES ASSUME ChangesInv, [Next]_vars PROVE ChangesInv'
  OBVIOUS
<1>1. ASSUME NEW i \in Positions, list_set(i) PROVE ChangesInv'
  BY <1>1, SetKeeps
<1>2. ASSUME NEW i \in Positions, list_insert(i) PROVE ChangesInv'
  BY <1>2, InsertKeeps
<1>3. ASSUME NEW i \in Positions, list_erase(i) PROVE ChangesInv'
  BY <1>3, EraseKeeps
<1>4. ASSUME NEW i \in Positions, NEW j \in Positions, list_move(i, j) PROVE ChangesInv'
  BY <1>4, MoveKeeps
<1>5. ASSUME NEW i \in Positions, NEW j \in Positions, list_swap(i, j) PROVE ChangesInv'
  BY <1>5, SwapKeeps
<1>6. CASE list_clear
  BY <1>6, ClearKeeps
<1>7. CASE calculate_changes
  BY <1>7, CalculateKeeps
<1>8. CASE add_changes
  BY <1>8, AddKeeps
<1>9. CASE UNCHANGED vars
  BY <1>9 DEF ChangesInv, vars
<1> QED
  BY <1>1, <1>2, <1>3, <1>4, <1>5, <1>6, <1>7, <1>8, <1>9 DEF Next

LEMMA InvAlways == Spec => []ChangesInv
<1>1. Init => ChangesInv
  BY InvInit
<1>2. ChangesInv /\ [Next]_vars => ChangesInv'
  BY InvNext
<1> QED
  BY <1>1, <1>2, PTL DEF Spec

(* What the invariant says of both changes.                                 *)
LEMMA InvSays == ChangesInv => ChangesAreRight /\ MovesAreRight /\ ModificationsAreRight
<1> SUFFICES ASSUME ChangesInv PROVE ChangesAreRight /\ MovesAreRight /\ ModificationsAreRight
  OBVIOUS
<1>1. /\ rows \in Seq(Nat) /\ IsInjective(rows) /\ before \in Seq(Nat) /\ IsInjective(before)
      /\ seen \in Seq(Nat) /\ IsInjective(seen)
      /\ Exact(accumulated, seen, before, touchedBefore) /\ Exact(changes, before, rows, touched)
  BY DEF ChangesInv, AreRows
<1>2. /\ TurnsInto(accumulated, seen, before) /\ MovesOf(accumulated, seen, before)
      /\ ModificationsOf(accumulated, seen, before, touchedBefore)
  BY <1>1, ExactSays
<1>3. /\ TurnsInto(changes, before, rows) /\ MovesOf(changes, before, rows)
      /\ ModificationsOf(changes, before, rows, touched)
  BY <1>1, ExactSays
<1> QED
  BY <1>2, <1>3 DEF ChangesAreRight, MovesAreRight, ModificationsAreRight

(* CollectionChangeBuilder: whatever the instructions, the runs of a query  *)
(* and the transactions, taking away the deletions and putting in the       *)
(* insertions turns the rows the callback saw into the rows there are.      *)
THEOREM ChangesAlwaysRight == Spec => []ChangesAreRight
<1>1. ChangesInv => ChangesAreRight
  BY InvSays
<1> QED
  BY <1>1, InvAlways, PTL

(* clean_up_stale_moves, merge and the instructions keep every move told of *)
(* a move of one row, from where it was to where it is, told once.          *)
THEOREM MovesAlwaysRight == Spec => []MovesAreRight
<1>1. ChangesInv => MovesAreRight
  BY InvSays
<1> QED
  BY <1>1, InvAlways, PTL

(* finalize: a callback is given the modified rows that neither came nor    *)
(* moved, where they were and where they are, and no others.                *)
THEOREM ModificationsAlwaysRight == Spec => []ModificationsAreRight
<1>1. ChangesInv => ModificationsAreRight
  BY InvSays
<1> QED
  BY <1>1, InvAlways, PTL

(* find_longest_match: what it asserts of the best match, that it is in the *)
(* range being searched, and that its rows are the same in both runs.       *)
THEOREM LongestMatchIsAMatch ==
  ASSUME NEW a, NEW b, Permuted(a, b), NEW mods, NEW w \in Windows(Len(a)),
         NEW m, m = find_longest_match(a, b, mods, w), m.size # 0
  PROVE  /\ w.begin1 <= m.i /\ m.i + m.size <= w.end1
         /\ w.begin2 <= m.j /\ m.j + m.size <= w.end2
         /\ \A k \in Nat : k < m.size => a[(m.i + k) + 1] = b[(m.j + k) + 1]
<1>1. m \in MatchRec(mods) /\ GoodMatch(a, b, m, w, w.end1)
  BY WindowsAre
<1>2. m.size > 0
  BY <1>1 DEF MatchRec
<1> QED
  BY <1>1, <1>2 DEF GoodMatch

(* CollectionChangeBuilder::calculate: of any two runs of a query, in which *)
(* a row comes once, whichever matches the longest common subsequences are  *)
(* made of, the changes turn the rows of the one into those of the other    *)
(* and say which of them were modified.                                     *)
THEOREM CalculateIsRight ==
  ASSUME NEW x \in Seq(Nat), NEW y \in Seq(Nat), IsInjective(x), IsInjective(y), NEW changed,
         NEW in_table_order, in_table_order => InTableOrder(x) /\ InTableOrder(y)
  PROVE  /\ TurnsInto(calculate(x, y, changed, in_table_order), x, y)
         /\ ModificationsOf(calculate(x, y, changed, in_table_order), x, y, changed)
<1>1. PICK c : c = calculate(x, y, changed, in_table_order)
  OBVIOUS
<1>2. Exact(c, x, y, changed)
  BY <1>1, CalculateIsExact
<1>3. TurnsInto(c, x, y) /\ ModificationsOf(c, x, y, changed)
  BY <1>2, ExactSays
<1> QED
  BY <1>1, <1>3
=============================================================================
