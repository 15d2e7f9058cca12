--------------------------- MODULE SwipeTableProofs ---------------------------
(***************************************************************************)
(* The table for any number of cells, items, rows, fingers and unfinished   *)
(* deletions.  IInv (the cells): a cell becomes active only where it has an *)
(* actions view, and loses that view only in reset, which takes it to the   *)
(* centre.  SInv (the screen): the rows are a window on the items, each row *)
(* in a cell of its own.  CInv: an expanded view is off rest, and a dragged *)
(* cell has no animator to end it.  From the three follow the properties of *)
(* the table and, step by step, the refinement of SwipeToDelete.            *)
(***************************************************************************)
EXTENDS SwipeTable, SequenceTheorems, TLAPS

OverCells(st, av) == /\ st = [c \in Cells |-> st[c]]
                     /\ av = [c \in Cells |-> av[c]]
                     /\ \A c \in Cells : st[c] # "center" => av[c] # "none"

IInv == OverCells(state, actionsView)

(* reset, of whichever cells, keeps the pairing of the values it is given.  *)
LEMMA ResetInv ==
  ASSUME NEW D, NEW st, NEW av, OverCells(st, av), reset(D, st, av)
  PROVE  IInv'
BY DEF OverCells, IInv, reset

(* deleteRows resets the cell it dequeues and no other.                     *)
LEMMA DeleteRowsInv ==
  ASSUME NEW r, NEW st, NEW av, OverCells(st, av), deleteRows(r, st, av)
  PROVE  IInv'
BY ResetInv DEF deleteRows

(* The fill action expands the actions view before anything else.           *)
LEMMA PerformInv ==
  ASSUME NEW c \in Cells, NEW st, st = [d \in Cells |-> st[d]],
         \A d \in Cells \ {c} : st[d] # "center" => actionsView[d] # "none",
         IInv, perform(c, st)
  PROVE  IInv'
<1> DEFINE av == [actionsView EXCEPT ![c] = "expanded"]
<1>1. OverCells(st, av)
  BY DEF OverCells, IInv
<1>2. CASE c \in Visible
  <2>1. PICK r \in DOMAIN rows : deleteRows(r, st, av)
    BY <1>2 DEF perform
  <2> QED  BY <1>1, <2>1, DeleteRowsInv
<1>3. CASE c \notin Visible
  <2>1. state' = st /\ actionsView' = av
    BY <1>3 DEF perform
  <2> QED  BY <1>1, <2>1 DEF IInv, OverCells
<1> QED  BY <1>2, <1>3

(* hideSwipe gives up on a cell without an actions view.                    *)
LEMMA HideSwipeInv ==
  ASSUME NEW S, IInv, hideSwipe(S), UNCHANGED actionsView
  PROVE  IInv'
BY DEF IInv, OverCells, hideSwipe, Open

(* One step per action: those that only move the cells' states by the       *)
(* operators above, and the rest, which touch one cell.                     *)
LEMMA NextInv == IInv /\ [Next]_vars => IInv'
<1> SUFFICES ASSUME IInv, [Next]_vars PROVE IInv'
  OBVIOUS
<1>1. ASSUME NEW c \in Cells, touchDown(c) PROVE IInv'
  <2>1. CASE hideSwipe(Visible)
    BY <1>1, <2>1, HideSwipeInv DEF touchDown
  <2>2. CASE UNCHANGED <<state, animator>>
    BY <1>1, <2>2 DEF touchDown, IInv, OverCells
  <2> QED  BY <1>1, <2>1, <2>2 DEF touchDown
<1>2. ASSUME NEW c \in Cells, lift(c) PROVE IInv'
  BY <1>2 DEF lift, IInv, OverCells
<1>3. ASSUME NEW c \in Cells, tap(c) PROVE IInv'
  <2>1. CASE hideSwipe({c}) /\ UNCHANGED actionsView
    BY <2>1, HideSwipeInv
  <2>2. CASE reloadData
    <3>1. PICK D : reset(D, state, actionsView)
      BY <2>2 DEF reloadData
    <3> QED  BY <3>1, ResetInv DEF IInv
  <2> QED  BY <1>3, <2>1, <2>2 DEF tap
<1>4. ASSUME NEW c \in Cells, actionTapped(c) PROVE IInv'
  <2>1. perform(c, state)
    BY <1>4 DEF actionTapped
  <2> QED  BY <2>1, PerformInv DEF IInv, OverCells
<1>5. ASSUME NEW c \in Cells, animatorDone(c) PROVE IInv'
  BY <1>5, ResetInv DEF animatorDone, IInv
<1>6. ASSUME NEW c \in Cells, deletionDone(c) PROVE IInv'
  BY <1>6, ResetInv DEF deletionDone, IInv
<1>7. ASSUME NEW c \in Cells, NEW toLeft \in BOOLEAN, panBegan(c, toLeft) PROVE IInv'
  BY <1>7 DEF panBegan, IInv, OverCells
<1>8. ASSUME NEW c \in Cells, NEW toLeft \in BOOLEAN, NEW centred \in BOOLEAN,
             panEnded(c, toLeft, centred)
      PROVE  IInv'
  <2> DEFINE st == [state EXCEPT ![c] = targetState(c, toLeft)]
  <2>1. CASE UNCHANGED <<state, actionsView>>
    BY <2>1 DEF IInv, OverCells
  <2>2. CASE perform(c, st)
    <3>1. st = [d \in Cells |-> st[d]]
      BY DEF IInv, OverCells
    <3>2. \A d \in Cells \ {c} : st[d] # "center" => actionsView[d] # "none"
      BY DEF IInv, OverCells
    <3> HIDE DEF st
    <3> QED  BY <2>2, <3>1, <3>2, PerformInv
  <2>3. CASE ~nothingToEnd(c, centred) /\ state' = st /\ UNCHANGED actionsView
    BY <2>3 DEF IInv, OverCells, nothingToEnd
  <2> QED  BY <1>8, <2>1, <2>2, <2>3 DEF panEnded
<1>9. ASSUME NEW c \in Cells, NEW expanded \in BOOLEAN, NEW jump \in BOOLEAN,
             panChanged(c, expanded, jump)
      PROVE  IInv'
  BY <1>9 DEF panChanged, IInv, OverCells
<1>10. ASSUME NEW down \in BOOLEAN, scroll(down) PROVE IInv'
  <2>1. PICK d : reset({d}, state, actionsView)
    BY <1>10 DEF scroll
  <2> QED  BY <2>1, ResetInv DEF IInv
<1>11. ASSUME NEW x \in Items, NEW i, saveData(x, i) PROVE IInv'
  <2>1. PICK D : reset(D, state, actionsView)
    BY <1>11 DEF saveData, reloadData
  <2> QED  BY <2>1, ResetInv DEF IInv
<1>12. CASE handleTablePan
  BY <1>12, HideSwipeInv DEF handleTablePan
<1>13. CASE UNCHANGED vars
  BY <1>13 DEF vars, cellVars, IInv, OverCells
<1> QED
  BY <1>1, <1>2, <1>3, <1>4, <1>5, <1>6, <1>7, <1>8, <1>9, <1>10, <1>11, <1>12, <1>13 DEF Next

(* No cell is ever off its resting position without an actions view to      *)
(* close it by, so the table never stops reacting, with any number of       *)
(* cells, items, rows on the screen, fingers and unfinished deletions.      *)
THEOREM NeverStuck == Spec => []NeverStuckOpen
<1>1. Init => IInv
  BY DEF Init, IInv, OverCells
<1>2. IInv => NeverStuckOpen
  BY DEF IInv, OverCells, NeverStuckOpen, IsActive
<1> QED  BY <1>1, <1>2, NextInv, PTL DEF Spec
------------------------------------------------------------------------------
(* What the sequence operators return, element by element: u is s with an   *)
(* element more.                                                            *)
Inserted(u, S, s, i, x) ==
  /\ u \in Seq(S) /\ Len(u) = Len(s) + 1
  /\ \A j \in 1 .. Len(s) + 1 :
       u[j] = IF j < i THEN s[j] ELSE IF j = i THEN x ELSE s[j - 1]

LEMMA RemoveAtSeq ==
  ASSUME NEW S, NEW s \in Seq(S), NEW i \in 1 .. Len(s)
  PROVE  /\ RemoveAt(s, i) \in Seq(S)
         /\ Len(RemoveAt(s, i)) = Len(s) - 1
         /\ \A j \in 1 .. Len(s) - 1 :
              RemoveAt(s, i)[j] = IF j < i THEN s[j] ELSE s[j + 1]
<1> DEFINE a == SubSeq(s, 1, i - 1)
           b == SubSeq(s, i + 1, Len(s))
<1>1. /\ a \in Seq(S) /\ Len(a) = i - 1
      /\ \A j \in 1 .. i - 1 : a[j] = s[j]
  OBVIOUS
<1>2. /\ b \in Seq(S) /\ Len(b) = Len(s) - i
      /\ \A j \in 1 .. Len(s) - i : b[j] = s[i + j]
  OBVIOUS
<1>3. RemoveAt(s, i) = a \o b
  BY DEF RemoveAt
<1> HIDE DEF a, b
<1>4. a \o b \in Seq(S) /\ Len(a \o b) = Len(s) - 1
  <2>1. a \o b \in Seq(S) /\ Len(a \o b) = Len(a) + Len(b)
    BY <1>1, <1>2, ConcatProperties
  <2>2. Len(s) \in Nat /\ i \in Nat
    OBVIOUS
  <2> QED  BY <1>1, <1>2, <2>1, <2>2
<1>5. ASSUME NEW j \in 1 .. Len(s) - 1
      PROVE  (a \o b)[j] = IF j < i THEN s[j] ELSE s[j + 1]
  <2>0. (a \o b)[j] = IF j =< i - 1 THEN a[j] ELSE b[j - (i - 1)]
    <3>1. j \in 1 .. Len(a) + Len(b)
      BY <1>1, <1>2
    <3>2. a \in Seq(S) /\ b \in Seq(S)
      BY <1>1, <1>2
    <3>3. (a \o b)[j] = IF j =< Len(a) THEN a[j] ELSE b[j - Len(a)]
      BY <3>1, <3>2, ConcatProperties
    <3> QED  BY <1>1, <3>3
  <2>1. CASE j < i
    BY <1>1, <2>0, <2>1
  <2>2. CASE j >= i
    <3>1. (a \o b)[j] = b[j - (i - 1)]
      BY <2>0, <2>2
    <3>2. j - (i - 1) \in 1 .. Len(s) - i
      BY <2>2
    <3>3. b[j - (i - 1)] = s[i + (j - (i - 1))]
      BY <1>2, <3>2
    <3> QED  BY <2>2, <3>1, <3>3
  <2>3. j < i \/ j >= i
    <3>1. i \in Int /\ j \in Int
      OBVIOUS
    <3> QED  BY <3>1
  <2> QED  BY <2>1, <2>2, <2>3
<1> QED  BY <1>3, <1>4, <1>5

LEMMA InsertAtSeq ==
  ASSUME NEW S, NEW s \in Seq(S), NEW i \in 1 .. Len(s) + 1, NEW x \in S
  PROVE  Inserted(InsertAt(s, i, x), S, s, i, x)
<1> DEFINE a == SubSeq(s, 1, i - 1)
           b == SubSeq(s, i, Len(s))
           ax == a \o <<x>>
<1>1. /\ a \in Seq(S) /\ Len(a) = i - 1
      /\ \A j \in 1 .. i - 1 : a[j] = s[j]
  OBVIOUS
<1>2. /\ b \in Seq(S) /\ Len(b) = Len(s) + 1 - i
      /\ \A j \in 1 .. Len(s) + 1 - i : b[j] = s[i + j - 1]
  OBVIOUS
<1>3. InsertAt(s, i, x) = ax \o b
  BY DEF InsertAt
<1> HIDE DEF a, b
<1>4. /\ ax \in Seq(S) /\ Len(ax) = i
      /\ \A j \in 1 .. i : ax[j] = IF j < i THEN a[j] ELSE x
  <2>1. <<x>> \in Seq(S) /\ Len(<<x>>) = 1 /\ <<x>>[1] = x
    OBVIOUS
  <2> QED  BY <1>1, <2>1, ConcatProperties
<1> HIDE DEF ax
<1>5. ax \o b \in Seq(S) /\ Len(ax \o b) = Len(s) + 1
  <2>1. ax \o b \in Seq(S) /\ Len(ax \o b) = Len(ax) + Len(b)
    BY <1>2, <1>4, ConcatProperties
  <2>2. Len(s) \in Nat /\ i \in Nat
    OBVIOUS
  <2> QED  BY <1>2, <1>4, <2>1, <2>2
<1>6. ASSUME NEW j \in 1 .. Len(s) + 1
      PROVE  (ax \o b)[j] = IF j < i THEN s[j] ELSE IF j = i THEN x ELSE s[j - 1]
  <2>0. (ax \o b)[j] = IF j =< i THEN ax[j] ELSE b[j - i]
    <3>1. j \in 1 .. Len(ax) + Len(b)
      BY <1>2, <1>4
    <3>2. ax \in Seq(S) /\ b \in Seq(S)
      BY <1>2, <1>4
    <3>3. (ax \o b)[j] = IF j =< Len(ax) THEN ax[j] ELSE b[j - Len(ax)]
      BY <3>1, <3>2, ConcatProperties
    <3> QED  BY <1>4, <3>3
  <2>1. CASE j =< i
    BY <1>1, <1>4, <2>0, <2>1
  <2>2. CASE j > i
    <3>1. (ax \o b)[j] = b[j - i]
      BY <2>0, <2>2
    <3>2. j - i \in 1 .. Len(s) + 1 - i
      BY <2>2
    <3>3. b[j - i] = s[i + (j - i) - 1]
      BY <1>2, <3>2
    <3> QED  BY <2>2, <3>1, <3>3
  <2>3. j =< i \/ j > i
    <3>1. i \in Int /\ j \in Int
      OBVIOUS
    <3> QED  BY <3>1
  <2> QED  BY <2>1, <2>2, <2>3
<1>7. Inserted(ax \o b, S, s, i, x)
  BY <1>5, <1>6 DEF Inserted
<1> QED  BY <1>3, <1>7

(* A row more at the bottom, or at the top.                                 *)
LEMMA AppendSeq ==
  ASSUME NEW S, NEW s \in Seq(S), NEW x \in S
  PROVE  /\ Append(s, x) \in Seq(S)
         /\ Len(Append(s, x)) = Len(s) + 1
         /\ \A j \in 1 .. Len(s) + 1 :
              Append(s, x)[j] = IF j =< Len(s) THEN s[j] ELSE x
OBVIOUS

LEMMA PrependSeq ==
  ASSUME NEW S, NEW s \in Seq(S), NEW x \in S
  PROVE  /\ <<x>> \o s \in Seq(S)
         /\ Len(<<x>> \o s) = Len(s) + 1
         /\ \A j \in 1 .. Len(s) + 1 :
              (<<x>> \o s)[j] = IF j = 1 THEN x ELSE s[j - 1]
<1>1. <<x>> \in Seq(S) /\ Len(<<x>>) = 1 /\ <<x>>[1] = x
  OBVIOUS
<1> DEFINE a == <<x>>
<1>2. a \in Seq(S) /\ Len(a) = 1 /\ a[1] = x
  BY <1>1
<1> HIDE DEF a
<1>3. /\ a \o s \in Seq(S) /\ Len(a \o s) = Len(s) + 1
      /\ \A j \in 1 .. Len(s) + 1 : (a \o s)[j] = IF j = 1 THEN x ELSE s[j - 1]
  <2>1. a \o s \in Seq(S) /\ Len(a \o s) = Len(a) + Len(s)
    BY <1>2, ConcatProperties
  <2>2. \A j \in 1 .. Len(a) + Len(s) :
          (a \o s)[j] = IF j =< Len(a) THEN a[j] ELSE s[j - Len(a)]
    BY <1>2, ConcatProperties
  <2>3. Len(s) \in Nat
    OBVIOUS
  <2> QED  BY <1>2, <2>1, <2>2, <2>3
<1> QED  BY <1>3 DEF a

(* A row less at the top, or at the bottom.                                 *)
LEMMA TailSeq ==
  ASSUME NEW S, NEW s \in Seq(S), s # << >>
  PROVE  /\ Tail(s) = RemoveAt(s, 1)
         /\ Front(s) = RemoveAt(s, Len(s))
<1>1. Len(s) \in Nat /\ Len(s) > 0
  BY Z3
<1>2. SubSeq(s, 1, 0) = << >> /\ SubSeq(s, Len(s) + 1, Len(s)) = << >>
  BY <1>1
<1>3. SubSeq(s, 2, Len(s)) \in Seq(S) /\ SubSeq(s, 1, Len(s) - 1) \in Seq(S)
  BY <1>1
<1>4. Tail(s) = SubSeq(s, 2, Len(s))
  BY <1>1
<1>5. Tail(s) = RemoveAt(s, 1)
  BY <1>1, <1>2, <1>3, <1>4 DEF RemoveAt
<1>6. Front(s) = RemoveAt(s, Len(s))
  BY <1>1, <1>2, <1>3 DEF RemoveAt, Front
<1> QED  BY <1>5, <1>6
------------------------------------------------------------------------------
(* The screen.  An item is listed once; a window of rows is well formed if  *)
(* no cell is in two rows and each row shows the item at its index path.    *)
Row == [cell : Cells, item : Items]

Listed(its) == its \in Seq(Items) /\ IsInjective(its)

CellsOf(rs) == {rs[r].cell : r \in 1 .. Len(rs)}

Shown(its, t, rs) ==
  /\ t \in Nat /\ rs \in Seq(Row) /\ t + Len(rs) =< Len(its)
  /\ \A r, q \in 1 .. Len(rs) : rs[r].cell = rs[q].cell => r = q
  /\ \A r \in 1 .. Len(rs) : rs[r].item = its[t + r]

Screen(its, t, rs) ==
  /\ Listed(its) /\ Shown(its, t, rs)
  /\ Len(rs) = Smaller(Height, Len(its))

(* An item less, or one more, leaves the others as they were.               *)
LEMMA RemoveAtListed ==
  ASSUME NEW its, Listed(its), NEW i \in 1 .. Len(its)
  PROVE  /\ Listed(RemoveAt(its, i))
         /\ ToSet(RemoveAt(its, i)) = ToSet(its) \ {its[i]}
<1> DEFINE s == RemoveAt(its, i)
<1>1. /\ s \in Seq(Items) /\ Len(s) = Len(its) - 1
      /\ \A j \in 1 .. Len(its) - 1 : s[j] = IF j < i THEN its[j] ELSE its[j + 1]
  BY RemoveAtSeq DEF Listed
<1> HIDE DEF s
<1>2. /\ Len(its) \in Nat /\ DOMAIN s = 1 .. Len(its) - 1 /\ DOMAIN its = 1 .. Len(its)
      /\ i \in Nat
  BY <1>1 DEF Listed
<1>3. IsInjective(s)
  <2>1. SUFFICES ASSUME NEW a \in 1 .. Len(its) - 1, NEW b \in 1 .. Len(its) - 1,
                        s[a] = s[b]
                 PROVE  a = b
    BY <1>2 DEF IsInjective
  <2>2. \A j, k \in 1 .. Len(its) : its[j] = its[k] => j = k
    BY <1>2 DEF Listed, IsInjective
  <2>3. a \in Nat /\ b \in Nat /\ a \in 1 .. Len(its) /\ b \in 1 .. Len(its)
        /\ a + 1 \in 1 .. Len(its) /\ b + 1 \in 1 .. Len(its)
    BY <1>2
  <2> QED  BY <1>1, <1>2, <2>1, <2>2, <2>3
<1>4. \A x \in ToSet(s) : x \in ToSet(its) \ {its[i]}
  <2>1. SUFFICES ASSUME NEW j \in 1 .. Len(its) - 1
                 PROVE  s[j] \in ToSet(its) \ {its[i]}
    BY <1>2 DEF ToSet
  <2>2. PICK k \in 1 .. Len(its) : k # i /\ s[j] = its[k]
    <3>1. j \in Nat /\ j \in 1 .. Len(its) /\ j + 1 \in 1 .. Len(its)
      BY <1>2
    <3> QED  BY <1>1, <1>2, <3>1
  <2> QED  BY <1>2, <2>2 DEF ToSet, Listed, IsInjective
<1>5. \A x \in ToSet(its) \ {its[i]} : x \in ToSet(s)
  <2>1. SUFFICES ASSUME NEW k \in 1 .. Len(its), its[k] # its[i]
                 PROVE  its[k] \in ToSet(s)
    BY <1>2 DEF ToSet
  <2>2. k # i
    BY <2>1
  <2>3. PICK j \in 1 .. Len(its) - 1 : s[j] = its[k]
    <3>1. k \in Nat
      OBVIOUS
    <3>2. CASE k < i
      <4>1. k \in 1 .. Len(its) - 1
        BY <1>2, <3>1, <3>2
      <4> QED  BY <1>1, <3>2, <4>1
    <3>3. CASE k > i
      <4>1. k - 1 \in 1 .. Len(its) - 1 /\ ~(k - 1 < i) /\ (k - 1) + 1 = k
        BY <1>2, <3>1, <3>3
      <4> QED  BY <1>1, <4>1
    <3> QED  BY <1>2, <2>2, <3>1, <3>2, <3>3
  <2> QED  BY <1>2, <2>3 DEF ToSet
<1> QED  BY <1>1, <1>3, <1>4, <1>5 DEF Listed, s

LEMMA InsertAtListed ==
  ASSUME NEW its, Listed(its), NEW i \in 1 .. Len(its) + 1,
         NEW x \in Items, x \notin ToSet(its)
  PROVE  /\ Listed(InsertAt(its, i, x)) /\ Len(InsertAt(its, i, x)) = Len(its) + 1
         /\ ToSet(InsertAt(its, i, x)) = ToSet(its) \cup {x}
<1> DEFINE s == InsertAt(its, i, x)
<1>1. /\ s \in Seq(Items) /\ Len(s) = Len(its) + 1
      /\ \A j \in 1 .. Len(its) + 1 :
           s[j] = IF j < i THEN its[j] ELSE IF j = i THEN x ELSE its[j - 1]
  <2>1. its \in Seq(Items)
    BY DEF Listed
  <2>2. Inserted(s, Items, its, i, x)
    BY <2>1, InsertAtSeq
  <2> HIDE DEF s
  <2> QED  BY <2>2 DEF Inserted
<1> HIDE DEF s
<1>2. /\ Len(its) \in Nat /\ DOMAIN s = 1 .. Len(its) + 1 /\ DOMAIN its = 1 .. Len(its)
      /\ i \in Nat
  BY <1>1 DEF Listed
<1>3. \A j \in 1 .. Len(its) + 1 : \/ j = i /\ s[j] = x
                                   \/ j < i /\ j \in 1 .. Len(its) /\ s[j] = its[j]
                                   \/ j > i /\ j - 1 \in 1 .. Len(its) /\ s[j] = its[j - 1]
  <2> SUFFICES ASSUME NEW j \in 1 .. Len(its) + 1
               PROVE  \/ j = i /\ s[j] = x
                      \/ j < i /\ j \in 1 .. Len(its) /\ s[j] = its[j]
                      \/ j > i /\ j - 1 \in 1 .. Len(its) /\ s[j] = its[j - 1]
    OBVIOUS
  <2>1. j \in Nat /\ j >= 1 /\ j =< Len(its) + 1
    BY <1>2
  <2>2. i >= 1 /\ i =< Len(its) + 1
    BY <1>2
  <2> QED  BY <1>1, <1>2, <2>1, <2>2
<1>4. \A k \in 1 .. Len(its) : its[k] # x
  BY <1>2 DEF ToSet
<1>5. IsInjective(s)
  <2>1. SUFFICES ASSUME NEW a \in 1 .. Len(its) + 1, NEW b \in 1 .. Len(its) + 1,
                        s[a] = s[b]
                 PROVE  a = b
    BY <1>2 DEF IsInjective
  <2>2. \A j, k \in 1 .. Len(its) : its[j] = its[k] => j = k
    BY <1>2 DEF Listed, IsInjective
  <2>3. a \in Nat /\ b \in Nat
    BY <1>2
  <2> QED  BY <1>2, <1>3, <1>4, <2>1, <2>2, <2>3
<1>6. \A y \in ToSet(s) : y \in ToSet(its) \cup {x}
  BY <1>2, <1>3 DEF ToSet
<1>7. x \in ToSet(s)
  <2>1. s[i] = x
    BY <1>1, <1>2
  <2> QED  BY <1>2, <2>1 DEF ToSet
<1>8. \A y \in ToSet(its) : y \in ToSet(s)
  <2>1. SUFFICES ASSUME NEW k \in 1 .. Len(its) PROVE its[k] \in ToSet(s)
    BY <1>2 DEF ToSet
  <2>2. PICK j \in 1 .. Len(its) + 1 : s[j] = its[k]
    <3>1. k \in Nat /\ k >= 1 /\ k =< Len(its)
      BY <1>2
    <3>2. CASE k < i
      <4>1. k \in 1 .. Len(its) + 1
        BY <1>2, <3>1
      <4> QED  BY <1>1, <3>2, <4>1
    <3>3. CASE k >= i
      <4>1. k + 1 \in 1 .. Len(its) + 1 /\ ~(k + 1 < i) /\ k + 1 # i /\ (k + 1) - 1 = k
        BY <1>2, <3>1, <3>3
      <4> QED  BY <1>1, <4>1
    <3> QED  BY <1>2, <3>1, <3>2, <3>3
  <2> QED  BY <1>2, <2>2 DEF ToSet
<1> QED  BY <1>1, <1>5, <1>6, <1>7, <1>8 DEF Listed, s

(* The rows of a window with a row removed.                                 *)
RowRemoved(w, rs, r) ==
  /\ w \in Seq(Row) /\ Len(w) = Len(rs) - 1
  /\ \A q \in 1 .. Len(rs) - 1 : w[q] = IF q < r THEN rs[q] ELSE rs[q + 1]
  /\ \A q, p \in 1 .. Len(rs) - 1 : w[q].cell = w[p].cell => q = p
  /\ \A q \in 1 .. Len(rs) - 1 : \E p \in 1 .. Len(rs) : p # r /\ w[q] = rs[p]
  /\ \A p \in 1 .. Len(rs) : p # r => \E q \in 1 .. Len(rs) - 1 : w[q] = rs[p]
  /\ CellsOf(w) = CellsOf(rs) \ {rs[r].cell}

LEMMA RemoveRow ==
  ASSUME NEW its, NEW t, NEW rs, Shown(its, t, rs), NEW r \in 1 .. Len(rs)
  PROVE  RowRemoved(RemoveAt(rs, r), rs, r)
<1> DEFINE s == RemoveAt(rs, r)
<1>1. /\ s \in Seq(Row) /\ Len(s) = Len(rs) - 1
      /\ \A q \in 1 .. Len(rs) - 1 : s[q] = IF q < r THEN rs[q] ELSE rs[q + 1]
  BY RemoveAtSeq DEF Shown
<1> HIDE DEF s
<1>2. Len(rs) \in Nat /\ r \in Nat /\ r >= 1 /\ r =< Len(rs)
  BY DEF Shown
<1>3. \A q \in 1 .. Len(rs) - 1 :
        \/ q < r /\ q \in 1 .. Len(rs) /\ s[q] = rs[q]
        \/ q >= r /\ q + 1 \in 1 .. Len(rs) /\ s[q] = rs[q + 1]
  <2> SUFFICES ASSUME NEW q \in 1 .. Len(rs) - 1
               PROVE  \/ q < r /\ q \in 1 .. Len(rs) /\ s[q] = rs[q]
                      \/ q >= r /\ q + 1 \in 1 .. Len(rs) /\ s[q] = rs[q + 1]
    OBVIOUS
  <2>1. q \in Nat /\ q >= 1 /\ q =< Len(rs) - 1
    BY <1>2
  <2> QED  BY <1>1, <1>2, <2>1
<1>4. \A q, p \in 1 .. Len(rs) : rs[q].cell = rs[p].cell => q = p
  BY DEF Shown
<1>5. ASSUME NEW q \in 1 .. Len(rs) - 1, NEW p \in 1 .. Len(rs) - 1, s[q].cell = s[p].cell
      PROVE  q = p
  <2>1. q \in Nat /\ p \in Nat
    BY <1>2
  <2>0. ASSUME NEW k \in 1 .. Len(rs) - 1
        PROVE  \E a \in 1 .. Len(rs) :
                 s[k] = rs[a] /\ ((k < r /\ a = k) \/ (k >= r /\ a = k + 1))
    <3>1. CASE k < r
      <4>1. k \in 1 .. Len(rs) /\ s[k] = rs[k]
        BY <1>2, <1>3, <3>1
      <4> QED  BY <3>1, <4>1
    <3>2. CASE k >= r
      <4>1. k + 1 \in 1 .. Len(rs) /\ s[k] = rs[k + 1]
        BY <1>2, <1>3, <3>2
      <4> QED  BY <3>2, <4>1
    <3> QED  BY <1>2, <3>1, <3>2
  <2>2. PICK a \in 1 .. Len(rs) :
          s[q] = rs[a] /\ ((q < r /\ a = q) \/ (q >= r /\ a = q + 1))
    BY <2>0
  <2>3. PICK b \in 1 .. Len(rs) :
          s[p] = rs[b] /\ ((p < r /\ b = p) \/ (p >= r /\ b = p + 1))
    BY <2>0
  <2>4. a = b
    BY <1>4, <1>5, <2>2, <2>3
  <2> QED  BY <1>2, <2>1, <2>2, <2>3, <2>4
<1>6. \A q \in 1 .. Len(rs) - 1 : \E p \in 1 .. Len(rs) : p # r /\ s[q] = rs[p]
  <2> SUFFICES ASSUME NEW q \in 1 .. Len(rs) - 1
               PROVE  \E p \in 1 .. Len(rs) : p # r /\ s[q] = rs[p]
    OBVIOUS
  <2>1. q \in Nat
    BY <1>2
  <2>2. CASE q < r
    BY <1>2, <1>3, <2>1, <2>2
  <2>3. CASE q >= r
    <3>1. q + 1 \in 1 .. Len(rs) /\ s[q] = rs[q + 1] /\ q + 1 # r
      BY <1>2, <1>3, <2>1, <2>3
    <3> QED  BY <3>1
  <2> QED  BY <1>2, <2>1, <2>2, <2>3
<1>7. \A p \in 1 .. Len(rs) : p # r => \E q \in 1 .. Len(rs) - 1 : s[q] = rs[p]
  <2> SUFFICES ASSUME NEW p \in 1 .. Len(rs), p # r
               PROVE  \E q \in 1 .. Len(rs) - 1 : s[q] = rs[p]
    OBVIOUS
  <2>1. p \in Nat /\ p >= 1 /\ p =< Len(rs)
    BY <1>2
  <2>2. CASE p < r
    <3>1. p \in 1 .. Len(rs) - 1
      BY <1>2, <2>1, <2>2
    <3> QED  BY <1>1, <2>2, <3>1
  <2>3. CASE p > r
    <3>1. p - 1 \in 1 .. Len(rs) - 1 /\ ~(p - 1 < r) /\ (p - 1) + 1 = p
      BY <1>2, <2>1, <2>3
    <3> QED  BY <1>1, <3>1
  <2> QED  BY <1>2, <2>1, <2>2, <2>3
<1>8. CellsOf(s) = CellsOf(rs) \ {rs[r].cell}
  <2>1. CellsOf(s) = {s[q].cell : q \in 1 .. Len(rs) - 1}
    BY <1>1 DEF CellsOf
  <2>2. ASSUME NEW c \in CellsOf(rs) \ {rs[r].cell} PROVE c \in CellsOf(s)
    <3>1. PICK p \in 1 .. Len(rs) : c = rs[p].cell
      BY DEF CellsOf
    <3>2. p # r
      BY <3>1
    <3> QED  BY <1>7, <2>1, <3>1, <3>2
  <2>3. ASSUME NEW q \in 1 .. Len(rs) - 1 PROVE s[q].cell \in CellsOf(rs) \ {rs[r].cell}
    <3>1. PICK p \in 1 .. Len(rs) : p # r /\ s[q] = rs[p]
      BY <1>6
    <3> QED  BY <1>4, <3>1 DEF CellsOf
  <2> QED  BY <2>1, <2>2, <2>3
<1>9. RowRemoved(s, rs, r)
  BY <1>1, <1>5, <1>6, <1>7, <1>8 DEF RowRemoved
<1> QED  BY <1>9 DEF s

(* An item of the window is deleted, and its row.                           *)
LEMMA ShownRemove ==
  ASSUME NEW its, NEW t, NEW rs, Listed(its), Shown(its, t, rs), NEW r \in 1 .. Len(rs)
  PROVE  Shown(RemoveAt(its, t + r), t, RemoveAt(rs, r))
<1> DEFINE s == RemoveAt(rs, r)
           i2 == RemoveAt(its, t + r)
<1>1. /\ Len(rs) \in Nat /\ Len(its) \in Nat /\ t \in Nat /\ t + Len(rs) =< Len(its)
      /\ r \in Nat /\ r >= 1 /\ r =< Len(rs)
  BY DEF Shown, Listed
<1>2. t + r \in 1 .. Len(its)
  BY <1>1
<1>3. its \in Seq(Items)
  BY DEF Listed
<1>4. /\ Len(i2) = Len(its) - 1
      /\ \A j \in 1 .. Len(its) - 1 : i2[j] = IF j < t + r THEN its[j] ELSE its[j + 1]
  BY <1>2, <1>3, RemoveAtSeq
<1>5. /\ s \in Seq(Row) /\ Len(s) = Len(rs) - 1
      /\ \A q \in 1 .. Len(rs) - 1 : s[q] = IF q < r THEN rs[q] ELSE rs[q + 1]
      /\ \A q, p \in 1 .. Len(rs) - 1 : s[q].cell = s[p].cell => q = p
  <2>1. RowRemoved(s, rs, r)
    BY RemoveRow
  <2> QED  BY <2>1 DEF RowRemoved
<1> HIDE DEF s, i2
<1>6. ASSUME NEW q \in 1 .. Len(rs) - 1 PROVE s[q].item = i2[t + q]
  <2>1. q \in Nat /\ q >= 1 /\ q =< Len(rs) - 1
    BY <1>1
  <2>2. t + q \in 1 .. Len(its) - 1
    BY <1>1, <2>1
  <2>3. \A p \in 1 .. Len(rs) : rs[p].item = its[t + p]
    BY DEF Shown
  <2>4. CASE q < r
    <3>1. i2[t + q] = its[t + q]
      <4>1. t + q < t + r
        BY <1>1, <2>1, <2>4
      <4> QED  BY <1>4, <2>2, <4>1
    <3>2. q \in 1 .. Len(rs)
      BY <1>1, <2>1
    <3> QED  BY <1>5, <2>3, <2>4, <3>1, <3>2
  <2>5. CASE q >= r
    <3>1. i2[t + q] = its[t + q + 1]
      <4>1. ~(t + q < t + r)
        BY <1>1, <2>1, <2>5
      <4> QED  BY <1>4, <2>2, <4>1
    <3>2. q + 1 \in 1 .. Len(rs) /\ t + (q + 1) = t + q + 1
      BY <1>1, <2>1
    <3>3. s[q] = rs[q + 1]
      BY <1>1, <1>5, <2>1, <2>5
    <3> QED  BY <2>3, <3>1, <3>2, <3>3
  <2> QED  BY <1>1, <2>1, <2>4, <2>5
<1> QED  BY <1>1, <1>4, <1>5, <1>6 DEF Shown, s, i2

(* A row comes onto the screen at the bottom, or at the top, with a cell    *)
(* that is in no other row.                                                 *)
LEMMA ShownAppend ==
  ASSUME NEW its, NEW t, NEW rs, Listed(its), Shown(its, t, rs),
         t + Len(rs) < Len(its), NEW d \in Cells, d \notin CellsOf(rs)
  PROVE  Shown(its, t, Append(rs, [cell |-> d, item |-> its[t + Len(rs) + 1]]))
<1> DEFINE row == [cell |-> d, item |-> its[t + Len(rs) + 1]]
           s == Append(rs, row)
<1>1. Len(rs) \in Nat /\ Len(its) \in Nat /\ t \in Nat
  BY DEF Shown, Listed
<1>2. its[t + Len(rs) + 1] \in Items
  BY <1>1 DEF Listed
<1>3. row \in Row /\ row.cell = d /\ row.item = its[t + Len(rs) + 1]
  BY <1>2 DEF Row
<1> HIDE DEF row
<1>4. /\ s \in Seq(Row) /\ Len(s) = Len(rs) + 1
      /\ \A j \in 1 .. Len(rs) + 1 : s[j] = IF j =< Len(rs) THEN rs[j] ELSE row
  <2>1. rs \in Seq(Row)
    BY DEF Shown
  <2> QED  BY <1>3, <2>1, AppendSeq
<1> HIDE DEF s
<1>5. \A j \in 1 .. Len(rs) + 1 : \/ j \in 1 .. Len(rs) /\ s[j] = rs[j]
                                  \/ j = Len(rs) + 1 /\ s[j] = row
  BY <1>1, <1>4
<1>6. \A j \in 1 .. Len(rs) : rs[j].cell # d
  BY DEF CellsOf
<1>7. ASSUME NEW j \in 1 .. Len(rs) + 1, NEW k \in 1 .. Len(rs) + 1, s[j].cell = s[k].cell
      PROVE  j = k
  BY <1>3, <1>5, <1>6, <1>7 DEF Shown
<1>8. ASSUME NEW j \in 1 .. Len(rs) + 1 PROVE s[j].item = its[t + j]
  <2>1. CASE j \in 1 .. Len(rs) /\ s[j] = rs[j]
    BY <2>1 DEF Shown
  <2>2. CASE j = Len(rs) + 1 /\ s[j] = row
    <3>1. t + j = t + Len(rs) + 1
      BY <1>1, <2>2
    <3> QED  BY <1>3, <2>2, <3>1
  <2> QED  BY <1>5, <2>1, <2>2
<1>9. t + Len(s) =< Len(its)
  BY <1>1, <1>4
<1> QED  BY <1>1, <1>4, <1>7, <1>8, <1>9 DEF Shown, s, row

LEMMA ShownPrepend ==
  ASSUME NEW its, NEW t, NEW rs, Listed(its), Shown(its, t, rs),
         t > 0, NEW d \in Cells, d \notin CellsOf(rs)
  PROVE  Shown(its, t - 1, <<[cell |-> d, item |-> its[t]]>> \o rs)
<1> DEFINE row == [cell |-> d, item |-> its[t]]
           s == <<row>> \o rs
<1>1. /\ Len(rs) \in Nat /\ Len(its) \in Nat /\ t \in Nat
      /\ t + Len(rs) =< Len(its)
  BY DEF Shown, Listed
<1>2. its[t] \in Items
  <2>1. t \in 1 .. Len(its)
    BY <1>1
  <2> QED  BY <2>1 DEF Listed
<1>3. row \in Row /\ row.cell = d /\ row.item = its[t]
  BY <1>2 DEF Row
<1> HIDE DEF row
<1>4. /\ s \in Seq(Row) /\ Len(s) = Len(rs) + 1
      /\ \A j \in 1 .. Len(rs) + 1 : s[j] = IF j = 1 THEN row ELSE rs[j - 1]
  <2>1. rs \in Seq(Row)
    BY DEF Shown
  <2> QED  BY <1>3, <2>1, PrependSeq
<1> HIDE DEF s
<1>5. \A j \in 1 .. Len(rs) + 1 : \/ j = 1 /\ s[j] = row
                                  \/ j - 1 \in 1 .. Len(rs) /\ s[j] = rs[j - 1]
  BY <1>1, <1>4
<1>6. \A j \in 1 .. Len(rs) : rs[j].cell # d
  BY DEF CellsOf
<1>7. ASSUME NEW j \in 1 .. Len(rs) + 1, NEW k \in 1 .. Len(rs) + 1, s[j].cell = s[k].cell
      PROVE  j = k
  <2>1. j \in Int /\ k \in Int
    BY <1>1
  <2>2. \A p, q \in 1 .. Len(rs) : rs[p].cell = rs[q].cell => p = q
    BY DEF Shown
  <2>3. CASE j - 1 \in 1 .. Len(rs) /\ s[j] = rs[j - 1] /\ k - 1 \in 1 .. Len(rs) /\ s[k] = rs[k - 1]
    <3>1. j - 1 = k - 1
      BY <1>7, <2>2, <2>3
    <3> QED  BY <2>1, <3>1
  <2> QED  BY <1>3, <1>5, <1>6, <1>7, <2>1, <2>3
<1>8. ASSUME NEW j \in 1 .. Len(rs) + 1 PROVE s[j].item = its[(t - 1) + j]
  <2>1. j \in Int
    BY <1>1
  <2>2. CASE j = 1 /\ s[j] = row
    <3>1. (t - 1) + j = t
      BY <1>1, <2>2
    <3> QED  BY <1>3, <2>2, <3>1
  <2>3. CASE j - 1 \in 1 .. Len(rs) /\ s[j] = rs[j - 1]
    <3>1. t + (j - 1) = (t - 1) + j
      BY <1>1, <2>1
    <3>2. rs[j - 1].item = its[t + (j - 1)]
      BY <2>3 DEF Shown
    <3> QED  BY <2>3, <3>1, <3>2
  <2> QED  BY <1>5, <2>2, <2>3
<1>9. t - 1 \in Nat /\ (t - 1) + Len(s) =< Len(its)
  BY <1>1, <1>4
<1> QED  BY <1>4, <1>7, <1>8, <1>9 DEF Shown, s, row

(* A row is scrolled off at the top, or at the bottom.                      *)
LEMMA ShownTail ==
  ASSUME NEW its, NEW t, NEW rs, Listed(its), Shown(its, t, rs), Len(rs) > 0
  PROVE  /\ Shown(its, t + 1, RemoveAt(rs, 1))
         /\ Shown(its, t, RemoveAt(rs, Len(rs)))
<1>1. /\ Len(rs) \in Nat /\ Len(its) \in Nat /\ t \in Nat
      /\ t + Len(rs) =< Len(its)
  BY DEF Shown, Listed
<1>2. 1 \in 1 .. Len(rs) /\ Len(rs) \in 1 .. Len(rs)
  BY <1>1
<1>3. \A p \in 1 .. Len(rs) : rs[p].item = its[t + p]
  BY DEF Shown
<1>4. Shown(its, t + 1, RemoveAt(rs, 1))
  <2> DEFINE s == RemoveAt(rs, 1)
  <2>1. /\ s \in Seq(Row) /\ Len(s) = Len(rs) - 1
        /\ \A q \in 1 .. Len(rs) - 1 : s[q] = IF q < 1 THEN rs[q] ELSE rs[q + 1]
        /\ \A q, p \in 1 .. Len(rs) - 1 : s[q].cell = s[p].cell => q = p
    <3>1. RowRemoved(s, rs, 1)
      BY <1>2, RemoveRow
    <3> HIDE DEF s
    <3> QED  BY <3>1 DEF RowRemoved
  <2> HIDE DEF s
  <2>2. ASSUME NEW q \in 1 .. Len(rs) - 1 PROVE s[q].item = its[(t + 1) + q]
    <3>1. q \in Int /\ ~(q < 1) /\ q + 1 \in 1 .. Len(rs) /\ t + (q + 1) = (t + 1) + q
      BY <1>1
    <3>2. s[q] = rs[q + 1]
      BY <2>1, <3>1
    <3> QED  BY <1>3, <3>1, <3>2
  <2>3. t + 1 \in Nat /\ (t + 1) + Len(s) =< Len(its)
    BY <1>1, <2>1
  <2> QED  BY <2>1, <2>2, <2>3 DEF Shown, s
<1>5. Shown(its, t, RemoveAt(rs, Len(rs)))
  <2> DEFINE s == RemoveAt(rs, Len(rs))
  <2>1. /\ s \in Seq(Row) /\ Len(s) = Len(rs) - 1
        /\ \A q \in 1 .. Len(rs) - 1 : s[q] = IF q < Len(rs) THEN rs[q] ELSE rs[q + 1]
        /\ \A q, p \in 1 .. Len(rs) - 1 : s[q].cell = s[p].cell => q = p
    <3>1. RowRemoved(s, rs, Len(rs))
      BY <1>2, RemoveRow
    <3> HIDE DEF s
    <3> QED  BY <3>1 DEF RowRemoved
  <2> HIDE DEF s
  <2>2. ASSUME NEW q \in 1 .. Len(rs) - 1 PROVE s[q].item = its[t + q]
    <3>1. q \in Int /\ q < Len(rs) /\ q \in 1 .. Len(rs)
      BY <1>1
    <3>2. s[q] = rs[q]
      BY <2>1, <3>1
    <3> QED  BY <1>3, <3>1, <3>2
  <2> QED  BY <1>1, <2>1, <2>2 DEF Shown, s
<1> QED  BY <1>4, <1>5
(* A row goes and at most one comes, with the cell d: the others stay in    *)
(* the table with the cell and the item they had.                           *)
Moved(r, d, rs, rs2) ==
  /\ d \in Cells /\ d \notin CellsOf(rs) \ {rs[r].cell}
  /\ \A q \in 1 .. Len(rs2) :
       rs2[q].cell = d \/ \E p \in 1 .. Len(rs) : p # r /\ rs2[q] = rs[p]
  /\ \A p \in 1 .. Len(rs) :
       p = r \/ \E q \in 1 .. Len(rs2) : rs2[q] = rs[p]

LEMMA RowGoes ==
  ASSUME NEW its, NEW t, NEW rs, Shown(its, t, rs), NEW r \in 1 .. Len(rs)
  PROVE  Moved(r, rs[r].cell, rs, RemoveAt(rs, r))
<1>1. rs[r] \in Row
  BY DEF Shown
<1>2. rs[r].cell \in Cells
  BY <1>1 DEF Row
<1> DEFINE s == RemoveAt(rs, r)
<1>3. /\ Len(s) = Len(rs) - 1
      /\ \A q \in 1 .. Len(rs) - 1 : \E p \in 1 .. Len(rs) : p # r /\ s[q] = rs[p]
      /\ \A p \in 1 .. Len(rs) : p # r => \E q \in 1 .. Len(rs) - 1 : s[q] = rs[p]
  <2>1. RowRemoved(s, rs, r)
    BY RemoveRow
  <2> HIDE DEF s
  <2> QED  BY <2>1 DEF RowRemoved
<1> HIDE DEF s
<1>4. Moved(r, rs[r].cell, rs, s)
  BY <1>2, <1>3 DEF Moved
<1> QED  BY <1>4 DEF s

LEMMA RowComes ==
  ASSUME NEW its, NEW t, NEW rs, Shown(its, t, rs), NEW r \in 1 .. Len(rs),
         NEW d \in Cells, d \notin CellsOf(rs) \ {rs[r].cell},
         NEW row \in Row, row.cell = d
  PROVE  /\ Moved(r, d, rs, Append(RemoveAt(rs, r), row))
         /\ Moved(r, d, rs, <<row>> \o RemoveAt(rs, r))
<1> DEFINE s == RemoveAt(rs, r)
<1>0. Len(rs) \in Nat
  BY DEF Shown
<1>1. /\ s \in Seq(Row) /\ Len(s) = Len(rs) - 1
      /\ \A q \in 1 .. Len(rs) - 1 : \E p \in 1 .. Len(rs) : p # r /\ s[q] = rs[p]
      /\ \A p \in 1 .. Len(rs) : p # r => \E q \in 1 .. Len(rs) - 1 : s[q] = rs[p]
  <2>1. RowRemoved(s, rs, r)
    BY RemoveRow
  <2> HIDE DEF s
  <2> QED  BY <2>1 DEF RowRemoved
<1> HIDE DEF s
<1>2. Moved(r, d, rs, Append(s, row))
  <2> DEFINE a == Append(s, row)
  <2>1. /\ Len(a) = Len(rs)
        /\ \A j \in 1 .. Len(rs) : a[j] = IF j =< Len(rs) - 1 THEN s[j] ELSE row
    BY <1>1, AppendSeq
  <2> HIDE DEF a
  <2>2. \A j \in 1 .. Len(rs) : a[j] = row \/ (j \in 1 .. Len(rs) - 1 /\ a[j] = s[j])
    <3> SUFFICES ASSUME NEW j \in 1 .. Len(rs)
                 PROVE  a[j] = row \/ (j \in 1 .. Len(rs) - 1 /\ a[j] = s[j])
      OBVIOUS
    <3>1. j \in Nat /\ j >= 1
      OBVIOUS
    <3>2. j =< Len(rs) - 1 => j \in 1 .. Len(rs) - 1
      BY <1>0, <3>1
    <3> QED  BY <2>1, <3>2
  <2>3. \A j \in 1 .. Len(rs) - 1 : j \in 1 .. Len(rs) /\ a[j] = s[j]
    <3> SUFFICES ASSUME NEW j \in 1 .. Len(rs) - 1
                 PROVE  j \in 1 .. Len(rs) /\ a[j] = s[j]
      OBVIOUS
    <3>1. j \in 1 .. Len(rs) /\ j =< Len(rs) - 1
      BY <1>0
    <3> QED  BY <2>1, <3>1
  <2> QED  BY <1>0, <1>1, <2>1, <2>2, <2>3 DEF Moved, a
<1>3. Moved(r, d, rs, <<row>> \o s)
  <2> DEFINE a == <<row>> \o s
  <2>1. /\ Len(a) = Len(rs)
        /\ \A j \in 1 .. Len(rs) : a[j] = IF j = 1 THEN row ELSE s[j - 1]
    BY <1>1, PrependSeq
  <2> HIDE DEF a
  <2>2. \A j \in 1 .. Len(rs) : a[j] = row \/ (j - 1 \in 1 .. Len(rs) - 1 /\ a[j] = s[j - 1])
    <3> SUFFICES ASSUME NEW j \in 1 .. Len(rs)
                 PROVE  a[j] = row \/ (j - 1 \in 1 .. Len(rs) - 1 /\ a[j] = s[j - 1])
      OBVIOUS
    <3>1. j # 1 => j - 1 \in 1 .. Len(rs) - 1
      BY <1>0
    <3> QED  BY <2>1, <3>1
  <2>3. \A j \in 1 .. Len(rs) - 1 : j + 1 \in 1 .. Len(rs) /\ a[j + 1] = s[j]
    <3> SUFFICES ASSUME NEW j \in 1 .. Len(rs) - 1
                 PROVE  j + 1 \in 1 .. Len(rs) /\ a[j + 1] = s[j]
      OBVIOUS
    <3>1. j + 1 \in 1 .. Len(rs) /\ j + 1 # 1 /\ (j + 1) - 1 = j
      BY <1>0
    <3> QED  BY <2>1, <3>1
  <2>4. \A q \in 1 .. Len(a) :
          a[q].cell = d \/ \E p \in 1 .. Len(rs) : p # r /\ a[q] = rs[p]
    <3> SUFFICES ASSUME NEW q \in 1 .. Len(rs), a[q] # row
                 PROVE  \E p \in 1 .. Len(rs) : p # r /\ a[q] = rs[p]
      BY <2>1
    <3>1. q - 1 \in 1 .. Len(rs) - 1 /\ a[q] = s[q - 1]
      BY <2>2
    <3> QED  BY <1>1, <3>1
  <2>5. \A p \in 1 .. Len(rs) : p = r \/ \E q \in 1 .. Len(a) : a[q] = rs[p]
    BY <1>0, <1>1, <2>1, <2>3
  <2> QED  BY <2>4, <2>5 DEF Moved, a
<1> QED  BY <1>2, <1>3 DEF s
------------------------------------------------------------------------------
(* The screen after a step.  Every action but five leaves it alone.         *)
SInv == Screen(items, top, rows)

(* Between a step's old and new screen: who moved, and what was reset.      *)
Replaced(r, d, D) == /\ Moved(r, d, rows, rows')
                     /\ D \subseteq {d}
                     /\ d \in CellsOf(rows)' => d \in D

LEMMA VisibleCells ==
  ASSUME SInv
  PROVE  /\ Visible = CellsOf(rows) /\ DOMAIN rows = 1 .. Len(rows)
         /\ Len(rows) \in Nat /\ top \in Nat /\ Len(items) \in Nat /\ Height \in Nat \ {0}
<1>1. rows \in Seq(Row) /\ items \in Seq(Items) /\ top \in Nat
  BY DEF SInv, Screen, Shown, Listed
<1>2. DOMAIN rows = 1 .. Len(rows) /\ Len(rows) \in Nat /\ Len(items) \in Nat
  BY <1>1
<1>3. Height \in Nat \ {0}
  BY SwipeTableAssumption
<1> QED  BY <1>1, <1>2, <1>3 DEF Visible, CellsOf

(* deleteRows, after the handler deleted the item of the index path: with   *)
(* rows below the screen the next of them comes up, with rows only above it *)
(* the last of those comes down, and else the table is a row shorter.       *)
LEMMA DeleteStep ==
  ASSUME SInv, NEW r \in DOMAIN rows, NEW st, NEW av, deleteAction(r), deleteRows(r, st, av)
  PROVE  /\ SInv'
         /\ rows[r].item \in ToSet(items)
         /\ ToSet(items') = ToSet(items) \ {rows[r].item}
         /\ \E d, D : Replaced(r, d, D) /\ reset(D, st, av)
<1> DEFINE left == RemoveAt(rows, r)
           i2 == RemoveAt(items, top + r)
           below == Len(items) > top + Len(rows)
<1>1. /\ Visible = CellsOf(rows) /\ r \in 1 .. Len(rows)
      /\ Len(rows) \in Nat /\ top \in Nat /\ Len(items) \in Nat /\ Height \in Nat \ {0}
  BY VisibleCells
<1>2. /\ Listed(items) /\ Shown(items, top, rows)
      /\ Len(rows) = Smaller(Height, Len(items))
      /\ top + Len(rows) =< Len(items)
      /\ rows[r].item = items[top + r]
  BY <1>1 DEF SInv, Screen, Shown
<1>3. top + r \in 1 .. Len(items)
  BY <1>1, <1>2
<1>4. /\ Listed(i2) /\ ToSet(i2) = ToSet(items) \ {items[top + r]}
      /\ Len(i2) = Len(items) - 1
  <2>1. items \in Seq(Items)
    BY <1>2 DEF Listed
  <2> QED  BY <1>2, <1>3, <2>1, RemoveAtListed, RemoveAtSeq
<1>5. items' = i2
  BY DEF deleteAction
<1>6. rows[r].item \in ToSet(items)
  BY <1>2, <1>3 DEF Listed, ToSet
<1>7. Shown(i2, top, left)
  BY <1>1, <1>2, ShownRemove
<1>8. /\ CellsOf(left) = CellsOf(rows) \ {rows[r].cell}
      /\ Len(left) = Len(rows) - 1
  <2>1. RowRemoved(left, rows, r)
    BY <1>1, <1>2, RemoveRow
  <2> QED  BY <2>1 DEF RowRemoved
<1>9. rows[r] \in Row
  BY <1>1, <1>2 DEF Shown
<1>10. CASE ~below /\ top = 0
  <2>1. top' = top /\ rows' = left /\ reset({}, st, av)
    BY <1>10 DEF deleteRows
  <2>2. Len(left) = Smaller(Height, Len(i2))
    BY <1>1, <1>2, <1>4, <1>8, <1>10 DEF Smaller
  <2>3. Screen(i2, top, left)
    BY <1>4, <1>7, <2>2 DEF Screen
  <2>4. SInv'
    BY <1>5, <2>1, <2>3 DEF SInv
  <2>5. Moved(r, rows[r].cell, rows, left) /\ rows[r].cell \notin CellsOf(left)
    BY <1>1, <1>2, <1>8, RowGoes
  <2>6. Replaced(r, rows[r].cell, {})
    BY <2>1, <2>5 DEF Replaced
  <2> QED  BY <1>2, <1>4, <1>5, <1>6, <2>1, <2>4, <2>6
<1>11. CASE below
  <2>1. PICK d \in (Cells \ Visible) \cup {rows[r].cell} :
          /\ top' = top
          /\ rows' = Append(left, cellForRow(d, Len(rows)))
          /\ reset({d}, st, av)
    BY <1>11 DEF deleteRows
  <2>2. d \in Cells /\ d \notin CellsOf(rows) \ {rows[r].cell}
    <3>1. rows[r].cell \in Cells
      BY <1>9 DEF Row
    <3> QED  BY <1>1, <3>1
  <2> DEFINE row == [cell |-> d, item |-> i2[top + Len(left) + 1]]
  <2>3. top + Len(rows) = top + Len(left) + 1
    BY <1>1, <1>8
  <2>4. cellForRow(d, Len(rows)) = row
    BY <1>5, <2>1, <2>3 DEF cellForRow
  <2>5. top + Len(left) < Len(i2)
    BY <1>1, <1>4, <1>8, <1>11
  <2>6. Shown(i2, top, Append(left, row))
    BY <1>4, <1>7, <1>8, <2>2, <2>5, ShownAppend
  <2>7. row \in Row /\ row.cell = d
    <3>1. top + Len(left) + 1 \in 1 .. Len(i2)
      BY <1>1, <1>4, <1>8, <2>5
    <3>2. i2[top + Len(left) + 1] \in Items
      BY <1>4, <3>1 DEF Listed
    <3> QED  BY <2>2, <3>2 DEF Row
  <2>8. Moved(r, d, rows, Append(left, row))
    BY <1>1, <1>2, <2>2, <2>7, RowComes
  <2>9. Len(Append(left, row)) = Len(rows)
    <3>1. left \in Seq(Row)
      BY <1>7 DEF Shown
    <3> HIDE DEF left, row
    <3> QED  BY <1>1, <1>8, <2>7, <3>1
  <2>10. Len(rows) = Smaller(Height, Len(i2))
    BY <1>1, <1>2, <1>4, <1>11 DEF Smaller
  <2>11. Screen(i2, top, Append(left, row))
    BY <1>4, <2>6, <2>9, <2>10 DEF Screen
  <2>12. SInv'
    BY <1>5, <2>1, <2>4, <2>11 DEF SInv
  <2>13. Replaced(r, d, {d})
    BY <2>1, <2>4, <2>8 DEF Replaced
  <2> QED  BY <1>2, <1>4, <1>5, <1>6, <2>1, <2>12, <2>13
<1>12. CASE ~below /\ top # 0
  <2>1. PICK d \in (Cells \ Visible) \cup {rows[r].cell} :
          /\ top' = top - 1
          /\ rows' = <<cellForRow(d, 1)>> \o left
          /\ reset({d}, st, av)
    BY <1>12 DEF deleteRows
  <2>2. d \in Cells /\ d \notin CellsOf(rows) \ {rows[r].cell}
    <3>1. rows[r].cell \in Cells
      BY <1>9 DEF Row
    <3> QED  BY <1>1, <3>1
  <2> DEFINE row == [cell |-> d, item |-> i2[top]]
  <2>3. top > 0 /\ (top - 1) + 1 = top
    BY <1>1, <1>12
  <2>4. cellForRow(d, 1) = row
    BY <1>5, <2>1, <2>3 DEF cellForRow
  <2>5. Len(left) \in Nat /\ top =< Len(i2)
    BY <1>1, <1>2, <1>4, <1>8
  <2>6. Shown(i2, top - 1, <<row>> \o left)
    BY <1>4, <1>7, <1>8, <2>2, <2>3, ShownPrepend
  <2>7. row \in Row /\ row.cell = d
    <3>1. top \in 1 .. Len(i2)
      BY <1>1, <1>4, <2>3, <2>5
    <3>2. i2[top] \in Items
      BY <1>4, <3>1 DEF Listed
    <3> QED  BY <2>2, <3>2 DEF Row
  <2>8. Moved(r, d, rows, <<row>> \o left)
    BY <1>1, <1>2, <2>2, <2>7, RowComes
  <2>9. Len(<<row>> \o left) = Len(rows)
    <3>1. left \in Seq(Row)
      BY <1>7 DEF Shown
    <3> HIDE DEF left, row
    <3>2. Len(<<row>> \o left) = Len(left) + 1
      BY <2>7, <3>1, PrependSeq
    <3> QED  BY <1>1, <1>8, <3>2
  <2>10. Len(rows) = Smaller(Height, Len(i2))
    BY <1>1, <1>2, <1>4, <1>12 DEF Smaller
  <2>11. Screen(i2, top - 1, <<row>> \o left)
    BY <1>4, <2>6, <2>9, <2>10 DEF Screen
  <2>12. SInv'
    BY <1>5, <2>1, <2>4, <2>11 DEF SInv
  <2>13. Replaced(r, d, {d})
    BY <2>1, <2>4, <2>8 DEF Replaced
  <2> QED  BY <1>2, <1>4, <1>5, <1>6, <2>1, <2>12, <2>13
<1> QED  BY <1>10, <1>11, <1>12

(* A scroll by a row: the row that goes gives its cell back to the pool,    *)
(* and the row that comes takes one from it.                                *)
LEMMA ScrollStep ==
  ASSUME SInv, NEW down \in BOOLEAN, scroll(down)
  PROVE  /\ SInv' /\ rows' # rows
         /\ \E r \in 1 .. Len(rows) : \E d : /\ Replaced(r, d, {d})
                                         /\ reset({d}, state, actionsView)
<1> DEFINE gone == IF down THEN Head(rows) ELSE Last(rows)
<1>1. /\ Visible = CellsOf(rows)
      /\ Len(rows) \in Nat /\ top \in Nat /\ Len(items) \in Nat /\ Height \in Nat \ {0}
  BY VisibleCells
<1>2. /\ Listed(items) /\ Shown(items, top, rows)
      /\ Len(rows) = Smaller(Height, Len(items))
      /\ top + Len(rows) =< Len(items)
  BY DEF SInv, Screen, Shown
<1>3. IF down THEN Len(items) > top + Len(rows) ELSE top > 0
  BY DEF scroll
<1>4. Len(rows) > 0 /\ rows \in Seq(Row) /\ rows # << >>
  <2>1. Len(items) > 0
    BY <1>1, <1>2, <1>3
  <2>2. Len(rows) > 0 /\ rows \in Seq(Row)
    BY <1>1, <1>2, <2>1 DEF Smaller, Shown
  <2> QED  BY <2>2
<1>5. 1 \in 1 .. Len(rows) /\ Len(rows) \in 1 .. Len(rows)
  BY <1>1, <1>4
<1>6. Head(rows) = rows[1] /\ Last(rows) = rows[Len(rows)]
  BY <1>4 DEF Last
<1>7. Tail(rows) = RemoveAt(rows, 1) /\ Front(rows) = RemoveAt(rows, Len(rows))
  BY <1>4, TailSeq
<1>8. rows[1] \in Row /\ rows[Len(rows)] \in Row
  BY <1>4, <1>5
<1>9. items' = items
  BY DEF scroll
<1>10. PICK d \in (Cells \ Visible) \cup {gone.cell} :
         /\ rows' = IF down THEN Append(Tail(rows), cellForRow(d, Len(rows)))
                            ELSE <<cellForRow(d, 1)>> \o Front(rows)
         /\ reset({d}, state, actionsView)
  BY DEF scroll
<1>11. reset({d}, state, actionsView)
  BY <1>10
<1>12. \A i, j \in 1 .. Len(items) : items[i] = items[j] => i = j
  BY <1>2 DEF Listed, IsInjective
<1>13. ASSUME NEW r \in 1 .. Len(rows)
       PROVE  /\ CellsOf(RemoveAt(rows, r)) = CellsOf(rows) \ {rows[r].cell}
              /\ Len(RemoveAt(rows, r)) = Len(rows) - 1 /\ RemoveAt(rows, r) \in Seq(Row)
  <2>1. RowRemoved(RemoveAt(rows, r), rows, r)
    BY <1>2, RemoveRow
  <2> QED  BY <2>1 DEF RowRemoved
<1>14. CASE down
  <2> DEFINE left == RemoveAt(rows, 1)
             row == [cell |-> d, item |-> items[top + 1 + Len(left) + 1]]
  <2>1. top' = top + 1
    BY <1>14 DEF scroll
  <2>2. /\ CellsOf(left) = CellsOf(rows) \ {rows[1].cell}
        /\ Len(left) = Len(rows) - 1 /\ left \in Seq(Row)
    BY <1>5, <1>13
  <2>3. Shown(items, top + 1, left)
    BY <1>2, <1>4, ShownTail
  <2>4. d \in Cells /\ d \notin CellsOf(rows) \ {rows[1].cell}
    BY <1>1, <1>6, <1>8, <1>10, <1>14 DEF Row
  <2>5. rows' = Append(left, row)
    <3>1. (top + 1) + Len(rows) = top + 1 + Len(left) + 1
      BY <1>1, <2>2
    <3>2. cellForRow(d, Len(rows)) = row
      BY <1>9, <2>1, <3>1 DEF cellForRow
    <3> QED  BY <1>7, <1>10, <1>14, <3>2
  <2>6. top + 1 + Len(left) < Len(items)
    BY <1>1, <1>3, <1>14, <2>2
  <2>7. Shown(items, top + 1, Append(left, row))
    BY <1>2, <2>2, <2>3, <2>4, <2>6, ShownAppend
  <2>8. row \in Row /\ row.cell = d
    <3>1. top + 1 + Len(left) + 1 \in 1 .. Len(items)
      BY <1>1, <2>2, <2>6
    <3>2. items[top + 1 + Len(left) + 1] \in Items
      BY <1>2, <3>1 DEF Listed
    <3> QED  BY <2>4, <3>2 DEF Row
  <2>9. Moved(1, d, rows, Append(left, row))
    BY <1>2, <1>5, <2>4, <2>8, RowComes
  <2>10. Len(Append(left, row)) = Len(rows)
    <3> HIDE DEF left, row
    <3> QED  BY <1>1, <2>2, <2>8
  <2>11. Screen(items, top + 1, Append(left, row))
    BY <1>2, <2>7, <2>10 DEF Screen
  <2>12. SInv'
    BY <1>9, <2>1, <2>5, <2>11 DEF SInv
  <2>13. Replaced(1, d, {d})
    BY <2>5, <2>9 DEF Replaced
  <2>14. rows' # rows
    <3>1. Append(left, row)[1].item = items[(top + 1) + 1]
      BY <1>5, <2>7, <2>10 DEF Shown
    <3>2. rows[1].item = items[top + 1]
      BY <1>2, <1>5 DEF Shown
    <3>3. (top + 1) + 1 \in 1 .. Len(items) /\ top + 1 \in 1 .. Len(items) /\ (top + 1) + 1 # top + 1
      BY <1>1, <1>3, <1>4, <1>14
    <3>4. items[(top + 1) + 1] # items[top + 1]
      BY <1>12, <3>3
    <3> QED  BY <2>5, <3>1, <3>2, <3>4
  <2> QED  BY <1>5, <1>11, <2>12, <2>13, <2>14
<1>15. CASE ~down
  <2> DEFINE n == Len(rows)
             left == RemoveAt(rows, n)
             row == [cell |-> d, item |-> items[top]]
  <2>1. top' = top - 1 /\ top > 0
    BY <1>3, <1>15 DEF scroll
  <2>2. /\ CellsOf(left) = CellsOf(rows) \ {rows[n].cell}
        /\ Len(left) = Len(rows) - 1 /\ left \in Seq(Row)
    BY <1>5, <1>13
  <2>3. Shown(items, top, left)
    BY <1>2, <1>4, ShownTail
  <2>4. d \in Cells /\ d \notin CellsOf(rows) \ {rows[n].cell}
    BY <1>1, <1>6, <1>8, <1>10, <1>15 DEF Row
  <2>5. rows' = <<row>> \o left
    <3>1. (top - 1) + 1 = top
      BY <1>1
    <3>2. cellForRow(d, 1) = row
      BY <1>9, <2>1, <3>1 DEF cellForRow
    <3> QED  BY <1>7, <1>10, <1>15, <3>2
  <2>6. Shown(items, top - 1, <<row>> \o left)
    BY <1>2, <2>1, <2>2, <2>3, <2>4, ShownPrepend
  <2>7. row \in Row /\ row.cell = d
    <3>1. top \in 1 .. Len(items)
      BY <1>1, <1>2, <2>1
    <3>2. items[top] \in Items
      BY <1>2, <3>1 DEF Listed
    <3> QED  BY <2>4, <3>2 DEF Row
  <2>8. Moved(n, d, rows, <<row>> \o left)
    BY <1>2, <1>5, <2>4, <2>7, RowComes
  <2>9. Len(<<row>> \o left) = Len(rows)
    <3> HIDE DEF left, row
    <3>1. Len(<<row>> \o left) = Len(left) + 1
      BY <2>2, <2>7, PrependSeq
    <3> QED  BY <1>1, <2>2, <3>1
  <2>10. Screen(items, top - 1, <<row>> \o left)
    BY <1>2, <2>6, <2>9 DEF Screen
  <2>11. SInv'
    BY <1>9, <2>1, <2>5, <2>10 DEF SInv
  <2>12. Replaced(n, d, {d})
    BY <2>5, <2>8 DEF Replaced
  <2>13. rows' # rows
    <3>1. (<<row>> \o left)[1].item = items[(top - 1) + 1]
      BY <1>5, <2>6, <2>9 DEF Shown
    <3>2. rows[1].item = items[top + 1]
      BY <1>2, <1>5 DEF Shown
    <3>3. (top - 1) + 1 \in 1 .. Len(items) /\ top + 1 \in 1 .. Len(items) /\ (top - 1) + 1 # top + 1
      BY <1>1, <1>2, <1>4, <2>1
    <3>4. items[(top - 1) + 1] # items[top + 1]
      BY <1>12, <3>3
    <3> QED  BY <2>5, <3>1, <3>2, <3>4
  <2> QED  BY <1>5, <1>11, <2>11, <2>12, <2>13
<1> QED  BY <1>14, <1>15

(* reloadData: a screen of new rows, every cell on it reset.                *)
LEMMA ReloadStep ==
  ASSUME SInv, Listed(items'), Len(items') >= Len(items), reloadData
  PROVE  /\ SInv'
         /\ reset(CellsOf(rows)', state, actionsView)
<1> DEFINE n == Smaller(Height, Len(items') - top)
<1>1. /\ Len(rows) \in Nat /\ top \in Nat /\ Len(items) \in Nat /\ Height \in Nat \ {0}
      /\ Len(rows) = Smaller(Height, Len(items))
      /\ top + Len(rows) =< Len(items)
  BY VisibleCells DEF SInv, Screen, Shown
<1>2. Len(items') \in Nat
  BY DEF Listed
<1>3. n \in Nat /\ n = Smaller(Height, Len(items')) /\ top + n =< Len(items')
  BY <1>1, <1>2 DEF Smaller
<1>4. PICK cells \in [1 .. n -> Cells] :
        /\ IsInjective(cells)
        /\ rows' = [r \in DOMAIN cells |-> cellForRow(cells[r], r)]
        /\ reset(ToSet(cells), state, actionsView)
  BY DEF reloadData
<1>5. top' = top
  BY DEF reloadData
<1> HIDE DEF n
<1>6. rows' = [r \in 1 .. n |-> [cell |-> cells[r], item |-> items'[top + r]]]
  BY <1>4, <1>5 DEF cellForRow
<1>7. \A r \in 1 .. n : [cell |-> cells[r], item |-> items'[top + r]] \in Row
  <2> SUFFICES ASSUME NEW r \in 1 .. n
               PROVE  [cell |-> cells[r], item |-> items'[top + r]] \in Row
    OBVIOUS
  <2>1. top + r \in 1 .. Len(items')
    BY <1>1, <1>2, <1>3
  <2>2. items'[top + r] \in Items
    BY <2>1 DEF Listed
  <2> QED  BY <2>2 DEF Row
<1>8. rows' \in Seq(Row) /\ Len(rows') = n
  BY <1>3, <1>6, <1>7
<1>9. Shown(items', top, rows')
  <2>1. \A r, q \in 1 .. n : rows'[r].cell = rows'[q].cell => r = q
    BY <1>4, <1>6 DEF IsInjective
  <2>2. \A r \in 1 .. n : rows'[r].item = items'[top + r]
    BY <1>6
  <2> QED  BY <1>1, <1>3, <1>8, <2>1, <2>2 DEF Shown
<1>10. SInv'
  BY <1>3, <1>5, <1>8, <1>9 DEF SInv, Screen
<1>11. CellsOf(rows') = ToSet(cells)
  BY <1>6, <1>8 DEF CellsOf, ToSet
<1> QED  BY <1>4, <1>10, <1>11
(* perform: the row that shows the cell goes with its item; a cell that has *)
(* left the table deletes nothing.                                          *)
LEMMA PerformStep ==
  ASSUME SInv, NEW c \in Cells, NEW st, perform(c, st)
  PROVE  /\ SInv'
         /\ \/ /\ c \notin Visible /\ state' = st
               /\ actionsView' = [actionsView EXCEPT ![c] = "expanded"]
               /\ UNCHANGED <<items, top, rows, animator, pending>>
            \/ /\ animator' = [animator EXCEPT ![c] = "none"]
               /\ pending' = [pending EXCEPT ![c] = @ + 1]
               /\ \E r \in DOMAIN rows :
                    /\ rows[r].cell = c
                    /\ rows[r].item \in ToSet(items)
                    /\ ToSet(items') = ToSet(items) \ {rows[r].item}
                    /\ \E d, D : /\ Replaced(r, d, D)
                                 /\ reset(D, st, [actionsView EXCEPT ![c] = "expanded"])
<1>1. CASE c \in Visible
  <2>1. PICK r \in DOMAIN rows :
          /\ rows[r].cell = c
          /\ animator' = [animator EXCEPT ![c] = "none"]
          /\ pending' = [pending EXCEPT ![c] = @ + 1]
          /\ deleteAction(r)
          /\ deleteRows(r, st, [actionsView EXCEPT ![c] = "expanded"])
    BY <1>1 DEF perform
  <2>2. /\ SInv'
        /\ rows[r].item \in ToSet(items)
        /\ ToSet(items') = ToSet(items) \ {rows[r].item}
        /\ \E d, D : /\ Replaced(r, d, D)
                     /\ reset(D, st, [actionsView EXCEPT ![c] = "expanded"])
    BY <2>1, DeleteStep
  <2> QED  BY <2>1, <2>2
<1>2. CASE c \notin Visible
  <2>1. /\ state' = st
        /\ actionsView' = [actionsView EXCEPT ![c] = "expanded"]
        /\ UNCHANGED <<items, top, rows, animator, pending>>
    BY <1>2 DEF perform
  <2>2. SInv'
    BY <2>1 DEF SInv
  <2> QED  BY <1>2, <2>1, <2>2
<1> QED  BY <1>1, <1>2

(* saveData: the new item is listed once more, and the table reloaded.      *)
LEMMA SaveStep ==
  ASSUME SInv, NEW x \in Items, NEW i \in 1 .. Len(items) + 1, saveData(x, i)
  PROVE  /\ SInv'
         /\ ToSet(items') = ToSet(items) \cup {x}
         /\ reset(CellsOf(rows)', state, actionsView)
<1>1. /\ x \notin ToSet(items) /\ items' = InsertAt(items, i, x) /\ reloadData
  BY DEF saveData
<1>2. Listed(items) /\ Len(items) \in Nat
  BY VisibleCells DEF SInv, Screen
<1>3. /\ Listed(items') /\ Len(items') = Len(items) + 1
      /\ ToSet(items') = ToSet(items) \cup {x}
  BY <1>1, <1>2, InsertAtListed
<1>4. Len(items') >= Len(items)
  BY <1>2, <1>3
<1> QED  BY <1>1, <1>3, <1>4, ReloadStep

LEMMA TapReload ==
  ASSUME SInv, reloadData, UNCHANGED items
  PROVE  SInv' /\ reset(CellsOf(rows)', state, actionsView)
<1>1. Listed(items') /\ Len(items') >= Len(items)
  BY VisibleCells DEF SInv, Screen
<1> QED  BY <1>1, ReloadStep

LEMMA ScreenStep == SInv /\ [Next]_vars => SInv'
<1> SUFFICES ASSUME SInv, [Next]_vars PROVE SInv'
  OBVIOUS
<1>1. CASE UNCHANGED <<items, top, rows>>
  BY <1>1 DEF SInv
<1>2. ASSUME NEW c \in Cells, NEW st, perform(c, st) PROVE SInv'
  BY <1>2, PerformStep
<1>3. ASSUME NEW c \in Cells, tap(c) PROVE SInv'
  <2>1. CASE reloadData /\ UNCHANGED items
    BY <2>1, TapReload
  <2> QED  BY <1>1, <1>3, <2>1 DEF tap
<1>4. ASSUME NEW c \in Cells, NEW toLeft \in BOOLEAN, NEW centred \in BOOLEAN,
             panEnded(c, toLeft, centred)
      PROVE  SInv'
  BY <1>1, <1>2, <1>4 DEF panEnded
<1>5. ASSUME NEW c \in Cells, actionTapped(c) PROVE SInv'
  BY <1>2, <1>5 DEF actionTapped
<1>6. ASSUME NEW down \in BOOLEAN, scroll(down) PROVE SInv'
  BY <1>6, ScrollStep
<1>7. ASSUME NEW x \in Items, NEW i \in 1 .. Len(items) + 1, saveData(x, i) PROVE SInv'
  BY <1>7, SaveStep
<1>8. ASSUME NEW c \in Cells,
             \/ touchDown(c) \/ lift(c) \/ animatorDone(c) \/ deletionDone(c)
             \/ \E toLeft \in BOOLEAN : panBegan(c, toLeft)
             \/ \E expanded, jump \in BOOLEAN : panChanged(c, expanded, jump)
      PROVE  UNCHANGED <<items, top, rows>>
  BY <1>8 DEF touchDown, lift, animatorDone, deletionDone, panBegan, panChanged
<1>9. CASE handleTablePan \/ UNCHANGED vars
  BY <1>1, <1>9 DEF handleTablePan, vars
<1> QED
  BY <1>1, <1>3, <1>4, <1>5, <1>6, <1>7, <1>8, <1>9 DEF Next

LEMMA ScreenAtStart == Init => SInv
<1> SUFFICES ASSUME Init PROVE SInv
  OBVIOUS
<1>1. items = << >> /\ rows = << >> /\ top = 0
  BY DEF Init
<1>2. Len(items) = 0 /\ Len(rows) = 0 /\ items \in Seq(Items) /\ rows \in Seq(Row)
  BY <1>1
<1>3. Height \in Nat \ {0}
  BY SwipeTableAssumption
<1>4. Listed(items)
  BY <1>1, <1>2 DEF Listed, IsInjective
<1>5. Shown(items, top, rows)
  BY <1>1, <1>2 DEF Shown
<1>6. Len(rows) = Smaller(Height, Len(items))
  BY <1>2, <1>3 DEF Smaller
<1> QED  BY <1>4, <1>5, <1>6 DEF SInv, Screen

LEMMA ScreenInvariant == Spec => []SInv
BY ScreenAtStart, ScreenStep, PTL DEF Spec

(* The screen is full as far as there are rows and every visible cell shows *)
(* the item at its index path, with any number of cells, items and rows on  *)
(* the screen: deletions, which reload nothing, shift the rows and the      *)
(* items alike.                                                             *)
THEOREM RowsAlwaysShowItems == Spec => []RowsShowItems
<1>1. SInv => RowsShowItems
  <2> SUFFICES ASSUME SInv PROVE RowsShowItems
    OBVIOUS
  <2>1. DOMAIN rows = 1 .. Len(rows)
    BY VisibleCells
  <2> QED  BY <2>1 DEF SInv, Screen, Shown, RowsShowItems
<1> QED  BY <1>1, ScreenInvariant, PTL
------------------------------------------------------------------------------
(* The cells.  A view is expanded only where the cell is off its resting    *)
(* position, and a cell that is dragged has no completion outstanding: the  *)
(* drag's beginning stopped its animator, and nothing starts another.       *)
States == {"center", "dragging", "right", "animatingToCenter"}

Handled(st, av, an) ==
  /\ st \in [Cells -> States]
  /\ av = [c \in Cells |-> av[c]] /\ an = [c \in Cells |-> an[c]]
  /\ \A c \in Cells : av[c] = "expanded" => st[c] # "center"
  /\ \A c \in Cells : st[c] = "dragging" => an[c] = "none"

CInv == Handled(state, actionsView, animator) /\ pending \in [Cells -> Nat]

LEMMA ResetHandled ==
  ASSUME NEW D, NEW st, NEW av, NEW an, Handled(st, av, an), reset(D, st, av), animator' = an
  PROVE  Handled(state', actionsView', animator')
BY DEF Handled, reset, States

LEMMA PerformHandled ==
  ASSUME SInv, CInv, NEW c \in Cells, NEW st \in [Cells -> States],
         \A b \in Cells \ {c} : st[b] = state[b],
         st[c] = state[c] \/ st[c] = "right", st[c] # "center", perform(c, st)
  PROVE  CInv'
<1> DEFINE av == [actionsView EXCEPT ![c] = "expanded"]
           an == [animator EXCEPT ![c] = "none"]
<1>1. Handled(st, av, animator) /\ Handled(st, av, an)
  BY DEF CInv, Handled
<1> HIDE DEF av, an
<1>2. CASE /\ state' = st /\ actionsView' = av
           /\ UNCHANGED <<animator, pending>>
  BY <1>1, <1>2 DEF CInv
<1>3. ASSUME animator' = an, pending' = [pending EXCEPT ![c] = @ + 1],
             NEW D, reset(D, st, av)
      PROVE  CInv'
  <2>1. Handled(state', actionsView', animator')
    BY <1>1, <1>3, ResetHandled
  <2>2. pending' \in [Cells -> Nat]
    BY <1>3 DEF CInv
  <2> QED  BY <2>1, <2>2 DEF CInv
<1> QED  BY <1>2, <1>3, PerformStep DEF av, an

LEMMA HideSwipeHandled ==
  ASSUME CInv, NEW S, hideSwipe(S), UNCHANGED <<actionsView, pending>>
  PROVE  CInv'
BY DEF CInv, Handled, hideSwipe, Open, States

LEMMA ControlStep == SInv /\ CInv /\ [Next]_vars => CInv'
<1> SUFFICES ASSUME SInv, CInv, [Next]_vars PROVE CInv'
  OBVIOUS
<1>0. CASE UNCHANGED <<state, actionsView, animator, pending>>
  BY <1>0 DEF CInv
<1>1. ASSUME NEW c \in Cells, touchDown(c) PROVE CInv'
  <2>1. CASE hideSwipe(Visible)
    BY <1>1, <2>1, HideSwipeHandled DEF touchDown
  <2> QED  BY <1>0, <1>1, <2>1 DEF touchDown
<1>2. ASSUME NEW c \in Cells, lift(c) PROVE CInv'
  BY <1>0, <1>2 DEF lift
<1>3. ASSUME NEW c \in Cells, tap(c) PROVE CInv'
  <2>1. CASE hideSwipe({c}) /\ UNCHANGED actionsView
    BY <1>3, <2>1, HideSwipeHandled DEF tap
  <2>2. CASE reloadData /\ UNCHANGED animator
    <3>1. PICK D : reset(D, state, actionsView)
      BY <2>2 DEF reloadData
    <3>2. Handled(state', actionsView', animator')
      BY <2>2, <3>1, ResetHandled DEF CInv
    <3> QED  BY <1>3, <3>2 DEF CInv, tap
  <2> QED  BY <1>3, <2>1, <2>2 DEF tap
<1>4. ASSUME NEW c \in Cells, actionTapped(c) PROVE CInv'
  <2>1. perform(c, state) /\ state[c] \in {"right", "dragging"}
    BY <1>4 DEF actionTapped
  <2> QED  BY <2>1, PerformHandled DEF CInv, Handled
<1>5. ASSUME NEW c \in Cells, animatorDone(c) PROVE CInv'
  <2>1. animator' = [animator EXCEPT ![c] = "none"] /\ UNCHANGED pending
    BY <1>5 DEF animatorDone
  <2>2. Handled(state, actionsView, animator')
    BY <2>1 DEF CInv, Handled
  <2>3. PICK D : reset(D, state, actionsView)
    BY <1>5 DEF animatorDone
  <2> QED  BY <2>1, <2>2, <2>3, ResetHandled DEF CInv
<1>6. ASSUME NEW c \in Cells, deletionDone(c) PROVE CInv'
  <2>1. /\ pending[c] > 0 /\ pending' = [pending EXCEPT ![c] = @ - 1]
        /\ UNCHANGED animator /\ reset({c}, state, actionsView)
    BY <1>6 DEF deletionDone
  <2>2. pending' \in [Cells -> Nat]
    BY <2>1 DEF CInv
  <2> QED  BY <2>1, <2>2, ResetHandled DEF CInv
<1>7. ASSUME NEW c \in Cells, NEW toLeft \in BOOLEAN, panBegan(c, toLeft) PROVE CInv'
  BY <1>7 DEF panBegan, stopAnimator, CInv, Handled, States
<1>8. ASSUME NEW c \in Cells, NEW toLeft \in BOOLEAN, NEW centred \in BOOLEAN,
             panEnded(c, toLeft, centred)
      PROVE  CInv'
  <2> DEFINE st == [state EXCEPT ![c] = targetState(c, toLeft)]
  <2>1. /\ targetState(c, toLeft) \in {"right", "center"}
        /\ actionsView[c] = "expanded" => targetState(c, toLeft) = "right"
    BY DEF targetState
  <2>2. CASE actionsView[c] = "expanded" /\ perform(c, st)
    <3>1. /\ st \in [Cells -> States] /\ st[c] = "right"
          /\ \A b \in Cells \ {c} : st[b] = state[b]
      BY <2>1, <2>2 DEF CInv, Handled, States
    <3> HIDE DEF st
    <3> QED  BY <2>2, <3>1, PerformHandled
  <2>3. CASE /\ actionsView[c] # "expanded" /\ state' = st
             /\ animator' = [animator EXCEPT ![c] = "settle"]
             /\ UNCHANGED <<actionsView, pending>>
    BY <2>1, <2>3 DEF CInv, Handled, States
  <2> QED  BY <1>0, <1>8, <2>2, <2>3 DEF panEnded
<1>9. ASSUME NEW c \in Cells, NEW expanded \in BOOLEAN, NEW jump \in BOOLEAN,
             panChanged(c, expanded, jump)
      PROVE  CInv'
  BY <1>9 DEF panChanged, stopAnimator, IsActive, CInv, Handled, States
<1>10. ASSUME NEW down \in BOOLEAN, scroll(down) PROVE CInv'
  <2>1. UNCHANGED <<animator, pending>>
    BY <1>10 DEF scroll
  <2>2. PICK D : reset(D, state, actionsView)
    BY <1>10, ScrollStep
  <2> QED  BY <2>1, <2>2, ResetHandled DEF CInv
<1>11. ASSUME NEW x \in Items, NEW i, saveData(x, i) PROVE CInv'
  <2>1. PICK D : reset(D, state, actionsView)
    BY <1>11 DEF saveData, reloadData
  <2>2. UNCHANGED <<animator, pending>>
    BY <1>11 DEF saveData
  <2> QED  BY <2>1, <2>2, ResetHandled DEF CInv
<1>12. CASE handleTablePan
  BY <1>12, HideSwipeHandled DEF handleTablePan
<1>13. CASE UNCHANGED vars
  BY <1>0, <1>13 DEF vars, cellVars
<1> QED
  BY <1>1, <1>2, <1>3, <1>4, <1>5, <1>6, <1>7, <1>8, <1>9, <1>10, <1>11, <1>12, <1>13 DEF Next

LEMMA CellsInvariant == Spec => [](IInv /\ SInv /\ CInv)
<1>1. Init => IInv /\ CInv
  BY DEF Init, IInv, OverCells, CInv, Handled, States
<1> QED  BY <1>1, NextInv, ScreenAtStart, ScreenStep, ControlStep, PTL DEF Spec
------------------------------------------------------------------------------
(* Only two actions take an item from the list: a pan that ends with the    *)
(* actions view expanded, and a tap on its button.                          *)
LEMMA PerformDeletes ==
  ASSUME SInv, CInv, NEW c \in Cells, NEW st, perform(c, st), IsActive(c),
         NEW x \in ToSet(items) \ ToSet(items')
  PROVE  \E r \in DOMAIN rows : /\ rows[r].item = x /\ IsActive(rows[r].cell)
                                /\ pending'[rows[r].cell] > pending[rows[r].cell]
<1>1. items' # items
  OBVIOUS
<1>2. PICK r \in DOMAIN rows :
        /\ rows[r].cell = c
        /\ pending' = [pending EXCEPT ![c] = @ + 1]
        /\ ToSet(items') = ToSet(items) \ {rows[r].item}
  BY <1>1, PerformStep
<1>3. rows[r].item = x
  BY <1>2
<1>4. pending'[c] > pending[c]
  BY <1>2 DEF CInv
<1> QED  BY <1>2, <1>3, <1>4

LEMMA DeletionStep ==
  ASSUME SInv, CInv, [Next]_vars, NEW x \in ToSet(items) \ ToSet(items')
  PROVE  \E r \in DOMAIN rows : /\ rows[r].item = x /\ IsActive(rows[r].cell)
                                /\ pending'[rows[r].cell] > pending[rows[r].cell]
<1>1. items' # items
  OBVIOUS
<1>2. ASSUME NEW c \in Cells, NEW toLeft \in BOOLEAN, NEW centred \in BOOLEAN,
             panEnded(c, toLeft, centred)
      PROVE  /\ IsActive(c)
             /\ perform(c, [state EXCEPT ![c] = targetState(c, toLeft)])
  <2>1. actionsView[c] = "expanded" /\ perform(c, [state EXCEPT ![c] = targetState(c, toLeft)])
    BY <1>1, <1>2 DEF panEnded
  <2> QED  BY <2>1 DEF CInv, Handled, IsActive
<1>3. ASSUME NEW c \in Cells, actionTapped(c) PROVE IsActive(c) /\ perform(c, state)
  BY <1>3 DEF actionTapped, IsActive
<1>4. ASSUME NEW y \in Items, NEW i \in 1 .. Len(items) + 1, saveData(y, i) PROVE FALSE
  BY <1>4, SaveStep
<1>5. ASSUME NEW c \in Cells,
             \/ touchDown(c) \/ lift(c) \/ tap(c) \/ animatorDone(c) \/ deletionDone(c)
             \/ \E toLeft \in BOOLEAN : panBegan(c, toLeft)
             \/ \E expanded, jump \in BOOLEAN : panChanged(c, expanded, jump)
      PROVE  UNCHANGED items
  BY <1>5 DEF touchDown, lift, tap, animatorDone, deletionDone, panBegan, panChanged
<1>6. ASSUME handleTablePan \/ \E down \in BOOLEAN : scroll(down) PROVE UNCHANGED items
  BY <1>6 DEF handleTablePan, scroll
<1>7. PICK c \in Cells : \/ actionTapped(c)
                         \/ \E toLeft, centred \in BOOLEAN : panEnded(c, toLeft, centred)
  BY <1>1, <1>4, <1>5, <1>6 DEF Next, vars
<1>8. PICK st : IsActive(c) /\ perform(c, st)
  BY <1>2, <1>3, <1>7
<1> QED  BY <1>8, PerformDeletes

(* The item deleted is the one shown by the cell that was swiped, whatever  *)
(* moved, was reused or deleted since the finger went down: the row is      *)
(* looked up when the action fires, an item is listed once, and an expanded *)
(* view belongs to a cell that is off its resting position.                 *)
THEOREM TheSwipedItemGoes == Spec => DeletesTheSwipedItem
<1> DEFINE BySwipe == \A x \in ToSet(items) \ ToSet(items') :
                        \E r \in DOMAIN rows :
                          /\ rows[r].item = x /\ IsActive(rows[r].cell)
                          /\ pending'[rows[r].cell] > pending[rows[r].cell]
<1>1. IInv /\ SInv /\ CInv /\ [Next]_vars => [BySwipe]_vars
  BY DeletionStep
<1> QED  BY <1>1, CellsInvariant, PTL DEF Spec, DeletesTheSwipedItem

(* A drag is never cut short by an animator left over from the cell's       *)
(* earlier life: while it lasts no completion is outstanding, so what can   *)
(* take the cell to the centre is its finger, a change of the rows or the   *)
(* end of a deletion of the very cell.                                      *)
Cut(c) == /\ c \in Visible /\ state[c] = "dragging" /\ state'[c] = "center"
          /\ finger[c] = finger'[c] /\ <<rows, items>>' = <<rows, items>>
          /\ pending[c] = pending'[c]

FInv == finger = [c \in Cells |-> finger[c]]

LEMMA FingerStep == FInv /\ [Next]_vars => FInv'
<1> SUFFICES ASSUME FInv, [Next]_vars PROVE FInv'
  OBVIOUS
<1>1. ASSUME NEW c \in Cells,
             \/ touchDown(c) \/ lift(c) \/ tap(c) \/ actionTapped(c)
             \/ animatorDone(c) \/ deletionDone(c)
      PROVE  FInv'
  BY <1>1 DEF FInv, touchDown, lift, tap, actionTapped, animatorDone, deletionDone
<1>2. ASSUME NEW c \in Cells,
             \/ \E toLeft \in BOOLEAN : \/ panBegan(c, toLeft)
                                       \/ \E centred \in BOOLEAN : panEnded(c, toLeft, centred)
             \/ \E expanded, jump \in BOOLEAN : panChanged(c, expanded, jump)
      PROVE  FInv'
  BY <1>2 DEF FInv, panBegan, panEnded, panChanged
<1>3. ASSUME NEW down, scroll(down) PROVE FInv'
  BY <1>3 DEF FInv, scroll
<1>4. ASSUME NEW x, NEW i, saveData(x, i) PROVE FInv'
  BY <1>4 DEF FInv, saveData
<1>5. CASE handleTablePan \/ UNCHANGED vars
  BY <1>5 DEF FInv, handleTablePan, vars, cellVars
<1> QED  BY <1>1, <1>2, <1>3, <1>4, <1>5 DEF Next

LEMMA FingerInvariant == Spec => []FInv
<1>1. Init => FInv
  BY DEF Init, FInv
<1> QED  BY <1>1, FingerStep, PTL DEF Spec

LEMMA NoDragCut == SInv /\ CInv /\ FInv /\ [Next]_vars => \A c \in Cells : ~Cut(c)
<1> SUFFICES ASSUME SInv, CInv, FInv, [Next]_vars, NEW c \in Cells, Cut(c) PROVE FALSE
  OBVIOUS
<1>1. /\ c \in Visible /\ state[c] = "dragging" /\ state'[c] = "center"
      /\ finger[c] = finger'[c] /\ rows' = rows /\ items' = items
      /\ pending[c] = pending'[c]
  BY DEF Cut
<1>2. state # state' /\ animator[c] = "none"
  BY <1>1 DEF CInv, Handled
<1>3. ASSUME NEW b \in Cells, NEW D, reset(D, state, actionsView), c \notin D PROVE FALSE
  BY <1>1, <1>3 DEF reset
<1>4. ASSUME NEW S, hideSwipe(S) PROVE FALSE
  BY <1>1, <1>4 DEF hideSwipe, Open
<1>5. ASSUME NEW b \in Cells, touchDown(b) PROVE FALSE
  BY <1>2, <1>4, <1>5 DEF touchDown
<1>6. ASSUME NEW b \in Cells, tap(b) PROVE FALSE
  <2>1. \E d \in Visible : IsActive(d) \/ finger[d] = "pan"
    BY <1>1 DEF IsActive
  <2> QED  BY <1>4, <1>6, <2>1 DEF tap
<1>7. ASSUME NEW b \in Cells, NEW st, perform(b, st), st[c] # "center" PROVE FALSE
  <2>1. CASE state' = st
    BY <1>1, <1>7, <2>1
  <2>2. ASSUME NEW r \in DOMAIN rows, rows[r].item \in ToSet(items),
               ToSet(items') = ToSet(items) \ {rows[r].item}
        PROVE  FALSE
    BY <1>1, <2>2
  <2> QED  BY <1>7, <2>1, <2>2, PerformStep
<1>8. ASSUME NEW b \in Cells, actionTapped(b) PROVE FALSE
  <2>1. perform(b, state) /\ state[c] # "center"
    BY <1>1, <1>8 DEF actionTapped
  <2> QED  BY <1>7, <2>1
<1>9. ASSUME NEW b \in Cells, animatorDone(b) PROVE FALSE
  <2> DEFINE D == {d \in {b} : animator[b] = "hide" \/ (animator[b] = "settle" /\ ~IsActive(b))}
  <2>1. reset(D, state, actionsView)
    BY <1>9 DEF animatorDone
  <2>2. c \notin D
    BY <1>2
  <2> QED  BY <1>3, <1>9, <2>1, <2>2
<1>10. ASSUME NEW b \in Cells, deletionDone(b) PROVE FALSE
  <2>1. reset({b}, state, actionsView) /\ pending' = [pending EXCEPT ![b] = @ - 1] /\ pending[b] > 0
    BY <1>10 DEF deletionDone
  <2>2. c # b
    BY <1>1, <2>1 DEF CInv
  <2> QED  BY <1>3, <2>1, <2>2
<1>11. ASSUME NEW b \in Cells, NEW toLeft \in BOOLEAN, panBegan(b, toLeft) PROVE FALSE
  BY <1>1, <1>11 DEF panBegan, CInv, Handled
<1>12. ASSUME NEW b \in Cells, NEW toLeft \in BOOLEAN, NEW centred \in BOOLEAN,
              panEnded(b, toLeft, centred)
       PROVE  FALSE
  <2> DEFINE st == [state EXCEPT ![b] = targetState(b, toLeft)]
  <2>1. b # c
    <3>1. finger[b] = "pan" /\ finger' = [finger EXCEPT ![b] = "up"]
      BY <1>12 DEF panEnded
    <3> QED  BY <1>1, <3>1 DEF FInv
  <2>2. st[c] # "center" /\ (state' = st => FALSE)
    <3>1. st[c] # "center"
      BY <1>1, <2>1 DEF CInv, Handled
    <3> QED  BY <1>1, <3>1
  <2> HIDE DEF st
  <2>3. UNCHANGED state \/ perform(b, st) \/ state' = st
    BY <1>12 DEF panEnded, st
  <2> QED  BY <1>2, <1>7, <2>2, <2>3
<1>13. ASSUME NEW b \in Cells, NEW expanded \in BOOLEAN, NEW jump \in BOOLEAN,
              panChanged(b, expanded, jump)
       PROVE  FALSE
  BY <1>2, <1>13 DEF panChanged
<1>14. ASSUME NEW down \in BOOLEAN, scroll(down) PROVE FALSE
  BY <1>1, <1>14, ScrollStep
<1>15. ASSUME NEW x \in Items, NEW i \in 1 .. Len(items) + 1, saveData(x, i) PROVE FALSE
  <2>1. x \notin ToSet(items)
    BY <1>15 DEF saveData
  <2> QED  BY <1>1, <1>15, <2>1, SaveStep
<1>16. ASSUME NEW b \in Cells, lift(b) PROVE FALSE
  BY <1>2, <1>16 DEF lift
<1> QED
  BY <1>2, <1>4, <1>5, <1>6, <1>8, <1>9, <1>10, <1>11, <1>12, <1>13, <1>14, <1>15, <1>16
  DEF Next, handleTablePan, vars, cellVars
(* The drag of a cell in the table ends with its finger, or because the     *)
(* rows or the items changed, or its own deletion ended, for any number of  *)
(* cells and fingers.                                                       *)
THEOREM DragsAreNotCut == Spec => DragsEndByHand
<1> DEFINE ByHand == \A c \in Visible : state[c] = "dragging" /\ state'[c] = "center" =>
                       \/ finger[c] # finger'[c]
                       \/ <<rows, items>>' # <<rows, items>>
                       \/ pending[c] # pending'[c]
<1>1. SInv /\ CInv /\ FInv /\ [Next]_vars => [ByHand]_vars
  <2> SUFFICES ASSUME SInv, CInv, FInv, [Next]_vars, NEW c \in Visible,
                      state[c] = "dragging", state'[c] = "center"
               PROVE  \/ finger[c] # finger'[c]
                      \/ <<rows, items>>' # <<rows, items>>
                      \/ pending[c] # pending'[c]
    OBVIOUS
  <2>1. c \in Cells
    <3>1. PICK r \in 1 .. Len(rows) : c = rows[r].cell
      BY VisibleCells DEF Visible
    <3>2. rows[r] \in Row
      BY DEF SInv, Screen, Shown
    <3> QED  BY <3>1, <3>2 DEF Row
  <2> QED  BY <2>1, NoDragCut DEF Cut
<1> QED  BY <1>1, CellsInvariant, FingerInvariant, PTL DEF Spec, DragsEndByHand
------------------------------------------------------------------------------
(* The refinement.  The abstract phase of an item is the position of the    *)
(* cell that shows it, and closed where no cell does.                       *)
Bar == [x \in Items |-> IF \E r \in DOMAIN rows : rows[r].item = x
                        THEN PhaseOf(CellOf(x)) ELSE "closed"]

Position(s) == CASE s = "center" -> "closed"
                 [] s = "dragging" -> "swiping"
                 [] s = "right" -> "open"
                 [] s = "animatingToCenter" -> "closing"

BarInv ==
  /\ Bar = [x \in Items |-> Bar[x]]
  /\ \A r \in 1 .. Len(rows) :
       rows[r].item \in Items /\ rows[r].cell \in Cells
       /\ Bar[rows[r].item] = Position(state[rows[r].cell])
  /\ \A x \in Items : (\A r \in 1 .. Len(rows) : rows[r].item # x) => Bar[x] = "closed"

LEMMA RowsDiffer ==
  ASSUME SInv, NEW r \in 1 .. Len(rows), NEW q \in 1 .. Len(rows), rows[r].item = rows[q].item
  PROVE  r = q
<1>1. rows[r].item = items[top + r] /\ rows[q].item = items[top + q]
  BY DEF SInv, Screen, Shown
<1>2. top + r \in 1 .. Len(items) /\ top + q \in 1 .. Len(items)
  BY VisibleCells DEF SInv, Screen, Shown
<1>3. \A i, j \in 1 .. Len(items) : items[i] = items[j] => i = j
  BY DEF SInv, Screen, Listed, IsInjective
<1>4. top + r = top + q
  BY <1>1, <1>2, <1>3
<1> QED  BY <1>4, VisibleCells

LEMMA BarIs == SInv => BarInv
<1> SUFFICES ASSUME SInv PROVE BarInv
  OBVIOUS
<1>1. DOMAIN rows = 1 .. Len(rows) /\ rows \in Seq(Row)
  BY VisibleCells DEF SInv, Screen, Shown
<1>2. ASSUME NEW r \in 1 .. Len(rows)
      PROVE  /\ rows[r].item \in Items /\ rows[r].cell \in Cells
             /\ Bar[rows[r].item] = Position(state[rows[r].cell])
  <2>1. rows[r] \in Row
    BY <1>1
  <2>2. rows[r].item \in Items /\ rows[r].cell \in Cells
    BY <2>1 DEF Row
  <2>3. rows[r] \in ToSet(rows)
    BY <1>1 DEF ToSet
  <2>4. \A row \in ToSet(rows) : row.item = rows[r].item => row = rows[r]
    BY <1>1, RowsDiffer DEF ToSet
  <2>5. CellOf(rows[r].item) = rows[r].cell
    <3>1. (CHOOSE row \in ToSet(rows) : row.item = rows[r].item) = rows[r]
      BY <2>3, <2>4
    <3> QED  BY <3>1 DEF CellOf
  <2>6. Bar[rows[r].item] = PhaseOf(CellOf(rows[r].item))
    BY <1>1, <2>2 DEF Bar
  <2> QED  BY <2>2, <2>5, <2>6 DEF PhaseOf, Position
<1>3. Bar = [x \in Items |-> Bar[x]]
  BY DEF Bar
<1>4. \A x \in Items : (\A r \in 1 .. Len(rows) : rows[r].item # x) => Bar[x] = "closed"
  BY <1>1 DEF Bar
<1> QED  BY <1>2, <1>3, <1>4 DEF BarInv

LEMMA BarIsNext == SInv' => BarInv'
BY BarIs, PTL
(* The phases after a row went and at most one came: those of the rows that *)
(* stay follow their cells, and the rest are closed.                        *)
LEMMA MovedPhases ==
  ASSUME SInv, SInv', NEW r \in 1 .. Len(rows), NEW d, NEW D, NEW st, NEW av,
         Replaced(r, d, D), reset(D, st, av)
  PROVE  /\ \A p \in 1 .. Len(rows) :
              p # r => Bar'[rows[p].item] = Position(st[rows[p].cell])
         /\ \A x \in Items :
              (\A p \in 1 .. Len(rows) : p # r => rows[p].item # x) => Bar'[x] = "closed"
<1>1. /\ Moved(r, d, rows, rows') /\ D \subseteq {d}
      /\ d \in CellsOf(rows') => d \in D
  BY DEF Replaced
<1>2. BarInv /\ BarInv'
  BY BarIs, BarIsNext
<1>3. ASSUME NEW q \in 1 .. Len(rows')
      PROVE  Bar'[rows'[q].item] = Position(state'[rows'[q].cell])
  BY <1>2 DEF BarInv
<1>4. ASSUME NEW p \in 1 .. Len(rows), p # r
      PROVE  Bar'[rows[p].item] = Position(st[rows[p].cell])
  <2>1. PICK q \in 1 .. Len(rows') : rows'[q] = rows[p]
    BY <1>1, <1>4 DEF Moved
  <2>2. rows[p].cell # rows[r].cell
    BY <1>4 DEF SInv, Screen, Shown
  <2>3. rows[p].cell # d
    BY <1>1, <2>2 DEF Moved, CellsOf
  <2>4. rows[p].cell \in Cells
    BY <1>2 DEF BarInv
  <2>5. state'[rows[p].cell] = st[rows[p].cell]
    BY <1>1, <2>3, <2>4 DEF reset
  <2> QED  BY <1>3, <2>1, <2>5
<1>5. ASSUME NEW x \in Items, \A p \in 1 .. Len(rows) : p # r => rows[p].item # x
      PROVE  Bar'[x] = "closed"
  <2>1. CASE \A q \in 1 .. Len(rows') : rows'[q].item # x
    BY <1>2, <2>1 DEF BarInv
  <2>2. ASSUME NEW q \in 1 .. Len(rows'), rows'[q].item = x PROVE Bar'[x] = "closed"
    <3>1. rows'[q].cell = d
      BY <1>1, <1>5, <2>2 DEF Moved
    <3>2. d \in D /\ d \in Cells
      BY <1>1, <3>1 DEF CellsOf, Moved
    <3>3. state'[d] = "center"
      BY <3>2 DEF reset
    <3> QED  BY <1>3, <2>2, <3>1, <3>3 DEF Position
  <2> QED  BY <2>1, <2>2
<1> QED  BY <1>4, <1>5

(* The abstract steps, from what they ask of the list and the phases.       *)
LEMMA Deletes ==
  ASSUME SInv, SInv', CInv, NEW c \in Cells, NEW st \in [Cells -> States],
         \A b \in Cells \ {c} : st[b] = state[b], IsActive(c),
         NEW r \in DOMAIN rows, rows[r].cell = c,
         rows[r].item \in ToSet(items), ToSet(items') = ToSet(items) \ {rows[r].item},
         NEW d, NEW D, NEW av, Replaced(r, d, D), reset(D, st, av)
  PROVE  Swipes!Next
<1> DEFINE x == rows[r].item
<1>1. BarInv /\ BarInv' /\ r \in 1 .. Len(rows)
  BY BarIs, BarIsNext, VisibleCells
<1>2. x \in Items /\ Bar[x] = Position(state[c])
  BY <1>1 DEF BarInv
<1>3. Bar[x] # "closed"
  BY <1>2 DEF IsActive, Position, CInv, Handled, States
<1>4. /\ \A p \in 1 .. Len(rows) :
           p # r => Bar'[rows[p].item] = Position(st[rows[p].cell])
      /\ \A y \in Items :
           (\A p \in 1 .. Len(rows) : p # r => rows[p].item # y) => Bar'[y] = "closed"
  BY <1>1, MovedPhases
<1>5. ASSUME NEW y \in Items
      PROVE  Bar'[y] = IF y = x THEN "closed" ELSE Bar[y]
  <2>1. CASE y = x
    <3>1. \A p \in 1 .. Len(rows) : p # r => rows[p].item # y
      BY <1>1, <2>1, RowsDiffer
    <3> QED  BY <1>4, <2>1, <3>1
  <2>2. ASSUME NEW p \in 1 .. Len(rows), rows[p].item = y, y # x
        PROVE  Bar'[y] = Bar[y]
    <3>1. p # r
      BY <2>2
    <3>2. rows[p].cell # c /\ rows[p].cell \in Cells
      BY <1>1, <3>1 DEF SInv, Screen, Shown, BarInv
    <3>3. st[rows[p].cell] = state[rows[p].cell]
      BY <3>2
    <3> QED  BY <1>1, <1>4, <2>2, <3>1, <3>3 DEF BarInv
  <2>3. CASE \A p \in 1 .. Len(rows) : rows[p].item # y
    BY <1>1, <1>4, <2>1, <2>3 DEF BarInv
  <2> QED  BY <2>1, <2>2, <2>3
<1>6. Bar = [y \in Items |-> Bar[y]] /\ Bar' = [y \in Items |-> Bar'[y]]
  BY <1>1 DEF BarInv
<1>7. Bar' = [Bar EXCEPT ![x] = "closed"]
  BY <1>2, <1>5, <1>6
<1>8. PICK y \in Items : y = x
  BY <1>2
<1>9. Swipes!Delete(y)
  BY <1>3, <1>7, <1>8 DEF Swipes!Delete, Bar
<1> QED  BY <1>9 DEF Swipes!Next
(* Closing: cells of rows that stay come to rest, and open ones may start   *)
(* to close.                                                                *)
Closes(s, t) == t \in {s, "center"} \/ (s = "right" /\ t = "animatingToCenter")

LEMMA ClosesPositions ==
  ASSUME NEW s \in States, NEW t \in States, Closes(s, t)
  PROVE  /\ Position(t) \in Swipes!Phases
         /\ \/ Position(t) \in {Position(s), "closed"}
            \/ Position(s) = "open" /\ Position(t) = "closing"
BY DEF Closes, States, Position, Swipes!Phases

LEMMA ClosesList ==
  ASSUME SInv, SInv', CInv, UNCHANGED ToSet(items),
         \A x \in Items :
           \/ Bar'[x] = "closed"
           \/ \E p \in 1 .. Len(rows), t \in States :
                rows[p].item = x /\ Closes(state[rows[p].cell], t) /\ Bar'[x] = Position(t)
  PROVE  Swipes!Close
<1>1. BarInv /\ BarInv'
  BY BarIs, BarIsNext
<1>2. ASSUME NEW x \in Items
      PROVE  /\ Bar'[x] \in Swipes!Phases
             /\ \/ Bar'[x] \in {Bar[x], "closed"}
                \/ Bar[x] = "open" /\ Bar'[x] = "closing"
  <2>1. CASE Bar'[x] = "closed"
    BY <2>1 DEF Swipes!Phases
  <2>2. ASSUME NEW p \in 1 .. Len(rows), NEW t \in States, rows[p].item = x,
               Closes(state[rows[p].cell], t), Bar'[x] = Position(t)
        PROVE  /\ Bar'[x] \in Swipes!Phases
               /\ \/ Bar'[x] \in {Bar[x], "closed"}
                  \/ Bar[x] = "open" /\ Bar'[x] = "closing"
    <3>1. Bar[x] = Position(state[rows[p].cell]) /\ rows[p].cell \in Cells
      BY <1>1, <2>2 DEF BarInv
    <3>2. state[rows[p].cell] \in States
      BY <3>1 DEF CInv, Handled
    <3> QED  BY <2>2, <3>1, <3>2, ClosesPositions
  <2> QED  BY <2>1, <2>2
<1>3. Bar' = [x \in Items |-> Bar'[x]]
  BY <1>1 DEF BarInv
<1>4. Bar' \in [Items -> Swipes!Phases]
  BY <1>2, <1>3
<1> QED  BY <1>2, <1>4 DEF Swipes!Close, Bar

(* Where no row moves: the phases follow the cells of the rows.             *)
LEMMA StayingPhases ==
  ASSUME SInv, SInv', UNCHANGED rows
  PROVE  /\ \A p \in 1 .. Len(rows) : Bar'[rows[p].item] = Position(state'[rows[p].cell])
         /\ \A x \in Items :
              Bar'[x] = "closed" \/ \E p \in 1 .. Len(rows) : rows[p].item = x
<1>1. BarInv'
  BY BarIsNext
<1> QED  BY <1>1 DEF BarInv

LEMMA ClosesCells ==
  ASSUME SInv, SInv', CInv, CInv', UNCHANGED <<items, rows>>,
         \A c \in Cells : Closes(state[c], state'[c])
  PROVE  Swipes!Close
<1>1. ASSUME NEW x \in Items
      PROVE  \/ Bar'[x] = "closed"
             \/ \E p \in 1 .. Len(rows), t \in States :
                  rows[p].item = x /\ Closes(state[rows[p].cell], t) /\ Bar'[x] = Position(t)
  <2>1. CASE Bar'[x] = "closed"
    BY <2>1
  <2>2. ASSUME NEW p \in 1 .. Len(rows), rows[p].item = x
        PROVE  \E t \in States : Closes(state[rows[p].cell], t) /\ Bar'[x] = Position(t)
    <3>1. rows[p].cell \in Cells
      BY BarIs DEF BarInv
    <3>2. state'[rows[p].cell] \in States
      BY <3>1 DEF CInv, Handled
    <3> QED  BY <2>2, <3>1, <3>2, StayingPhases
  <2> QED  BY <2>1, <2>2, StayingPhases
<1> QED  BY <1>1, ClosesList

(* A step of one cell: the phase of its row and no other, if it has one.    *)
LEMMA OnePhase ==
  ASSUME SInv, SInv', UNCHANGED <<items, rows>>, NEW c \in Cells, NEW s,
         state' = [state EXCEPT ![c] = s], CInv
  PROVE  /\ c \notin Visible => Bar' = Bar
         /\ \A r \in DOMAIN rows :
              rows[r].cell = c => Bar' = [Bar EXCEPT ![rows[r].item] = Position(s)]
<1>1. BarInv /\ BarInv' /\ DOMAIN rows = 1 .. Len(rows) /\ Visible = CellsOf(rows)
  BY BarIs, BarIsNext, VisibleCells
<1>2. Bar = [y \in Items |-> Bar[y]] /\ Bar' = [y \in Items |-> Bar'[y]]
  BY <1>1 DEF BarInv
<1>3. ASSUME NEW p \in 1 .. Len(rows), rows[p].cell # c
      PROVE  Bar'[rows[p].item] = Bar[rows[p].item]
  <2>1. rows[p].cell \in Cells /\ state'[rows[p].cell] = state[rows[p].cell]
    BY <1>1, <1>3 DEF BarInv, CInv, Handled
  <2> QED  BY <1>1, <2>1, StayingPhases DEF BarInv
<1>4. ASSUME NEW y \in Items, \A p \in 1 .. Len(rows) : rows[p].item = y => rows[p].cell # c
      PROVE  Bar'[y] = Bar[y]
  BY <1>1, <1>3, <1>4, StayingPhases DEF BarInv
<1>5. ASSUME c \notin Visible PROVE Bar' = Bar
  <2>1. \A p \in 1 .. Len(rows) : rows[p].cell # c
    BY <1>1, <1>5 DEF CellsOf
  <2> QED  BY <1>2, <1>4, <2>1
<1>6. ASSUME NEW r \in 1 .. Len(rows), rows[r].cell = c
      PROVE  Bar' = [Bar EXCEPT ![rows[r].item] = Position(s)]
  <2>1. rows[r].item \in Items
    BY <1>1 DEF BarInv
  <2>2. Bar'[rows[r].item] = Position(s)
    <3>1. state'[c] = s
      BY DEF CInv, Handled
    <3> QED  BY <1>6, <3>1, StayingPhases
  <2>3. ASSUME NEW y \in Items, y # rows[r].item PROVE Bar'[y] = Bar[y]
    <3>1. \A p \in 1 .. Len(rows) : rows[p].cell = c => p = r
      BY <1>6 DEF SInv, Screen, Shown
    <3> QED  BY <1>4, <2>3, <3>1
  <2> QED  BY <1>2, <2>1, <2>2, <2>3
<1> QED  BY <1>1, <1>5, <1>6

(* A reload: every row of the new screen has a cell that was reset.         *)
LEMMA ReloadPhases ==
  ASSUME SInv', reset(CellsOf(rows)', state, actionsView)
  PROVE  Bar' = [x \in Items |-> "closed"]
<1>1. BarInv'
  BY BarIsNext
<1>2. ASSUME NEW q \in 1 .. Len(rows') PROVE Bar'[rows'[q].item] = "closed"
  <2>1. rows'[q].cell \in CellsOf(rows') /\ rows'[q].cell \in Cells
    BY <1>1 DEF CellsOf, BarInv
  <2>2. state'[rows'[q].cell] = "center"
    BY <2>1 DEF reset
  <2>3. Bar'[rows'[q].item] = Position(state'[rows'[q].cell])
    BY <1>1 DEF BarInv
  <2> QED  BY <2>2, <2>3 DEF Position
<1>3. ASSUME NEW x \in Items PROVE Bar'[x] = "closed"
  BY <1>1, <1>2 DEF BarInv
<1>4. Bar' = [x \in Items |-> Bar'[x]]
  BY <1>1 DEF BarInv
<1> QED  BY <1>3, <1>4
LEMMA Stutters ==
  ASSUME UNCHANGED ToSet(items), Bar' = Bar
  PROVE  UNCHANGED Swipes!vars
BY DEF Swipes!vars, Bar

LEMMA PerformRefines ==
  ASSUME SInv, SInv', CInv, NEW c \in Cells, NEW st \in [Cells -> States],
         \A b \in Cells \ {c} : st[b] = state[b], st = [state EXCEPT ![c] = st[c]],
         IsActive(c), perform(c, st)
  PROVE  [Swipes!Next]_Swipes!vars
<1>1. CASE c \notin Visible
  <2>1. state' = st /\ UNCHANGED <<items, rows>>
    BY <1>1 DEF perform
  <2>2. Bar' = Bar
    BY <1>1, <2>1, OnePhase
  <2> QED  BY <2>1, <2>2, Stutters
<1>2. CASE c \in Visible
  <2>1. PICK r \in DOMAIN rows :
          /\ rows[r].cell = c
          /\ rows[r].item \in ToSet(items)
          /\ ToSet(items') = ToSet(items) \ {rows[r].item}
          /\ \E d, D : /\ Replaced(r, d, D)
                       /\ reset(D, st, [actionsView EXCEPT ![c] = "expanded"])
    BY <1>2, PerformStep
  <2> QED  BY <2>1, Deletes
<1> QED  BY <1>1, <1>2

LEMMA HideRefines ==
  ASSUME SInv, SInv', CInv, CInv', UNCHANGED <<items, rows>>, NEW S, hideSwipe(S)
  PROVE  Swipes!Next
<1>1. \A c \in Cells : Closes(state[c], state'[c])
  BY DEF hideSwipe, Open, Closes
<1> QED  BY <1>1, ClosesCells DEF Swipes!Next

LEMMA ResetRefines ==
  ASSUME SInv, SInv', CInv, CInv', UNCHANGED <<items, rows>>,
         NEW D, reset(D, state, actionsView)
  PROVE  Swipes!Next
<1>1. \A c \in Cells : Closes(state[c], state'[c])
  BY DEF reset, Closes
<1> QED  BY <1>1, ClosesCells DEF Swipes!Next

LEMMA RowListed ==
  ASSUME SInv, NEW r \in DOMAIN rows
  PROVE  \E x \in Items : x = rows[r].item /\ x \in ToSet(items)
<1>1. r \in 1 .. Len(rows) /\ DOMAIN items = 1 .. Len(items)
  BY VisibleCells DEF SInv, Screen, Listed
<1>2. rows[r].item = items[top + r]
  BY <1>1 DEF SInv, Screen, Shown
<1>3. top + Len(rows) =< Len(items)
  BY DEF SInv, Screen, Shown
<1>4. top + r \in 1 .. Len(items)
  BY <1>1, <1>3, VisibleCells
<1>5. rows[r].item \in Items
  BY <1>1, BarIs DEF BarInv
<1> QED  BY <1>1, <1>2, <1>4, <1>5 DEF ToSet

LEMMA PanBeganRefines ==
  ASSUME SInv, SInv', CInv, NEW c \in Cells, NEW toLeft \in BOOLEAN, panBegan(c, toLeft)
  PROVE  [Swipes!Next]_Swipes!vars
<1>1. UNCHANGED <<items, rows>>
  BY DEF panBegan
<1>2. CASE UNCHANGED state
  <2>1. Bar' = Bar
    BY <1>1, <1>2 DEF Bar, PhaseOf, CellOf
  <2> QED  BY <1>1, <2>1, Stutters
<1>3. CASE state' # state
  <2>1. /\ ~otherDragging(c) /\ c \in Visible /\ state[c] \in {"center", "animatingToCenter"}
        /\ state' = [state EXCEPT ![c] = "dragging"]
    BY <1>3 DEF panBegan
  <2>2. PICK r \in DOMAIN rows : rows[r].cell = c
    BY <2>1 DEF Visible
  <2>3. Bar' = [Bar EXCEPT ![rows[r].item] = "swiping"]
    <3>1. Position("dragging") = "swiping"
      BY DEF Position
    <3> QED  BY <1>1, <2>1, <2>2, <3>1, OnePhase
  <2>4. BarInv /\ DOMAIN rows = 1 .. Len(rows) /\ Visible = CellsOf(rows)
    BY BarIs, VisibleCells
  <2>5. PICK x \in Items : x = rows[r].item /\ x \in ToSet(items)
    BY RowListed
  <2>6. ASSUME NEW p \in 1 .. Len(rows) PROVE Bar[rows[p].item] # "swiping"
    <3>1. rows[p].cell \in Cells /\ rows[p].cell \in Visible
      BY <2>4 DEF BarInv, CellsOf
    <3>2. state[rows[p].cell] # "dragging" /\ state[rows[p].cell] \in States
      BY <2>1, <3>1 DEF otherDragging, CInv, Handled
    <3> QED  BY <2>4, <3>2 DEF BarInv, Position, States
  <2>7. \A y \in ToSet(items) : Bar[y] # "swiping"
    <3>1. \A y \in ToSet(items) : y \in Items
      BY DEF ToSet, SInv, Screen, Listed
    <3> QED  BY <2>4, <2>6, <3>1 DEF BarInv
  <2>8. Swipes!Swipe(x)
    BY <1>1, <2>3, <2>5, <2>7 DEF Swipes!Swipe, Bar
  <2> QED  BY <2>8 DEF Swipes!Next
<1> QED  BY <1>2, <1>3

LEMMA PanEndedRefines ==
  ASSUME SInv, SInv', CInv, NEW c \in Cells, NEW toLeft \in BOOLEAN, NEW centred \in BOOLEAN,
         panEnded(c, toLeft, centred)
  PROVE  [Swipes!Next]_Swipes!vars
<1> DEFINE s == targetState(c, toLeft)
           st == [state EXCEPT ![c] = s]
<1>1. s \in {"right", "center"}
  BY DEF targetState
<1>2. CASE UNCHANGED <<items, rows, state>>
  <2>1. Bar' = Bar
    BY <1>2 DEF Bar, PhaseOf, CellOf
  <2> QED  BY <1>2, <2>1, Stutters
<1>3. CASE actionsView[c] = "expanded" /\ perform(c, st)
  <2>1. IsActive(c)
    BY <1>3 DEF CInv, Handled, IsActive
  <2>2. /\ st \in [Cells -> States] /\ \A b \in Cells \ {c} : st[b] = state[b]
        /\ st = [state EXCEPT ![c] = st[c]]
    BY <1>1 DEF CInv, Handled, States
  <2> HIDE DEF st
  <2> QED  BY <1>3, <2>1, <2>2, PerformRefines
<1>4. CASE state' = st /\ UNCHANGED <<items, rows>>
  <2> HIDE DEF s
  <2>1. CASE c \notin Visible
    BY <1>4, <2>1, OnePhase, Stutters
  <2>2. CASE c \in Visible
    <3>1. PICK r \in DOMAIN rows : rows[r].cell = c
      BY <2>2 DEF Visible
    <3>2. Bar' = [Bar EXCEPT ![rows[r].item] = Position(s)]
      BY <1>4, <3>1, OnePhase
    <3>3. Position(s) \in {"open", "closed"}
      BY <1>1 DEF Position
    <3>4. PICK x \in Items : x = rows[r].item /\ x \in ToSet(items)
      BY RowListed
    <3>5. Swipes!Release(x)
      BY <1>4, <3>2, <3>3, <3>4 DEF Swipes!Release, Bar
    <3> QED  BY <3>5 DEF Swipes!Next
  <2> QED  BY <2>1, <2>2
<1> QED  BY <1>2, <1>3, <1>4 DEF panEnded

(* A scroll closes the row that goes and shows every newcomer closed.       *)
LEMMA ScrollRefines ==
  ASSUME SInv, SInv', CInv, NEW down \in BOOLEAN, scroll(down)
  PROVE  Swipes!Next
<1>0. PICK r \in 1 .. Len(rows) :
        \E d : Replaced(r, d, {d}) /\ reset({d}, state, actionsView)
  BY ScrollStep
<1>1. PICK d : Replaced(r, d, {d}) /\ reset({d}, state, actionsView)
  BY <1>0
<1>2. /\ \A p \in 1 .. Len(rows) :
           p # r => Bar'[rows[p].item] = Position(state[rows[p].cell])
      /\ \A y \in Items :
           (\A p \in 1 .. Len(rows) : p # r => rows[p].item # y) => Bar'[y] = "closed"
  BY <1>1, MovedPhases
<1>3. \A c \in Cells : state[c] \in States /\ Closes(state[c], state[c])
  BY DEF Closes, CInv, Handled
<1>4. \A p \in 1 .. Len(rows) : rows[p].cell \in Cells
  BY BarIs DEF BarInv
<1>5. UNCHANGED ToSet(items)
  BY DEF scroll
<1>6. ASSUME NEW x \in Items
      PROVE  \/ Bar'[x] = "closed"
             \/ \E p \in 1 .. Len(rows), t \in States :
                  rows[p].item = x /\ Closes(state[rows[p].cell], t) /\ Bar'[x] = Position(t)
  <2>1. ASSUME NEW p \in 1 .. Len(rows), p # r, rows[p].item = x
        PROVE  /\ state[rows[p].cell] \in States
               /\ Closes(state[rows[p].cell], state[rows[p].cell])
               /\ Bar'[x] = Position(state[rows[p].cell])
    BY <1>2, <1>3, <1>4, <2>1
  <2> QED  BY <1>2, <2>1
<1> QED  BY <1>5, <1>6, ClosesList DEF Swipes!Next

LEMMA SaveRefines ==
  ASSUME SInv, SInv', NEW x \in Items, NEW i \in 1 .. Len(items) + 1, saveData(x, i)
  PROVE  Swipes!Next
<1>1. /\ ToSet(items') = ToSet(items) \cup {x} /\ x \notin ToSet(items)
      /\ reset(CellsOf(rows)', state, actionsView)
  BY SaveStep DEF saveData
<1>2. Bar' = [y \in Items |-> "closed"]
  BY <1>1, ReloadPhases
<1>3. Swipes!Add(x)
  BY <1>1, <1>2 DEF Swipes!Add, Bar
<1> QED  BY <1>3 DEF Swipes!Next

LEMMA TapRefines ==
  ASSUME SInv, SInv', CInv, CInv', NEW c \in Cells, tap(c)
  PROVE  Swipes!Next
<1>1. CASE hideSwipe({c}) /\ UNCHANGED <<items, rows>>
  BY <1>1, HideRefines
<1>2. CASE reloadData /\ UNCHANGED items
  <2>1. reset(CellsOf(rows)', state, actionsView)
    BY <1>2, TapReload
  <2>2. Bar' = [y \in Items |-> "closed"]
    BY <2>1, ReloadPhases
  <2>3. Swipes!Close
    <3>1. \A x \in Items : Bar'[x] = "closed"
      BY <2>2
    <3> QED  BY <1>2, <3>1, ClosesList
  <2> QED  BY <2>3 DEF Swipes!Next
<1> QED  BY <1>1, <1>2 DEF tap

LEMMA RefinesStep ==
  ASSUME SInv, SInv', CInv, CInv', [Next]_vars
  PROVE  [Swipes!Next]_Swipes!vars
<1>0. CASE UNCHANGED <<items, rows, state>>
  <2>1. Bar' = Bar
    BY <1>0 DEF Bar, PhaseOf, CellOf
  <2> QED  BY <1>0, <2>1, Stutters
<1>1. ASSUME NEW c \in Cells, touchDown(c) PROVE [Swipes!Next]_Swipes!vars
  <2>1. CASE hideSwipe(Visible)
    BY <1>1, <2>1, HideRefines DEF touchDown
  <2>2. CASE UNCHANGED state
    BY <1>0, <1>1, <2>2 DEF touchDown
  <2> QED  BY <1>1, <2>1, <2>2 DEF touchDown
<1>2. ASSUME NEW c \in Cells, lift(c) PROVE [Swipes!Next]_Swipes!vars
  BY <1>0, <1>2 DEF lift
<1>3. ASSUME NEW c \in Cells, tap(c) PROVE [Swipes!Next]_Swipes!vars
  BY <1>3, TapRefines
<1>4. ASSUME NEW c \in Cells, actionTapped(c) PROVE [Swipes!Next]_Swipes!vars
  <2>1. perform(c, state) /\ IsActive(c)
    BY <1>4 DEF actionTapped, IsActive
  <2>2. state \in [Cells -> States] /\ state = [state EXCEPT ![c] = state[c]]
    BY DEF CInv, Handled
  <2> QED  BY <2>1, <2>2, PerformRefines
<1>5. ASSUME NEW c \in Cells, animatorDone(c) PROVE [Swipes!Next]_Swipes!vars
  <2>1. PICK D : reset(D, state, actionsView)
    BY <1>5 DEF animatorDone
  <2> QED  BY <1>5, <2>1, ResetRefines DEF animatorDone
<1>6. ASSUME NEW c \in Cells, deletionDone(c) PROVE [Swipes!Next]_Swipes!vars
  <2>1. PICK D : reset(D, state, actionsView)
    BY <1>6 DEF deletionDone
  <2> QED  BY <1>6, <2>1, ResetRefines DEF deletionDone
<1>7. ASSUME NEW c \in Cells, NEW toLeft \in BOOLEAN, panBegan(c, toLeft)
      PROVE  [Swipes!Next]_Swipes!vars
  BY <1>7, PanBeganRefines
<1>8. ASSUME NEW c \in Cells, NEW toLeft \in BOOLEAN, NEW centred \in BOOLEAN,
             panEnded(c, toLeft, centred)
      PROVE  [Swipes!Next]_Swipes!vars
  BY <1>8, PanEndedRefines
<1>9. ASSUME NEW c \in Cells, NEW expanded \in BOOLEAN, NEW jump \in BOOLEAN,
             panChanged(c, expanded, jump)
      PROVE  [Swipes!Next]_Swipes!vars
  BY <1>0, <1>9 DEF panChanged
<1>10. ASSUME NEW down \in BOOLEAN, scroll(down) PROVE [Swipes!Next]_Swipes!vars
  BY <1>10, ScrollRefines
<1>11. ASSUME NEW x \in Items, NEW i \in 1 .. Len(items) + 1, saveData(x, i)
       PROVE  [Swipes!Next]_Swipes!vars
  BY <1>11, SaveRefines
<1>12. CASE handleTablePan
  BY <1>12, HideRefines DEF handleTablePan
<1>13. CASE UNCHANGED vars
  BY <1>0, <1>13 DEF vars, cellVars
<1> QED
  BY <1>1, <1>2, <1>3, <1>4, <1>5, <1>6, <1>7, <1>8, <1>9, <1>10, <1>11, <1>12, <1>13 DEF Next

(* The cells, their controllers and animators implement the abstract list:  *)
(* one item at a time is swiped, rows come to rest or start to close, and   *)
(* an item leaves the list alone and never from its closed position,        *)
(* whatever the cells that are reused for the rows.                         *)
THEOREM SwipeRefinement == Spec => ImplementsSwipeToDelete
<1>1. Init => Swipes!Init
  <2> SUFFICES ASSUME Init PROVE Swipes!Init
    OBVIOUS
  <2>1. items = << >> /\ rows = << >>
    BY DEF Init
  <2>2. ToSet(items) = {}
    BY <2>1 DEF ToSet
  <2>3. DOMAIN rows = {}
    BY <2>1
  <2> QED  BY <2>2, <2>3 DEF Swipes!Init
<1>2. SInv /\ SInv' /\ CInv /\ CInv' /\ [Next]_vars => [Swipes!Next]_Swipes!vars
  BY RefinesStep
<1> QED
  BY <1>1, <1>2, CellsInvariant, PTL DEF Spec, ImplementsSwipeToDelete, Swipes!Spec
==============================================================================
