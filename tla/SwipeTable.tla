------------------------------ MODULE SwipeTable ------------------------------
(***************************************************************************)
(* SwipeCellKit under a table of the Todoey app: every visible row is a     *)
(* reused SwipeTableViewCell with its own SwipeController, gesture          *)
(* recognizers and animator.  The handlers run on the main thread, one step *)
(* each, but several fingers, the animators' completions and the completion *)
(* of a deletion 0.3 s later come in any order, and a cell may by then show *)
(* another item.  The app offers one action, "Delete", on the right only,   *)
(* with expansionStyle .destructive (automatic fulfilment, timing .with).   *)
(***************************************************************************)
EXTENDS Integers, SequencesExt

CONSTANTS Cells,      \* the table's cells, visible or in the reuse pool
          Items,      \* what the data source can list
          Height,     \* rows that fit on the screen
          Fingers,    \* bound: fingers on the screen at once
          MaxPending  \* bound: unfinished deletions of one cell

ASSUME SwipeTableAssumption == /\ {Height, Fingers, MaxPending} \subseteq Nat \ {0}
                               /\ \E f \in [1 .. Height -> Cells] : IsInjective(f)

VARIABLES
  items,        \* the rows of the data source
  top,          \* rows scrolled off above the screen
  rows,         \* visibleCells from the top, each with the item it shows
  state,        \* SwipeState (.left is never reached: no actions there)
  actionsView,  \* the cell's SwipeActionsView: none, shown or expanded
  animator,     \* the completion the cell's running animator will call
  pending,      \* deletion animations of a cell whose completion is to come
  finger        \* a touch delivered to the cell: up, down or panning

cellVars == <<state, actionsView, animator, pending, finger>>
vars == <<items, top, rows, cellVars>>

Smaller(m, n) == IF m < n THEN m ELSE n

Visible == {rows[r].cell : r \in DOMAIN rows}
Open(c) == state[c] = "right"
IsActive(c) == state[c] # "center"

Init == /\ items = << >> /\ top = 0 /\ rows = << >>
        /\ state = [c \in Cells |-> "center"]
        /\ actionsView = [c \in Cells |-> "none"]
        /\ animator = [c \in Cells |-> "none"]
        /\ pending = [c \in Cells |-> 0]
        /\ finger = [c \in Cells |-> "up"]

(* reset, for the cells of D; st and av are the values before it.           *)
(* Mutated: the state is left as it is.                                     *)
resetViewOnly(D, st, av) ==
  /\ state' = st
  /\ actionsView' = [c \in Cells |-> IF c \in D THEN "none" ELSE av[c]]

reset(D, st, av) ==
  /\ state' = [c \in Cells |-> IF c \in D THEN "center" ELSE st[c]]
  /\ actionsView' = [c \in Cells |-> IF c \in D THEN "none" ELSE av[c]]

(* cellForRowAt: the cell is dequeued for a row of the new window.  Every   *)
(* dequeued cell is reset (prepareForReuse).                                *)
cellForRow(c, r) == [cell |-> c, item |-> items'[top' + r]]

(* reloadData: every visible row gets a cell of UIKit's choice.             *)
reloadData ==
  /\ UNCHANGED top
  /\ \E cells \in [1 .. Smaller(Height, Len(items') - top) -> Cells] :
       /\ IsInjective(cells)
       /\ rows' = [r \in DOMAIN cells |-> cellForRow(cells[r], r)]
       /\ reset(ToSet(cells), state, actionsView)

(* The handler deletes the item of the index path and deleteRows removes    *)
(* the cell; a row that thereby comes onto the screen gets a free cell,     *)
(* possibly the one just removed.                                           *)
(* Mutated: the row on the screen instead of the index path.                *)
deleteVisibleRow(r) == items' = RemoveAt(items, r)
deleteAction(r) == items' = RemoveAt(items, top + r)

deleteRows(r, st, av) ==
  LET left == RemoveAt(rows, r)
      free == (Cells \ Visible) \cup {rows[r].cell}
      below == Len(items) > top + Len(rows)
  IN IF ~below /\ top = 0
     THEN top' = top /\ rows' = left /\ reset({}, st, av)
     ELSE \E d \in free :
            /\ top' = IF below THEN top ELSE top - 1
            /\ rows' = IF below THEN Append(left, cellForRow(d, Len(rows)))
                                ELSE <<cellForRow(d, 1)>> \o left
            /\ reset({d}, st, av)

(* perform and performFillAction: the index path is asked for now, and a    *)
(* cell that is no longer in the table has none.                            *)
perform(c, st) ==
  LET av == [actionsView EXCEPT ![c] = "expanded"] IN
  IF c \in Visible
  THEN \E r \in DOMAIN rows :
         /\ rows[r].cell = c /\ pending[c] < MaxPending
         /\ animator' = [animator EXCEPT ![c] = "none"]
         /\ pending' = [pending EXCEPT ![c] = @ + 1]
         /\ deleteAction(r)
         /\ deleteRows(r, st, av)
  ELSE /\ state' = st /\ actionsView' = av
       /\ UNCHANGED <<items, top, rows, animator, pending>>

(* hideSwipe, for the cells of S.                                           *)
hideSwipe(S) ==
  LET hidden == {c \in S : Open(c) /\ actionsView[c] # "none"} IN
  /\ state' = [c \in Cells |-> IF c \in hidden THEN "animatingToCenter" ELSE state[c]]
  /\ animator' = [c \in Cells |-> IF c \in hidden THEN "hide" ELSE animator[c]]

------------------------------------------------------------------------------
(* Fingers *)

(* Hit testing (point(inside:)): while another cell is open the touch only  *)
(* closes it.  A cell just deleted can be touched while its 0.3 s last.     *)
touchDown(c) ==
  /\ c \in Visible \/ pending[c] > 0
  /\ finger[c] = "up"
  /\ Cardinality({d \in Cells : finger[d] # "up"}) < Fingers
  /\ IF \E d \in Visible \ {c} : Open(d)
     THEN hideSwipe(Visible) /\ UNCHANGED finger
     ELSE finger' = [finger EXCEPT ![c] = "down"] /\ UNCHANGED <<state, animator>>
  /\ UNCHANGED <<items, top, rows, actionsView, pending>>

(* A finger is lifted without a gesture, or the touch is cancelled.         *)
lift(c) == /\ finger[c] = "down"
           /\ finger' = [finger EXCEPT ![c] = "up"]
           /\ UNCHANGED <<items, top, rows, state, actionsView, animator, pending>>

(* Mutated: the other cells are not asked; the animator keeps running.      *)
neverOther(c) == FALSE
keepAnimator(c) == UNCHANGED animator

otherDragging(c) == \E d \in Visible \ {c} : state[d] = "dragging"
stopAnimator(c) == animator' = [animator EXCEPT ![c] = "none"]

(* handlePan, .began.  Only a pan to the left asks for actions and gets     *)
(* them, and only if the cell is still in the table.                        *)
panBegan(c, toLeft) ==
  /\ finger[c] = "down"
  /\ finger' = [finger EXCEPT ![c] = "pan"]
  /\ IF otherDragging(c)
     THEN UNCHANGED <<state, actionsView, animator>>
     ELSE /\ stopAnimator(c)
          /\ IF state[c] \in {"center", "animatingToCenter"} /\ toLeft /\ c \in Visible
             THEN /\ actionsView' = [actionsView EXCEPT ![c] = "shown"]
                  /\ state' = [state EXCEPT ![c] = "dragging"]
             ELSE UNCHANGED <<state, actionsView>>
  /\ UNCHANGED <<items, top, rows, pending>>

(* handlePan, .changed: the finger crosses the expansion threshold; when    *)
(* the cell jumps to its target, an animator without a completion replaces  *)
(* the running one.                                                         *)
panChanged(c, expanded, jump) ==
  /\ finger[c] = "pan" /\ actionsView[c] # "none" /\ IsActive(c)
  /\ state[c] = "animatingToCenter" =>
       \A d \in Visible \ {c} : state[d] \notin {"dragging", "right"}
  /\ expanded # (actionsView[c] = "expanded")
  /\ jump => expanded
  /\ actionsView' = [actionsView EXCEPT ![c] = IF expanded THEN "expanded" ELSE "shown"]
  /\ IF jump THEN stopAnimator(c) ELSE UNCHANGED animator
  /\ UNCHANGED <<items, top, rows, state, pending, finger>>

(* handlePan, .ended, .cancelled and .failed.                               *)
targetState(c, toLeft) ==
  IF toLeft \/ actionsView[c] = "expanded" THEN "right" ELSE "center"

(* Mutated: only a drag is ended.                                           *)
onlyDrags(c, centred) == state[c] # "dragging"
nothingToEnd(c, centred) == actionsView[c] = "none" \/ (~IsActive(c) /\ centred)

panEnded(c, toLeft, centred) ==
  /\ finger[c] = "pan"
  /\ finger' = [finger EXCEPT ![c] = "up"]
  /\ IF nothingToEnd(c, centred)
     THEN UNCHANGED <<items, top, rows, state, actionsView, animator, pending>>
     ELSE LET st == [state EXCEPT ![c] = targetState(c, toLeft)] IN
          IF actionsView[c] = "expanded" THEN perform(c, st)
          ELSE /\ state' = st
               /\ animator' = [animator EXCEPT ![c] = "settle"]
               /\ UNCHANGED <<items, top, rows, actionsView, pending>>

(* A tap: while any row is active or panning the cell's tap recognizer      *)
(* begins and hides the swipe; otherwise the row is selected, and           *)
(* didSelectRowAt reloads the table.                                        *)
tap(c) ==
  /\ finger[c] = "down" /\ c \in Visible
  /\ finger' = [finger EXCEPT ![c] = "up"]
  /\ UNCHANGED <<items, pending>>
  /\ IF \E d \in Visible : IsActive(d) \/ finger[d] = "pan"
     THEN hideSwipe({c}) /\ UNCHANGED <<top, rows, actionsView>>
     ELSE reloadData /\ UNCHANGED animator

(* The Delete button is tapped, perhaps by a second finger during the pan;  *)
(* a cell removed a moment ago still has its button.                        *)
actionTapped(c) ==
  /\ finger[c] # "up"
  /\ actionsView[c] # "none" /\ state[c] \in {"right", "dragging"}
  /\ perform(c, state)
  /\ finger' = IF finger[c] = "down" THEN [finger EXCEPT ![c] = "up"] ELSE finger

(* A pan of the table hides every open cell as it begins, whether or not a  *)
(* row scrolls.                                                             *)
handleTablePan ==
  /\ hideSwipe(Cells)
  /\ UNCHANGED <<items, top, rows, actionsView, pending, finger>>

(* A row scrolls off: its cell goes to the pool and one is dequeued.  The   *)
(* pan has begun before; a cell opened since, by another finger, goes as it *)
(* is.  That a pan was needed is not kept.                                  *)
scroll(down) ==
  LET gone == IF down THEN Head(rows) ELSE Last(rows)
  IN /\ IF down THEN Len(items) > top + Len(rows) ELSE top > 0
     /\ top' = IF down THEN top + 1 ELSE top - 1
     /\ UNCHANGED <<items, animator, pending, finger>>
     /\ \E d \in (Cells \ Visible) \cup {gone.cell} :
          /\ rows' = IF down THEN Append(Tail(rows), cellForRow(d, Len(rows)))
                             ELSE <<cellForRow(d, 1)>> \o Front(rows)
          /\ reset({d}, state, actionsView)

------------------------------------------------------------------------------
(* Animations and the data source *)

(* An animator ends: "settle" resets a cell that settled in the centre,     *)
(* "hide" resets.  The others have no completion, or with timing .with an   *)
(* empty one, and are not kept in `animator`.                               *)
animatorDone(c) ==
  /\ animator[c] # "none"
  /\ animator' = [animator EXCEPT ![c] = "none"]
  /\ reset({d \in {c} : animator[c] = "hide" \/ (animator[c] = "settle" /\ ~IsActive(c))},
           state, actionsView)
  /\ UNCHANGED <<items, top, rows, pending, finger>>

(* The 0.3 s animation of a deletion ends and resets the cell, whatever it  *)
(* shows by now.                                                            *)
deletionDone(c) ==
  /\ pending[c] > 0
  /\ pending' = [pending EXCEPT ![c] = @ - 1]
  /\ reset({c}, state, actionsView)
  /\ UNCHANGED <<items, top, rows, animator, finger>>

(* The alert adds an item, which the sort puts anywhere, and reloads.       *)
saveData(x, i) ==
  /\ x \notin ToSet(items)
  /\ items' = InsertAt(items, i, x)
  /\ reloadData
  /\ UNCHANGED <<animator, pending, finger>>

Next ==
  \/ \E c \in Cells :
       \/ touchDown(c) \/ lift(c) \/ tap(c) \/ actionTapped(c)
       \/ animatorDone(c) \/ deletionDone(c)
       \/ \E toLeft \in BOOLEAN :
            \/ panBegan(c, toLeft)
            \/ \E centred \in BOOLEAN : panEnded(c, toLeft, centred)
       \/ \E expanded, jump \in BOOLEAN : panChanged(c, expanded, jump)
  \/ handleTablePan \/ \E down \in BOOLEAN : scroll(down)
  \/ \E x \in Items : \E i \in 1 .. Len(items) + 1 : saveData(x, i)

Spec == Init /\ [][Next]_vars

(* Animations end and fingers are lifted; nobody has to touch anything.     *)
Fairness == \A c \in Cells :
              /\ WF_vars(animatorDone(c)) /\ WF_vars(deletionDone(c))
              /\ WF_vars(\E toLeft, centred \in BOOLEAN : panEnded(c, toLeft, centred))
FairSpec == Spec /\ Fairness
------------------------------------------------------------------------------
(* The screen is full as far as there are rows, and each visible cell shows *)
(* the item at its index path, though a deletion reloads nothing.           *)
RowsShowItems ==
  /\ Len(rows) = Smaller(Height, Len(items))
  /\ top + Len(rows) =< Len(items)
  /\ \A r \in DOMAIN rows : rows[r].item = items[top + r]

(* A cell off its resting position has its actions view: without one        *)
(* hideSwipe would give up and, as an open cell swallows the touches to all *)
(* others, the table would be dead.                                         *)
NeverStuckOpen == \A c \in Cells : IsActive(c) => actionsView[c] # "none"

(* The item deleted is the one shown by the cell that was swiped, whatever  *)
(* moved, was reused or deleted since the finger went down.                 *)
DeletesTheSwipedItem ==
  [][\A x \in ToSet(items) \ ToSet(items') :
       \E r \in DOMAIN rows : /\ rows[r].item = x /\ IsActive(rows[r].cell)
                              /\ pending'[rows[r].cell] > pending[rows[r].cell]]_vars

(* A drag is never cut short by an animator left over from the cell's       *)
(* earlier life: it ends with its finger, or because the row is gone,       *)
(* redisplayed, or its cell was deleted less than 0.3 s ago.                *)
DragsEndByHand ==
  [][\A c \in Visible : state[c] = "dragging" /\ state'[c] = "center" =>
       \/ finger[c] # finger'[c]
       \/ <<rows, items>>' # <<rows, items>>
       \/ pending[c] # pending'[c]]_vars

(* The abstract list: a row's phase is the state of the cell that shows it. *)
PhaseOf(c) == CASE state[c] = "center" -> "closed"
                [] state[c] = "dragging" -> "swiping"
                [] state[c] = "right" -> "open"
                [] state[c] = "animatingToCenter" -> "closing"

CellOf(x) == (CHOOSE row \in ToSet(rows) : row.item = x).cell

Swipes == INSTANCE SwipeToDelete WITH
  list <- ToSet(items),
  phase <- [x \in Items |-> IF \E r \in DOMAIN rows : rows[r].item = x
                            THEN PhaseOf(CellOf(x)) ELSE "closed"]

(* The cells and their controllers implement the abstract list.             *)
ImplementsSwipeToDelete == Swipes!Spec

(* Every swipe ends: completions lost with a stopped animator leave no row  *)
(* between its positions.                                                   *)
EveryRowComesToRest == Swipes!ComesToRest
==============================================================================
