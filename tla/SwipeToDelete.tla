---------------------------- MODULE SwipeToDelete ----------------------------
(***************************************************************************)
(* What swipe-to-delete promises of a list, cells, animators and reuse      *)
(* apart: one item at a time is swiped, several may be open or closing, and *)
(* an item leaves the list alone, never from its closed position.           *)
(***************************************************************************)
CONSTANT Items

VARIABLES list,   \* the items of the list
          phase   \* phase[x]: the position of x's row, "closed" off the list

vars == <<list, phase>>

Phases == {"closed", "swiping", "open", "closing"}

Init == list = {} /\ phase = [x \in Items |-> "closed"]

Add(x) == x \notin list /\ list' = list \cup {x} /\ phase' = [y \in Items |-> "closed"]

Swipe(x) == /\ x \in list /\ \A y \in list : phase[y] # "swiping"
            /\ phase' = [phase EXCEPT ![x] = "swiping"]
            /\ UNCHANGED list

Release(x) == /\ x \in list
              /\ \E p \in {"open", "closed"} : phase' = [phase EXCEPT ![x] = p]
              /\ UNCHANGED list

(* Several rows at once: open ones start to close, after a touch elsewhere  *)
(* or a scroll, and others come to rest or leave the screen.                *)
Close == /\ phase' \in [Items -> Phases]
         /\ \A x \in Items : \/ phase'[x] \in {phase[x], "closed"}
                             \/ phase[x] = "open" /\ phase'[x] = "closing"
         /\ UNCHANGED list

(* The row goes, the others stay as they are.                               *)
Delete(x) == /\ x \in list /\ phase[x] # "closed"
             /\ list' = list \ {x}
             /\ phase' = [phase EXCEPT ![x] = "closed"]

Next == \/ \E x \in Items : Add(x) \/ Swipe(x) \/ Release(x) \/ Delete(x)
        \/ Close

Spec == Init /\ [][Next]_vars

(* No row stays between its two positions: what a finger or an animation    *)
(* has moved comes to rest open or closed.                                  *)
ComesToRest == \A x \in Items :
                 phase[x] \in {"swiping", "closing"} ~> phase[x] \in {"closed", "open"}
=============================================================================
