------------------------------- MODULE FlashChat -------------------------------
(***************************************************************************)
(* Flash Chat's navigation stack and the title animation of its welcome     *)
(* screen.  Every appearance of the screen restarts the animation, while    *)
(* the closures of earlier ones are still in the main queue and pop their   *)
(* characters from the same titleText.  A swipe back lets the welcome       *)
(* screen appear before it is known whether the pop will be finished.       *)
(***************************************************************************)
EXTENDS Integers, SequencesExt

CONSTANTS Title,           \* the characters of the title
          MaxAppearances   \* bound: times the welcome screen appears

FlashChatAssumption == Title \in Seq(STRING) /\ MaxAppearances \in Nat

VARIABLES stack,           \* the navigation controller's view controllers
          swipingBack,     \* an interactive pop to the welcome screen is under way
          isNavigationBarHidden,
          titleText,       \* characters still to be shown, the next one last
          titleLabel,      \* characters shown
          posted,          \* closures in the main queue: they are all alike
          appearances      \* appearances so far

animation == <<titleText, titleLabel, posted>>
vars == <<stack, swipingBack, isNavigationBarHidden, animation, appearances>>

Init == /\ stack = <<"welcome">> /\ swipingBack = FALSE
        /\ isNavigationBarHidden = TRUE
        /\ titleText = Reverse(Title) /\ titleLabel = << >>
        /\ posted = 1 /\ appearances = 1

(* showTitleAnimation.  Mutated: the characters left over are kept.         *)
restartLabelOnly ==
  /\ titleLabel' = << >>
  /\ posted' = posted + 1
  /\ UNCHANGED titleText

showTitleAnimation ==
  /\ titleText' = Reverse(Title)
  /\ titleLabel' = << >>
  /\ posted' = posted + 1

viewWillAppear ==
  /\ appearances < MaxAppearances
  /\ appearances' = appearances + 1
  /\ isNavigationBarHidden' = TRUE
  /\ showTitleAnimation

viewWillDisappear ==
  /\ isNavigationBarHidden' = FALSE
  /\ UNCHANGED <<animation, appearances>>

(* The closure of postCharToTitle: it posts the next one only if it found a *)
(* character.  Mutated: it does not end when there is none.                 *)
postForever ==
  /\ posted > 0 /\ titleText # << >>
  /\ titleLabel' = Append(titleLabel, Last(titleText))
  /\ titleText' = Front(titleText)
  /\ UNCHANGED <<posted, stack, swipingBack, isNavigationBarHidden, appearances>>

postCharToTitle ==
  /\ posted > 0
  /\ \/ /\ titleText # << >>
        /\ titleLabel' = Append(titleLabel, Last(titleText))
        /\ titleText' = Front(titleText)
        /\ UNCHANGED posted
     \/ /\ titleText = << >>
        /\ posted' = posted - 1
        /\ UNCHANGED <<titleText, titleLabel>>
  /\ UNCHANGED <<stack, swipingBack, isNavigationBarHidden, appearances>>

------------------------------------------------------------------------------
(* Navigation: all segues are of kind "show" and push.                      *)

Successor == [welcome |-> {"login", "register"}, login |-> {"chat"},
              register |-> {"chat"}, chat |-> {"table"}, table |-> {}]

show(screen) ==
  /\ ~swipingBack
  /\ screen \in Successor[Last(stack)]
  /\ stack' = Append(stack, screen)
  /\ IF Len(stack) = 1 THEN viewWillDisappear
                       ELSE UNCHANGED <<isNavigationBarHidden, animation, appearances>>
  /\ UNCHANGED swipingBack

back ==
  /\ ~swipingBack /\ Len(stack) > 1
  /\ stack' = Front(stack)
  /\ IF Len(stack) = 2 THEN viewWillAppear
                       ELSE UNCHANGED <<isNavigationBarHidden, animation, appearances>>
  /\ UNCHANGED swipingBack

(* The interactive pop onto the welcome screen, finished or cancelled.      *)
swipeBack ==
  /\ ~swipingBack /\ Len(stack) = 2
  /\ swipingBack' = TRUE
  /\ viewWillAppear
  /\ UNCHANGED stack

finishSwipe ==
  /\ swipingBack /\ swipingBack' = FALSE
  /\ stack' = Front(stack)
  /\ UNCHANGED <<isNavigationBarHidden, animation, appearances>>

cancelSwipe ==
  /\ swipingBack /\ swipingBack' = FALSE
  /\ viewWillDisappear
  /\ UNCHANGED stack

Next == \/ postCharToTitle \/ back \/ swipeBack \/ finishSwipe \/ cancelSwipe
        \/ \E screen \in DOMAIN Successor : show(screen)

Spec == Init /\ [][Next]_vars

(* The main queue runs its closures; nobody has to navigate.                *)
FairSpec == Spec /\ WF_vars(postCharToTitle)
------------------------------------------------------------------------------
(* The characters shown and those still to come are the title, in order:    *)
(* however many animations overlap, none is shown twice or lost.            *)
NoCharacterLost == titleLabel \o Reverse(titleText) = Title

(* The animation is over some day, and the title is there.                  *)
TitleCompletes == <>[](posted = 0 /\ titleLabel = Title)
==============================================================================
