------------------------------- MODULE Destini -------------------------------
(***************************************************************************)
(* The adventure.  A choice moves the story on at once, but the screen      *)
(* follows in a closure 0.2 s later, and until then the buttons still offer *)
(* the choices of the story shown.  The brain compares the title of the     *)
(* button tapped with the first choice of its current story and takes the   *)
(* second for anything else.                                                *)
(***************************************************************************)
EXTENDS Integers

CONSTANTS Stories,
          choice1, choice2,         \* the texts of a story's choices
          destination1, destination2,
          MaxPosted                 \* bound: closures posted and not yet run

DestiniAssumption ==
  /\ 0 \in Stories /\ MaxPosted \in Nat
  /\ DOMAIN choice1 = Stories /\ DOMAIN choice2 = Stories
  /\ destination1 \in [Stories -> Stories] /\ destination2 \in [Stories -> Stories]

VARIABLES currentStoryIndex,  \* StoryBrain
          shown,              \* the story on the label and the buttons
          posted              \* closures in the main queue, all alike

vars == <<currentStoryIndex, shown, posted>>

Init == currentStoryIndex = 0 /\ shown = 0 /\ posted = 0

(* StoryBrain.choiceSelected.                                               *)
chosen(text) == IF text = choice1[currentStoryIndex]
                THEN destination1[currentStoryIndex] ELSE destination2[currentStoryIndex]

(* The button with this title is tapped.  Mutated: the screen is told only  *)
(* if none of its closures is on its way.                                   *)
choiceSelectedOnce(text) ==
  /\ posted < MaxPosted
  /\ currentStoryIndex' = chosen(text)
  /\ posted' = IF posted = 0 THEN 1 ELSE posted
  /\ UNCHANGED shown

choiceSelected(text) ==
  /\ posted < MaxPosted
  /\ currentStoryIndex' = chosen(text)
  /\ posted' = posted + 1
  /\ UNCHANGED shown

(* updateUi in the closure.                                                 *)
updateUi == shown' = currentStoryIndex

runPosted == /\ posted > 0
             /\ posted' = posted - 1
             /\ updateUi
             /\ UNCHANGED currentStoryIndex

Next == \/ runPosted
        \/ \E text \in {choice1[shown], choice2[shown]} : choiceSelected(text)

Spec == Init /\ [][Next]_vars

(* The main queue runs its closures; nobody has to choose.                  *)
FairSpec == Spec /\ WF_vars(runPosted)
-------------------------------------------------------------------------------
(* At most n choices lead from one story to another.                        *)
Leads(n, from, to) ==
  \E way \in [0 .. n -> Stories] :
    /\ way[0] = from /\ way[n] = to
    /\ \A i \in 1 .. n :
         way[i] \in {way[i - 1], destination1[way[i - 1]], destination2[way[i - 1]]}

(* The story is ahead of the screen by no more choices than closures are on *)
(* their way: none is skipped for good, and at rest the two agree.          *)
ScreenLagsByPosted == Leads(posted, shown, currentStoryIndex)

===============================================================================
