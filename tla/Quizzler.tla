------------------------------- MODULE Quizzler -------------------------------
(***************************************************************************)
(* The quiz.  Checking an answer changes the score at once, but the next    *)
(* question is set by a closure posted to the main queue for one second     *)
(* later, and nothing keeps the buttons from being tapped again before.     *)
(* The closures are all alike, so the queue is their number.                *)
(***************************************************************************)
EXTENDS Integers

CONSTANTS N,          \* quiz.count
          Buttons,    \* the three choices
          Correct,    \* the button with question q's correct answer
          MaxPosted   \* bound: closures posted and not yet run

QuizAssumption == /\ N \in Nat \ {0} /\ MaxPosted \in Nat
                  /\ Correct \in [0 .. N - 1 -> Buttons]

VARIABLES questionnumber, score,  \* QuizBrain
          scoreLabel,             \* the score shown
          question,               \* the question shown, with its choices
          coloured,               \* the buttons left green or red
          posted                  \* closures in the main queue

brain == <<questionnumber, score>>
vars == <<brain, scoreLabel, question, coloured, posted>>

Init == /\ questionnumber = 0 /\ score = 0 /\ scoreLabel = 0
        /\ question = 0 /\ coloured = {} /\ posted = 0

(* checkAnswer: the answer tapped is the title the button shows, compared   *)
(* with the current question's answer.                                      *)
checkAnswer(b) ==
  score' = IF question = questionnumber /\ Correct[question] = b THEN score + 1 ELSE score

(* updateUi after an answer.  Mutated: the label shows the score before.    *)
labelFirst == scoreLabel' = score
updateUi == scoreLabel' = score'

answerButtonPressed(b) ==
  /\ posted < MaxPosted
  /\ checkAnswer(b)
  /\ coloured' = coloured \cup {b}
  /\ updateUi
  /\ posted' = posted + 1
  /\ UNCHANGED <<questionnumber, question>>

(* There is no first after the last.  Mutated: the score survives it.       *)
incKeepingScore ==
  /\ questionnumber' = (questionnumber + 1) % N
  /\ UNCHANGED score

incQuestionNumber ==
  /\ questionnumber' = (questionnumber + 1) % N
  /\ score' = IF questionnumber' = 0 THEN 0 ELSE score

(* Mutated: the question shown before the number is increased.              *)
setOldQuestionDisplay == question' = questionnumber
setQuestionDisplay == question' = questionnumber'

resetButtonBg == coloured' = {}

(* The closure.                                                             *)
nextQuestion ==
  /\ posted > 0
  /\ incQuestionNumber
  /\ resetButtonBg
  /\ setQuestionDisplay
  /\ posted' = posted - 1
  /\ UNCHANGED scoreLabel

Next == nextQuestion \/ \E b \in Buttons : answerButtonPressed(b)

Spec == Init /\ [][Next]_vars

(* The main queue runs its closures; nobody has to answer.                  *)
FairSpec == Spec /\ WF_vars(nextQuestion)
-------------------------------------------------------------------------------
TypeOK ==
  /\ questionnumber \in 0 .. N - 1 /\ question \in 0 .. N - 1
  /\ score \in Nat /\ scoreLabel \in Nat
  /\ coloured \in SUBSET Buttons /\ posted \in 0 .. MaxPosted

(* The answer checked belongs to the question shown, however many taps are  *)
(* waiting for their closure.                                               *)
ShowsCurrentQuestion == question = questionnumber

(* A point is worth a question passed or about to be passed: tapping twice  *)
(* on a correct answer scores twice but costs the next question.            *)
PointsAreQuestions == score =< questionnumber + posted

(* The score shown is the score, but for the one reset after the last       *)
(* question, which nothing shows until the next answer.                     *)
LabelStaleOnlyAfterReset == scoreLabel # score => score = 0

===============================================================================
