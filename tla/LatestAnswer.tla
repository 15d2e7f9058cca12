----------------------------- MODULE LatestAnswer -----------------------------
(***************************************************************************)
(* What a screen that shows the answers of asynchronous requests promises:  *)
(* an answer is shown whole, and never one that came before the one on      *)
(* screen.  It promises nothing about the order in which requests made one  *)
(* after the other are answered.                                            *)
(***************************************************************************)
EXTENDS Naturals, SequencesExt

CONSTANT Requests

VARIABLES asked,    \* the requests made
          answers,  \* the requests answered, in the order of their answers
          screen    \* the number of the answer shown, 0 when there is none

vars == <<asked, answers, screen>>

Init == asked = {} /\ answers = << >> /\ screen = 0

Ask == /\ \E S \in SUBSET (Requests \ asked) : S # {} /\ asked' = asked \cup S
       /\ UNCHANGED <<answers, screen>>

Answer == /\ \E i \in asked \ ToSet(answers) : answers' = Append(answers, i)
          /\ UNCHANGED <<asked, screen>>

Show == /\ screen' \in screen + 1 .. Len(answers)
        /\ UNCHANGED <<asked, answers>>

(* The app is launched again.                                               *)
Restart == asked' = {} /\ answers' = << >> /\ screen' = 0

Next == Ask \/ Answer \/ Show \/ Restart

Spec == Init /\ [][Next]_vars
===============================================================================
