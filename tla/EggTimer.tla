------------------------------- MODULE EggTimer -------------------------------
(***************************************************************************)
(* The egg timer.  A tap starts a countdown that lives only in closures     *)
(* posted to the main queue, each by the one before it, a second ahead.     *)
(* All delays are equal, so the queue is first in, first out.  busyCooking  *)
(* is what keeps the buttons from starting a second countdown.              *)
(***************************************************************************)
EXTENDS Integers, Sequences

CONSTANTS Titles,    \* the button titles
          eggTimes   \* the seconds each title cooks

ASSUME EggTimesAssumption == eggTimes \in [Titles -> Nat \ {0}]

VARIABLES busyCooking,
          currentCookingTime,
          titleLabel,      \* what the label says
          progress,        \* the progress bar: the fraction num / den, or hidden
          mainQueue        \* the closures posted and not yet run

vars == <<busyCooking, currentCookingTime, titleLabel, progress, mainQueue>>

Text(t, n) == [text |-> t, secs |-> n]
Closure(w, n) == [work |-> w, secs |-> n]
Hidden == [num |-> 0, den |-> 0]

Init == /\ busyCooking = FALSE /\ currentCookingTime = 0
        /\ titleLabel = Text("default", 0)
        /\ progress = Hidden
        /\ mainQueue = << >>

(* A hardness button is tapped.  Mutated: busyCooking is not asked.         *)
hardnessSelectedAnyTime(b) ==
  /\ busyCooking' = TRUE
  /\ titleLabel' = Text("starting", eggTimes[b])
  /\ progress' = [num |-> 0, den |-> 1]
  /\ mainQueue' = Append(mainQueue, Closure("begin", eggTimes[b]))
  /\ UNCHANGED currentCookingTime

hardnessSelected(b) ==
  /\ ~busyCooking
  /\ busyCooking' = TRUE
  /\ titleLabel' = Text("starting", eggTimes[b])
  /\ progress' = [num |-> 0, den |-> 1]
  /\ mainQueue' = Append(mainQueue, Closure("begin", eggTimes[b]))
  /\ UNCHANGED currentCookingTime

(* showRemainingTime, called by the closure at the head of the queue.       *)
showRemainingTime(n) ==
  \/ /\ n > 0
     /\ titleLabel' = Text("remaining", n)
     /\ progress' = [num |-> currentCookingTime' - n, den |-> currentCookingTime']
     /\ mainQueue' = Append(Tail(mainQueue), Closure("show", n - 1))
  \/ /\ n = 0
     /\ titleLabel' = Text("done", 0)
     /\ progress' = [num |-> 1, den |-> 1]
     /\ mainQueue' = Append(Tail(mainQueue), Closure("reset", 0))

Runs(work) == mainQueue # << >> /\ Head(mainQueue).work = work

(* The first closure reads the cooking time and shows it in full.           *)
(* Mutated: the time is read only after it is shown.                        *)
beginLate ==
  /\ Runs("begin")
  /\ titleLabel' = Text("remaining", Head(mainQueue).secs)
  /\ progress' = [num |-> currentCookingTime, den |-> currentCookingTime]
  /\ mainQueue' = Append(Tail(mainQueue), Closure("show", Head(mainQueue).secs - 1))
  /\ currentCookingTime' = Head(mainQueue).secs
  /\ UNCHANGED busyCooking

begin ==
  /\ Runs("begin")
  /\ currentCookingTime' = Head(mainQueue).secs
  /\ showRemainingTime(Head(mainQueue).secs)
  /\ UNCHANGED busyCooking

show ==
  /\ Runs("show")
  /\ UNCHANGED <<busyCooking, currentCookingTime>>
  /\ showRemainingTime(Head(mainQueue).secs)

(* The last closure frees the buttons.  Mutated: it does not.               *)
resetTitleOnly ==
  /\ Runs("reset")
  /\ titleLabel' = Text("default", 0) /\ progress' = Hidden
  /\ mainQueue' = Tail(mainQueue)
  /\ UNCHANGED <<busyCooking, currentCookingTime>>

reset ==
  /\ Runs("reset")
  /\ titleLabel' = Text("default", 0) /\ progress' = Hidden
  /\ busyCooking' = FALSE
  /\ mainQueue' = Tail(mainQueue)
  /\ UNCHANGED currentCookingTime

Next == begin \/ show \/ reset \/ \E b \in Titles : hardnessSelected(b)

Spec == Init /\ [][Next]_vars

(* The main queue runs what it holds; nobody has to tap.                    *)
FairSpec == Spec /\ WF_vars(begin \/ show \/ reset)
-------------------------------------------------------------------------------
TypeOK ==
  /\ busyCooking \in BOOLEAN /\ currentCookingTime \in Nat
  /\ titleLabel \in [text : {"default", "starting", "remaining", "done"}, secs : Nat]
  /\ progress \in [num : Nat, den : Nat]
  /\ mainQueue \in Seq([work : {"begin", "show", "reset"}, secs : Nat])

(* There is one countdown in the queue while the flag is up and none when   *)
(* it is down, and then the screen is back to its default: no tap can leave *)
(* two countdowns fighting for the label, or free buttons beside a running  *)
(* one.                                                                     *)
OneCountdown ==
  /\ Len(mainQueue) = IF busyCooking THEN 1 ELSE 0
  /\ ~busyCooking <=> titleLabel.text = "default"
  /\ ~busyCooking <=> progress = Hidden

(* The bar shows the part of the cooking time that the label says is over,  *)
(* although the two read the time from different places.                    *)
BarAgreesWithLabel ==
  titleLabel.text = "remaining" =>
    /\ titleLabel.secs \in 1 .. currentCookingTime
    /\ progress = [num |-> currentCookingTime - titleLabel.secs, den |-> currentCookingTime]

(* The seconds go down one by one from the egg's time to 1, then "Done",    *)
(* whatever is tapped meanwhile.                                            *)
CountsDown ==
  [][titleLabel' # titleLabel =>
       /\ titleLabel.text = "starting" => titleLabel' = Text("remaining", titleLabel.secs)
       /\ titleLabel.text = "remaining" =>
            titleLabel' = IF titleLabel.secs = 1 THEN Text("done", 0)
                                                 ELSE Text("remaining", titleLabel.secs - 1)
    ]_vars

(* Every accepted tap ends with the buttons free again.                     *)
CookingEnds == busyCooking ~> ~busyCooking
===============================================================================
