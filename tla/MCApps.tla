------------------------------- MODULE MCApps -------------------------------
(***************************************************************************)
(* What has to go on by itself, for TLC: the six apps, whose closures the   *)
(* main queue runs, and the notifications of the object store (Coordinator, *)
(* with a callback that writes), whose worker and run loops work.  They     *)
(* share nothing; part says which runs.                                     *)
(***************************************************************************)
EXTENDS Apps

CONSTANTS r1, n1   \* a Realm and a notifier

VARIABLES part,
          latest, writer, version, signalled, wakeUp, skipVersion, workerAt, pin,
          notifier, callbacks, worker, call, heard

notificationVars == <<latest, writer, version, signalled, wakeUp, skipVersion, workerAt,
                      pin, notifier, callbacks, worker, call, heard>>
partsVars == <<part, appVars, notificationVars>>

(* One observed collection with one callback, three versions of the file.   *)
Notifications == INSTANCE Coordinator WITH
  Realms <- {r1}, Notifiers <- {n1}, Owner <- [n \in {n1} |-> r1],
  MaxVersion <- 3, MaxToken <- 1,
  CallbacksWrite <- {"last", "others"}, NewOnesLeave <- FALSE, FirstIsLate <- FALSE

(* Longer than the app's 5, 7 and 12 seconds, so that the countdowns share  *)
(* most of their states and cross each other's values.                      *)
MCeggTimes == [Soft |-> 25, Medium |-> 40, Hard |-> 60]

(* The places of the correct answers to the ten questions of the app.       *)
MCCorrect == [q \in 0 .. 9 |-> <<2, 3, 2, 1, 3, 2, 2, 1, 2, 2>>[q + 1]]

(* The title of ten characters.                                             *)
MCTitle == <<"bolt", "F", "l", "a", "s", "h", "C", "h", "a", "t">>

(* The app's six stories.  The three endings share their choices' texts.    *)
MCStories == 0 .. 5
MCchoice1 == [s \in MCStories |-> IF s \in 3 .. 5 THEN "The" ELSE <<"hop in", "climb in", "tape">>[s + 1]]
MCchoice2 == [s \in MCStories |-> IF s \in 3 .. 5 THEN "End" ELSE <<"ask", "change tire", "knife">>[s + 1]]
MCdestination1 == [s \in MCStories |-> <<2, 2, 5, 0, 0, 0>>[s + 1]]
MCdestination2 == [s \in MCStories |-> <<1, 3, 4, 0, 0, 0>>[s + 1]]
-----------------------------------------------------------------------------
PartsInit ==
  /\ part \in {"apps", "notifications"}
  /\ AppsInit /\ Notifications!Init
  /\ part = "notifications" => app = "EggTimer"

AppsRun == part = "apps" /\ UNCHANGED <<part, notificationVars>>
NotificationsRun == part = "notifications" /\ UNCHANGED <<part, appVars>>

PartsNext ==
  \/ AppsRun /\ AppsNext
  \/ NotificationsRun /\ Notifications!Next

(* The fairness that Apps and Coordinator state, of the part that runs.     *)
FairPartsSpec ==
  /\ PartsInit /\ [][PartsNext]_partsVars
  /\ WF_partsVars(AppsRun /\ EggRuns /\ (begin \/ show \/ reset))
  /\ WF_partsVars(AppsRun /\ FlashRuns /\ Flash!postCharToTitle)
  /\ WF_partsVars(NotificationsRun /\ Notifications!workerStep)
  /\ WF_partsVars(NotificationsRun /\ Notifications!deliveryStep(r1))
  /\ WF_partsVars(NotificationsRun /\ Notifications!notify(r1))
  /\ WF_partsVars(NotificationsRun /\ Notifications!cancelTransaction(r1))
-----------------------------------------------------------------------------
(* Coordinator: a change reaches each callback that wants it.               *)
ChangeArrives == Notifications!ChangeArrives

(* Coordinator: whoever waits for the worker goes on.                       *)
WaitEnds == Notifications!WaitEnds
=============================================================================
