------------------------------- MODULE ByteCoin -------------------------------
(***************************************************************************)
(* The bitcoin ticker.  Selecting a row of the picker starts a request of   *)
(* its own; the responses come on background threads in any order, or as    *)
(* errors, and each hands the main queue a closure that sets the labels.    *)
(* Nothing ties a response to the row selected by then.                     *)
(***************************************************************************)
EXTENDS Integers, SequencesExt

CONSTANTS Currencies,   \* currencyArray
          MaxRequests   \* bound: requests made

ByteCoinAssumption == MaxRequests \in Nat

Requests == 1 .. MaxRequests

VARIABLES selected,       \* selected[i]: the currency of the i-th request
          inFlight,       \* requests whose completion handler has not run
          answers,        \* requests answered with a rate, in the order of the handlers
          mainQueue,      \* requests whose closure waits in the main queue
          bitcoinLabel,   \* the request whose rate is shown, 0 for none
          currencyLabel   \* the request whose currency is shown

vars == <<selected, inFlight, answers, mainQueue, bitcoinLabel, currencyLabel>>

Init == /\ selected = << >> /\ inFlight = {} /\ answers = << >>
        /\ mainQueue = << >> /\ bitcoinLabel = 0 /\ currencyLabel = 0

(* pickerView(didSelectRow), fetchRate and performRequest: a task in a      *)
(* session of its own.                                                      *)
fetchRate(currency) ==
  /\ Len(selected) < MaxRequests
  /\ selected' = Append(selected, currency)
  /\ inFlight' = inFlight \cup {Len(selected')}
  /\ UNCHANGED <<answers, mainQueue, bitcoinLabel, currencyLabel>>

(* didUpdateTicker posts the closure.  Mutated: it jumps the queue.         *)
postFirst(i) == mainQueue' = <<i>> \o mainQueue
didUpdateTicker(i) == mainQueue' = Append(mainQueue, i)

(* The completion handler with data that parseJson decodes.                 *)
rateReceived(i) ==
  /\ i \in inFlight /\ inFlight' = inFlight \ {i}
  /\ answers' = Append(answers, i)
  /\ didUpdateTicker(i)
  /\ UNCHANGED <<selected, bitcoinLabel, currencyLabel>>

(* The completion handler with an error, without data, or with data that    *)
(* parseJson cannot decode: didFailWithError only prints.                   *)
requestFailed(i) ==
  /\ i \in inFlight /\ inFlight' = inFlight \ {i}
  /\ UNCHANGED <<selected, answers, mainQueue, bitcoinLabel, currencyLabel>>

(* The closure on the main thread.                                          *)
setLabels ==
  /\ mainQueue # << >>
  /\ bitcoinLabel' = Head(mainQueue) /\ currencyLabel' = Head(mainQueue)
  /\ mainQueue' = Tail(mainQueue)
  /\ UNCHANGED <<selected, inFlight, answers>>

(* The app is ended and launched again: nothing of it is kept.              *)
relaunch == /\ selected' = << >> /\ inFlight' = {} /\ answers' = << >>
            /\ mainQueue' = << >> /\ bitcoinLabel' = 0 /\ currencyLabel' = 0

Next == \/ setLabels \/ relaunch
        \/ \E currency \in Currencies : fetchRate(currency)
        \/ \E i \in Requests : rateReceived(i) \/ requestFailed(i)

Spec == Init /\ [][Next]_vars
-------------------------------------------------------------------------------
(* The place among the answers of the one that both labels show, which are  *)
(* set apart: 0 for none.                                                   *)
answerShown == IF bitcoinLabel = 0 /\ currencyLabel = 0 THEN 0
               ELSE CHOOSE n \in DOMAIN answers :
                      answers[n] = bitcoinLabel /\ answers[n] = currencyLabel
==============================================================================
