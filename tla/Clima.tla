-------------------------------- MODULE Clima --------------------------------
(***************************************************************************)
(* The weather app.  The search field's editingDidEnd event fetches by city *)
(* name, the location manager's answer by coordinates.  WeatherManager,     *)
(* which is not in the repository, calls its delegate back on a background  *)
(* thread, in any order or not at all, and the labels are set by closures   *)
(* in the main queue.  A handler that ends editing calls searchTextEntered  *)
(* through UIKit before it returns: the main thread does nothing else while *)
(* such a call is due.                                                      *)
(***************************************************************************)
EXTENDS Integers, SequencesExt

CONSTANTS Cities,        \* texts a user types
          MaxRequests,   \* bound: requests made
          MaxLocations   \* bound: locations in one didUpdateLocations

ClimaAssumption == /\ "" \notin Cities /\ "coordinates" \notin Cities
                          /\ MaxRequests \in Nat /\ MaxLocations \in Nat \ {0}

Requests == 1 .. MaxRequests

VARIABLES searchText,   \* the text of the search field
          editing,      \* the field is first responder
          due,          \* calls of searchTextEntered the handler that runs makes
          edits,        \* history: of each edit that ended, the request to come
                        \* and the text of the field
          locating,     \* requestLocation was called and not answered
          fetched,      \* fetched[i]: what the i-th request asks for
          inFlight,     \* requests whose answer has not come
          answers,      \* requests answered, in the order of the delegate calls
          mainQueue,    \* requests whose closure waits in the main queue
          shown         \* the request whose weather the labels show, 0 for none

field == <<searchText, editing, due, edits>>
vars == <<field, locating, fetched, inFlight, answers, mainQueue, shown>>

Init == /\ searchText = "" /\ editing = FALSE /\ due = 0 /\ edits = {} /\ locating = FALSE
        /\ fetched = << >> /\ inFlight = {} /\ answers = << >>
        /\ mainQueue = << >> /\ shown = 0

(* WeatherManager.fetchWeather, for each query of the sequence qs.          *)
fetchWeather(qs) ==
  /\ Len(fetched) + Len(qs) =< MaxRequests
  /\ fetched' = fetched \o qs
  /\ inFlight' = inFlight \cup (DOMAIN fetched' \ DOMAIN fetched)
  /\ UNCHANGED <<answers, mainQueue, shown>>

------------------------------------------------------------------------------
(* The search field.  It is cleared when editing begins, which              *)
(* textFieldShouldClear allows.                                             *)
textFieldDidBeginEditing ==
  /\ due = 0 /\ ~editing
  /\ editing' = TRUE /\ searchText' = ""
  /\ UNCHANGED <<due, edits, locating, fetched, inFlight, answers, mainQueue, shown>>

type(text) ==
  /\ due = 0 /\ editing
  /\ searchText' = text
  /\ UNCHANGED <<editing, due, edits, locating, fetched, inFlight, answers, mainQueue, shown>>

(* UIKit's endEditing sends editingDidEnd if the field is being edited.     *)
(* There is room for the request.                                           *)
endEditing(calls) ==
  /\ due = 0 /\ Len(fetched) < MaxRequests
  /\ editing' = FALSE
  /\ due' = calls
  /\ edits' = IF editing THEN edits \cup {<<Len(fetched) + 1, searchText>>} ELSE edits
  /\ UNCHANGED <<searchText, locating, fetched, inFlight, answers, mainQueue, shown>>

editingDidEnd == IF editing THEN 1 ELSE 0

(* The return key is enabled while there is text.                           *)
textFieldShouldReturn == editing /\ searchText # "" /\ endEditing(editingDidEnd)

(* Mutated: it calls searchTextEntered itself as well.                      *)
searchesItself == endEditing(editingDidEnd + 1)
searchButtonPressed == endEditing(editingDidEnd)

searchTextEntered ==
  /\ due > 0 /\ due' = due - 1
  /\ fetchWeather(<<searchText>>)
  /\ searchText' = ""
  /\ UNCHANGED <<editing, edits, locating>>

------------------------------------------------------------------------------
(* The location manager.                                                    *)
updateLocation ==
  /\ due = 0
  /\ locating' = TRUE
  /\ UNCHANGED <<field, fetched, inFlight, answers, mainQueue, shown>>

didUpdateLocations(n) ==
  /\ due = 0 /\ locating /\ locating' = FALSE
  /\ fetchWeather([i \in 1 .. n |-> "coordinates"])
  /\ UNCHANGED field

didFailWithError ==
  /\ due = 0 /\ locating /\ locating' = FALSE
  /\ UNCHANGED <<field, fetched, inFlight, answers, mainQueue, shown>>

------------------------------------------------------------------------------
(* The delegate of WeatherManager.  Mutated: the closure jumps the queue.   *)
postFirst(i) == mainQueue' = <<i>> \o mainQueue
didUpdateWeather(i) == mainQueue' = Append(mainQueue, i)

weatherReceived(i) ==
  /\ i \in inFlight /\ inFlight' = inFlight \ {i}
  /\ answers' = Append(answers, i)
  /\ didUpdateWeather(i)
  /\ UNCHANGED <<field, locating, fetched, shown>>

(* A request that fails is only printed.                                    *)
weatherFailed(i) ==
  /\ i \in inFlight /\ inFlight' = inFlight \ {i}
  /\ UNCHANGED <<field, locating, fetched, answers, mainQueue, shown>>

setLabels ==
  /\ due = 0 /\ mainQueue # << >>
  /\ shown' = Head(mainQueue) /\ mainQueue' = Tail(mainQueue)
  /\ UNCHANGED <<field, locating, fetched, inFlight, answers>>

(* The app is ended and launched again.                                     *)
relaunch == /\ searchText' = "" /\ editing' = FALSE /\ due' = 0 /\ edits' = {} /\ locating' = FALSE
            /\ fetched' = << >> /\ inFlight' = {} /\ answers' = << >>
            /\ mainQueue' = << >> /\ shown' = 0

Next == \/ textFieldDidBeginEditing \/ textFieldShouldReturn \/ searchButtonPressed
        \/ searchTextEntered
        \/ updateLocation \/ didFailWithError \/ setLabels \/ relaunch
        \/ \E text \in Cities \cup {""} : type(text)
        \/ \E n \in 1 .. MaxLocations : didUpdateLocations(n)
        \/ \E i \in Requests : weatherReceived(i) \/ weatherFailed(i)

Spec == Init /\ [][Next]_vars
------------------------------------------------------------------------------
(* The handlers search once for each edit that ended, with what the field   *)
(* held then, before anything else is requested, and never else: not twice, *)
(* through the event and by themselves, not after the field was cleared, and*)
(* not when the button is pressed while no text is being edited.            *)
EndsWithOneSearch ==
  LET byName == {i \in DOMAIN fetched : fetched[i] # "coordinates"}
  IN /\ due <= 1
     /\ edits = {<<i, fetched[i]>> : i \in byName}
                  \cup (IF due = 1 THEN {<<Len(fetched) + 1, searchText>>} ELSE {})

(* The place among the answers of the one that the labels show, 0 for none. *)
answerShown == IF shown = 0 THEN 0
               ELSE CHOOSE n \in DOMAIN answers : answers[n] = shown
==============================================================================
