-------------------------------- MODULE Apps --------------------------------
(***************************************************************************)
(* The apps of one screen or a few: EggTimer, Quizzler, Flash-Chat,         *)
(* ByteCoin, Clima and Destini.  They share nothing; app says which runs.   *)
(***************************************************************************)
EXTENDS EggTimer

CONSTANTS N, Buttons, Correct, MaxTaps,          \* Quizzler
          Title, MaxAppearances,                 \* FlashChat
          Currencies, MaxRates,                  \* ByteCoin
          Cities, MaxFetches, MaxLocations,      \* Clima
          Stories, choice1, choice2, destination1, destination2, MaxChoices   \* Destini

VARIABLES app,
          questionnumber, score, scoreLabel, question, coloured, answered,
          stack, swipingBack, isNavigationBarHidden, titleText, title, animations, appearances,
          selected, rates, rateAnswers, rateClosures, bitcoinLabel, currencyLabel,
          searchText, editing, due, edits, locating, fetched, inFlight, answers, closures, weather,
          currentStoryIndex, shown, posted

quizVars == <<questionnumber, score, scoreLabel, question, coloured, answered>>
flashVars == <<stack, swipingBack, isNavigationBarHidden, titleText, title, animations, appearances>>
coinVars == <<selected, rates, rateAnswers, rateClosures, bitcoinLabel, currencyLabel>>
weatherVars == <<searchText, editing, due, edits, locating, fetched, inFlight, answers, closures, weather>>
storyVars == <<currentStoryIndex, shown, posted>>
appVars == <<app, vars, quizVars, flashVars, coinVars, weatherVars, storyVars>>

Quiz == INSTANCE Quizzler WITH MaxPosted <- MaxTaps, posted <- answered
Flash == INSTANCE FlashChat WITH titleLabel <- title, posted <- animations
Coin == INSTANCE ByteCoin WITH MaxRequests <- MaxRates,
  inFlight <- rates, answers <- rateAnswers, mainQueue <- rateClosures
Weather == INSTANCE Clima WITH MaxRequests <- MaxFetches,
  mainQueue <- closures, shown <- weather
Story == INSTANCE Destini WITH MaxPosted <- MaxChoices

CoinScreen == INSTANCE LatestAnswer WITH Requests <- Coin!Requests,
  asked <- DOMAIN selected, answers <- rateAnswers, screen <- Coin!answerShown
WeatherScreen == INSTANCE LatestAnswer WITH Requests <- Weather!Requests,
  asked <- DOMAIN fetched, answers <- answers, screen <- Weather!answerShown

ASSUME AppsAssumption ==
  /\ Quiz!QuizAssumption /\ Flash!FlashChatAssumption
  /\ Coin!ByteCoinAssumption /\ Weather!ClimaAssumption /\ Story!DestiniAssumption
-----------------------------------------------------------------------------
AppsInit ==
  /\ app \in {"EggTimer", "Quizzler", "FlashChat", "ByteCoin", "Clima", "Destini"}
  /\ Init /\ Quiz!Init /\ Flash!Init /\ Coin!Init /\ Weather!Init /\ Story!Init

EggRuns == app = "EggTimer" /\ UNCHANGED <<app, quizVars, flashVars, coinVars, weatherVars, storyVars>>
QuizRuns == app = "Quizzler" /\ UNCHANGED <<app, vars, flashVars, coinVars, weatherVars, storyVars>>
FlashRuns == app = "FlashChat" /\ UNCHANGED <<app, vars, quizVars, coinVars, weatherVars, storyVars>>
CoinRuns == app = "ByteCoin" /\ UNCHANGED <<app, vars, quizVars, flashVars, weatherVars, storyVars>>
WeatherRuns == app = "Clima" /\ UNCHANGED <<app, vars, quizVars, flashVars, coinVars, storyVars>>
StoryRuns == app = "Destini" /\ UNCHANGED <<app, vars, quizVars, flashVars, coinVars, weatherVars>>

AppsNext ==
  \/ EggRuns /\ Next
  \/ QuizRuns /\ Quiz!Next
  \/ FlashRuns /\ Flash!Next
  \/ CoinRuns /\ Coin!Next
  \/ WeatherRuns /\ Weather!Next
  \/ StoryRuns /\ Story!Next

AppsSpec == AppsInit /\ [][AppsNext]_appVars

(* The fairness EggTimer and FlashChat state: the main queue runs closures. *)
FairAppsSpec ==
  /\ AppsSpec
  /\ WF_appVars(EggRuns /\ (begin \/ show \/ reset))
  /\ WF_appVars(FlashRuns /\ Flash!postCharToTitle)
-----------------------------------------------------------------------------
(* Quizzler: the answer checked belongs to the question shown.              *)
ShowsCurrentQuestion == Quiz!ShowsCurrentQuestion

(* Quizzler: a point is worth a question passed or about to be passed.      *)
PointsAreQuestions == Quiz!PointsAreQuestions

(* Quizzler: the score shown is stale only after the reset.                 *)
LabelStaleOnlyAfterReset == Quiz!LabelStaleOnlyAfterReset

(* Flash-Chat: however many animations overlap, no character is lost.       *)
NoCharacterLost == Flash!NoCharacterLost

(* Flash-Chat: the title is there in the end.                               *)
TitleCompletes == app = "FlashChat" => Flash!TitleCompletes

(* ByteCoin, Clima: the screen never goes back to an answer that came       *)
(* earlier, and shows each whole: the two labels of ByteCoin, set apart,    *)
(* are of one and the same answer.                                          *)
ImplementsLatestAnswer == CoinScreen!Spec /\ WeatherScreen!Spec

(* Clima: each edit that ended was searched for once, with its text.        *)
EndsWithOneSearch == Weather!EndsWithOneSearch

(* Destini: the story is as far ahead of the screen as closures are on      *)
(* their way.                                                               *)
ScreenLagsByPosted == Story!ScreenLagsByPosted
=============================================================================
