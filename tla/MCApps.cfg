SPECIFICATION FairPartsSpec
CONSTANTS
  r1 = r1
  n1 = n1
  Titles = {"Soft", "Medium", "Hard"}
  eggTimes <- MCeggTimes
\* Up to three taps within the second that an answer is shown.
  N = 10
  Buttons = {1, 2, 3}
  Correct <- MCCorrect
  MaxTaps = 3
\* A welcome screen that appears four times: four animations can overlap.
  Title <- MCTitle
  MaxAppearances = 4
\* Four requests in flight together, for two currencies: enough for every order
\* of answers, errors between them and a queue of several closures.
  Currencies = {"EUR", "USD"}
  MaxRates = 4
\* One city and up to three requests, two of them by one didUpdateLocations
\* call: searches and locations overlap, and answers overtake each other.
  Cities = {"Dhaka"}
  MaxFetches = 3
  MaxLocations = 2
  Stories <- MCStories
  choice1 <- MCchoice1
  choice2 <- MCchoice2
  destination1 <- MCdestination1
  destination2 <- MCdestination2
\* The stories are at most four choices apart.
  MaxChoices = 4
INVARIANTS OneCountdown BarAgreesWithLabel ShowsCurrentQuestion PointsAreQuestions
INVARIANTS LabelStaleOnlyAfterReset NoCharacterLost ScreenLagsByPosted EndsWithOneSearch
PROPERTIES CountsDown CookingEnds TitleCompletes ImplementsLatestAnswer ChangeArrives WaitEnds
CHECK_DEADLOCK FALSE
