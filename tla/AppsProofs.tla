------------------------------ MODULE AppsProofs ------------------------------
(***************************************************************************)
(* The apps of one screen, for all values of the constants: any quiz, any   *)
(* title, any number of requests, any story.  Each theorem is about the     *)
(* specification that TLC checks, in which one of the six runs.             *)
(***************************************************************************)
EXTENDS Apps, SequenceTheorems, TLAPS

(***************************************************************************)
(* Whichever app runs, each of them does what its own module says, or       *)
(* nothing.                                                                 *)
(***************************************************************************)
LEMMA QuizRunsAsSpecified == AppsSpec => Quiz!Spec
<1>1. AppsInit => Quiz!Init
  BY DEF AppsInit
<1>2. ASSUME [AppsNext]_appVars
      PROVE  [Quiz!Next]_(Quiz!vars)
  BY <1>2 DEF AppsNext, appVars, quizVars, Quiz!vars, Quiz!brain, EggRuns, QuizRuns,
              FlashRuns, CoinRuns, WeatherRuns, StoryRuns
<1> QED
  BY <1>1, <1>2, PTL DEF AppsSpec, Quiz!Spec

LEMMA FlashRunsAsSpecified == AppsSpec => Flash!Spec
<1>1. AppsInit => Flash!Init
  BY DEF AppsInit
<1>2. ASSUME [AppsNext]_appVars
      PROVE  [Flash!Next]_(Flash!vars)
  BY <1>2 DEF AppsNext, appVars, flashVars, Flash!vars, Flash!animation, EggRuns, QuizRuns,
              FlashRuns, CoinRuns, WeatherRuns, StoryRuns
<1> QED
  BY <1>1, <1>2, PTL DEF AppsSpec, Flash!Spec

LEMMA CoinRunsAsSpecified == AppsSpec => Coin!Spec
<1>1. AppsInit => Coin!Init
  BY DEF AppsInit
<1>2. ASSUME [AppsNext]_appVars
      PROVE  [Coin!Next]_(Coin!vars)
  BY <1>2 DEF AppsNext, appVars, coinVars, Coin!vars, EggRuns, QuizRuns,
              FlashRuns, CoinRuns, WeatherRuns, StoryRuns
<1> QED
  BY <1>1, <1>2, PTL DEF AppsSpec, Coin!Spec

LEMMA WeatherRunsAsSpecified == AppsSpec => Weather!Spec
<1>1. AppsInit => Weather!Init
  BY DEF AppsInit
<1>2. ASSUME [AppsNext]_appVars
      PROVE  [Weather!Next]_(Weather!vars)
  BY <1>2 DEF AppsNext, appVars, weatherVars, Weather!vars, Weather!field, EggRuns, QuizRuns,
              FlashRuns, CoinRuns, WeatherRuns, StoryRuns
<1> QED
  BY <1>1, <1>2, PTL DEF AppsSpec, Weather!Spec

LEMMA StoryRunsAsSpecified == AppsSpec => Story!Spec
<1>1. AppsInit => Story!Init
  BY DEF AppsInit
<1>2. ASSUME [AppsNext]_appVars
      PROVE  [Story!Next]_(Story!vars)
  BY <1>2 DEF AppsNext, appVars, storyVars, Story!vars, EggRuns, QuizRuns,
              FlashRuns, CoinRuns, WeatherRuns, StoryRuns
<1> QED
  BY <1>1, <1>2, PTL DEF AppsSpec, Story!Spec

(***************************************************************************)
(* Quizzler: the four invariants together are inductive.                    *)
(***************************************************************************)
QuizInv == /\ Quiz!QuizAssumption /\ Quiz!TypeOK /\ Quiz!ShowsCurrentQuestion
        /\ Quiz!PointsAreQuestions /\ Quiz!LabelStaleOnlyAfterReset

(* questionnumber moves on by one, or back to the first question.           *)
LEMMA NextNumber ==
  ASSUME Quiz!QuizAssumption, NEW q \in 0 .. N - 1
  PROVE  \/ q + 1 < N /\ (q + 1) % N = q + 1
         \/ q + 1 = N /\ (q + 1) % N = 0
<1>1. N \in Nat /\ N > 0
  BY DEF Quiz!QuizAssumption
<1>2. CASE q + 1 < N
  BY <1>1, <1>2, Z3
<1>3. CASE q + 1 = N
  BY <1>1, <1>3, Z3
<1> QED
  BY <1>1, <1>2, <1>3

(* An answer scores at most one point and posts one closure.                *)
LEMMA AnswerInv ==
  ASSUME QuizInv, NEW b \in Buttons, Quiz!answerButtonPressed(b)
  PROVE  QuizInv'
<1>1. score' \in {score, score + 1} /\ score' \in Nat
  BY DEF Quiz!answerButtonPressed, Quiz!checkAnswer, QuizInv, Quiz!TypeOK
<1>2. Quiz!TypeOK'
  BY <1>1 DEF Quiz!QuizAssumption, Quiz!answerButtonPressed, Quiz!updateUi, QuizInv, Quiz!TypeOK
<1>3. Quiz!PointsAreQuestions'
  BY <1>1 DEF Quiz!QuizAssumption, Quiz!answerButtonPressed, QuizInv, Quiz!TypeOK, Quiz!PointsAreQuestions
<1>4. Quiz!ShowsCurrentQuestion' /\ Quiz!LabelStaleOnlyAfterReset'
  BY DEF Quiz!answerButtonPressed, Quiz!updateUi, QuizInv, Quiz!ShowsCurrentQuestion, Quiz!LabelStaleOnlyAfterReset
<1> QED
  BY <1>2, <1>3, <1>4 DEF QuizInv

(* A closure passes a question, or starts over with no points.              *)
LEMMA NextQuestionInv == QuizInv /\ Quiz!nextQuestion => QuizInv'
<1> SUFFICES ASSUME QuizInv, Quiz!nextQuestion PROVE QuizInv'
  OBVIOUS
<1>1. questionnumber \in 0 .. N - 1 /\ score \in Nat /\ answered \in 1 .. MaxTaps
  BY DEF Quiz!QuizAssumption, QuizInv, Quiz!TypeOK, Quiz!nextQuestion
<1>2. answered' = answered - 1 /\ question' = questionnumber' /\ scoreLabel' = scoreLabel
  BY DEF Quiz!nextQuestion, Quiz!setQuestionDisplay
<1>3. \/ questionnumber' = questionnumber + 1 /\ questionnumber + 1 < N /\ score' = score
      \/ questionnumber' = 0 /\ score' = 0
  BY <1>1, NextNumber DEF QuizInv, Quiz!nextQuestion, Quiz!incQuestionNumber
<1>4. questionnumber' \in 0 .. N - 1 /\ score' \in Nat
  BY <1>1, <1>3 DEF QuizInv, Quiz!QuizAssumption
<1>5. Quiz!TypeOK'
  BY <1>1, <1>2, <1>4 DEF Quiz!QuizAssumption, QuizInv, Quiz!TypeOK, Quiz!nextQuestion, Quiz!resetButtonBg
<1>6. Quiz!PointsAreQuestions'
  BY <1>1, <1>2, <1>3 DEF Quiz!QuizAssumption, QuizInv, Quiz!PointsAreQuestions
<1>7. Quiz!ShowsCurrentQuestion' /\ Quiz!LabelStaleOnlyAfterReset'
  BY <1>2, <1>3 DEF QuizInv, Quiz!ShowsCurrentQuestion, Quiz!LabelStaleOnlyAfterReset
<1> QED
  BY <1>5, <1>6, <1>7 DEF QuizInv

(* What is known of the quiz is inductive.                                  *)
LEMMA QuizInvariant == AppsSpec => []QuizInv
<1>1. Quiz!Init => QuizInv
  BY AppsAssumption DEF Quiz!QuizAssumption, Quiz!Init, QuizInv, Quiz!TypeOK, Quiz!ShowsCurrentQuestion,
     Quiz!PointsAreQuestions, Quiz!LabelStaleOnlyAfterReset
<1>2. QuizInv /\ [Quiz!Next]_(Quiz!vars) => QuizInv'
  <2>1. QuizInv /\ UNCHANGED Quiz!vars => QuizInv'
    BY DEF Quiz!vars, Quiz!brain, QuizInv, Quiz!QuizAssumption, Quiz!TypeOK, Quiz!ShowsCurrentQuestion,
           Quiz!PointsAreQuestions, Quiz!LabelStaleOnlyAfterReset
  <2> QED
    BY <2>1, AnswerInv, NextQuestionInv DEF Quiz!Next
<1> QED
  BY <1>1, <1>2, QuizRunsAsSpecified, PTL DEF Quiz!Spec

(* The answer checked belongs to the question shown: ShowsCurrentQuestion,  *)
(* for any quiz and however many taps are waiting.                          *)
THEOREM TheShownQuestionIsChecked == AppsSpec => []ShowsCurrentQuestion
<1>1. QuizInv => ShowsCurrentQuestion
  BY DEF QuizInv, ShowsCurrentQuestion
<1> QED
  BY <1>1, QuizInvariant, PTL

(* No sequence of taps scores more points than questions passed or about    *)
(* to be passed: PointsAreQuestions.                                        *)
THEOREM PointsBounded == AppsSpec => []PointsAreQuestions
<1>1. QuizInv => PointsAreQuestions
  BY DEF QuizInv, PointsAreQuestions
<1> QED
  BY <1>1, QuizInvariant, PTL

(* The score label is stale only after the reset to zero:                   *)
(* LabelStaleOnlyAfterReset.                                                *)
THEOREM LabelFresh == AppsSpec => []LabelStaleOnlyAfterReset
<1>1. QuizInv => LabelStaleOnlyAfterReset
  BY DEF QuizInv, LabelStaleOnlyAfterReset
<1> QED
  BY <1>1, QuizInvariant, PTL

(***************************************************************************)
(* FlashChat: a character that goes from the end of titleText to the end of *)
(* the label stays where it was in the two put together.                    *)
(***************************************************************************)
FlashInv == /\ titleText \in Seq(STRING) /\ title \in Seq(STRING)
            /\ NoCharacterLost

LEMMA ReverseSeq ==
  ASSUME NEW s \in Seq(STRING)
  PROVE  /\ Flash!Reverse(s) \in Seq(STRING)
         /\ Len(Flash!Reverse(s)) = Len(s)
         /\ \A i \in 1 .. Len(s) : Flash!Reverse(s)[i] = s[Len(s) - i + 1]
<1>1. Len(s) \in Nat /\ \A i \in 1 .. Len(s) : Len(s) - i + 1 \in 1 .. Len(s)
  BY LenProperties
<1>2. \A i \in 1 .. Len(s) : s[Len(s) - i + 1] \in STRING
  BY <1>1, ElementOfSeq
<1>3. Flash!Reverse(s) = [i \in 1 .. Len(s) |-> s[Len(s) - i + 1]]
  BY DEF Flash!Reverse
<1> QED
  BY <1>1, <1>2, <1>3

LEMMA ReverseTwice ==
  ASSUME NEW s \in Seq(STRING)
  PROVE  Flash!Reverse(Flash!Reverse(s)) = s
<1> DEFINE r == Flash!Reverse(s)
           t == Flash!Reverse(r)
<1>1. Len(s) \in Nat /\ \A i \in 1 .. Len(s) : Len(s) - i + 1 \in 1 .. Len(s)
  BY LenProperties
<1>2. r \in Seq(STRING) /\ Len(r) = Len(s) /\ \A i \in 1 .. Len(s) : r[i] = s[Len(s) - i + 1]
  BY ReverseSeq
<1> HIDE DEF r
<1>3. t \in Seq(STRING) /\ Len(t) = Len(s) /\ \A i \in 1 .. Len(s) : t[i] = r[Len(s) - i + 1]
  BY <1>2, ReverseSeq
<1> HIDE DEF t
<1>4. ASSUME NEW i \in 1 .. Len(s)
      PROVE  t[i] = s[i]
  <2>1. t[i] = s[Len(s) - (Len(s) - i + 1) + 1]
    BY <1>1, <1>2, <1>3
  <2> QED
    BY <1>1, <2>1
<1>5. t = s
  BY <1>3, <1>4, SeqEqual
<1> QED
  BY <1>5 DEF t, r

(* One step of the animation moves the last character.                      *)
LEMMA CharacterMoves ==
  ASSUME NEW s \in Seq(STRING), s # << >>, NEW t \in Seq(STRING)
  PROVE  /\ Flash!Front(s) \in Seq(STRING) /\ Append(t, Flash!Last(s)) \in Seq(STRING)
         /\ Append(t, Flash!Last(s)) \o Flash!Reverse(Flash!Front(s)) = t \o Flash!Reverse(s)
<1> DEFINE f == Flash!Front(s)
           u == Append(t, Flash!Last(s))
           a == u \o Flash!Reverse(f)
           b == t \o Flash!Reverse(s)
<1>1. Len(s) \in Nat \ {0} /\ Len(t) \in Nat /\ \A i \in 1 .. Len(s) : s[i] \in STRING
  BY EmptySeq, LenProperties, ElementOfSeq
<1>2. /\ f \in Seq(STRING) /\ Len(f) = Len(s) - 1
      /\ \A i \in 1 .. Len(s) - 1 : f[i] = s[i]
  <2>1. \A i \in 1 .. Len(s) - 1 : s[i] \in STRING
    BY <1>1
  <2>2. /\ SubSeq(s, 1, Len(s) - 1) \in Seq(STRING)
        /\ Len(SubSeq(s, 1, Len(s) - 1)) = IF 1 =< Len(s) - 1 THEN Len(s) - 1 - 1 + 1 ELSE 0
        /\ \A i \in 1 .. Len(s) - 1 - 1 + 1 : SubSeq(s, 1, Len(s) - 1)[i] = s[1 + i - 1]
    BY <1>1, <2>1, SubSeqProperties
  <2>3. Len(s) - 1 - 1 + 1 = Len(s) - 1 /\ (1 =< Len(s) - 1 \/ Len(s) - 1 = 0)
    <3>1. \A n \in Nat \ {0} : n - 1 - 1 + 1 = n - 1 /\ (1 =< n - 1 \/ n - 1 = 0)
      OBVIOUS
    <3> QED
      BY <1>1, <3>1
  <2>4. \A i \in 1 .. Len(s) - 1 : 1 + i - 1 = i
    OBVIOUS
  <2> QED
    BY <2>2, <2>3, <2>4 DEF Flash!Front
<1>3. Flash!Last(s) \in STRING /\ Flash!Last(s) = s[Len(s)]
  BY <1>1 DEF Flash!Last
<1>4. /\ u \in Seq(STRING) /\ Len(u) = Len(t) + 1
      /\ \A i \in 1 .. Len(t) : u[i] = t[i]
      /\ u[Len(t) + 1] = s[Len(s)]
  BY <1>1, <1>3
<1>5. /\ Flash!Reverse(f) \in Seq(STRING) /\ Len(Flash!Reverse(f)) = Len(s) - 1
      /\ \A i \in 1 .. Len(s) - 1 : Flash!Reverse(f)[i] = s[Len(s) - i]
  <2> HIDE DEF f
  <2>1. /\ Flash!Reverse(f) \in Seq(STRING) /\ Len(Flash!Reverse(f)) = Len(f)
        /\ \A i \in 1 .. Len(f) : Flash!Reverse(f)[i] = f[Len(f) - i + 1]
    BY <1>2, ReverseSeq
  <2>2. ASSUME NEW i \in 1 .. Len(s) - 1
        PROVE  Flash!Reverse(f)[i] = s[Len(s) - i]
    <3>1. i \in 1 .. Len(f) /\ Len(f) - i + 1 = Len(s) - i /\ Len(s) - i \in 1 .. Len(s) - 1
      BY <1>1, <1>2
    <3> QED
      BY <1>2, <2>1, <3>1
  <2> QED
    BY <1>2, <2>1, <2>2
<1>6. /\ Flash!Reverse(s) \in Seq(STRING) /\ Len(Flash!Reverse(s)) = Len(s)
      /\ \A i \in 1 .. Len(s) : Flash!Reverse(s)[i] = s[Len(s) - i + 1]
  BY ReverseSeq
<1> DEFINE rf == Flash!Reverse(f)
           rs == Flash!Reverse(s)
<1>61. /\ rs \in Seq(STRING) /\ Len(rs) = Len(s)
       /\ \A i \in 1 .. Len(s) : rs[i] = s[Len(s) - i + 1]
  BY <1>6
<1> HIDE DEF f, u, rf, rs
<1>7. /\ a \in Seq(STRING) /\ Len(a) = Len(t) + Len(s)
      /\ \A i \in 1 .. Len(t) + Len(s) : a[i] = IF i =< Len(t) + 1 THEN u[i] ELSE rf[i - (Len(t) + 1)]
  <2>1. /\ u \o rf \in Seq(STRING) /\ Len(u \o rf) = Len(u) + Len(rf)
        /\ \A i \in 1 .. Len(u) + Len(rf) : (u \o rf)[i] = IF i =< Len(u) THEN u[i] ELSE rf[i - Len(u)]
    BY <1>4, <1>5, ConcatProperties DEF rf
  <2> QED
    BY <1>1, <1>4, <1>5, <2>1 DEF rf
<1>8. /\ b \in Seq(STRING) /\ Len(b) = Len(t) + Len(s)
      /\ \A i \in 1 .. Len(t) + Len(s) : b[i] = IF i =< Len(t) THEN t[i] ELSE rs[i - Len(t)]
  <2>1. rs \in Seq(STRING) /\ Len(rs) = Len(s)
    BY <1>61
  <2>2. /\ t \o rs \in Seq(STRING) /\ Len(t \o rs) = Len(t) + Len(rs)
        /\ \A i \in 1 .. Len(t) + Len(rs) : (t \o rs)[i] = IF i =< Len(t) THEN t[i] ELSE rs[i - Len(t)]
    BY <2>1, ConcatProperties
  <2> QED
    BY <2>1, <2>2 DEF rs
<1> HIDE DEF a, b
<1>9. ASSUME NEW i \in 1 .. Len(t) + Len(s)
      PROVE  a[i] = b[i]
  <2>1. CASE i =< Len(t)
    BY <1>1, <1>4, <1>7, <1>8, <2>1
  <2>2. CASE i = Len(t) + 1
    <3>1. i - Len(t) = 1 /\ 1 \in 1 .. Len(s) /\ Len(s) - 1 + 1 = Len(s)
      BY <1>1, <2>2
    <3>2. a[i] = s[Len(s)]
      <4>1. i \in 1 .. Len(t) + Len(s) /\ i =< Len(t) + 1
        BY <1>1, <2>2
      <4>2. a[i] = u[i]
        BY <1>7, <4>1
      <4> QED
        BY <1>4, <2>2, <4>2
    <3>3. b[i] = rs[1]
      BY <1>1, <1>8, <2>2, <3>1
    <3>4. rs[1] = s[Len(s)]
      BY <1>1, <1>61, <3>1
    <3> QED
      BY <3>2, <3>3, <3>4
  <2>3. CASE i > Len(t) + 1
    <3> DEFINE k == i - (Len(t) + 1)
               m == i - Len(t)
    <3>0. /\ k \in 1 .. Len(s) - 1 /\ m \in 1 .. Len(s)
          /\ Len(s) - m + 1 = Len(s) - k
      BY <1>1, <2>3
    <3>1. a[i] = rf[k]
      <4>1. ~(i =< Len(t) + 1)
        BY <1>1, <2>3
      <4> QED
        BY <1>1, <1>7, <4>1
    <3>2. b[i] = rs[m]
      <4>1. ~(i =< Len(t))
        BY <1>1, <2>3
      <4> QED
        BY <1>1, <1>8, <4>1
    <3> HIDE DEF k, m
    <3>3. rf[k] = s[Len(s) - k]
      BY <1>5, <3>0 DEF rf
    <3>4. rs[m] = s[Len(s) - m + 1]
      BY <1>61, <3>0
    <3> QED
      BY <3>0, <3>1, <3>2, <3>3, <3>4
  <2> QED
    BY <1>1, <2>1, <2>2, <2>3
<1>10. a = b
  BY <1>1, <1>7, <1>8, <1>9, SeqEqual
<1> QED
  BY <1>2, <1>4, <1>10 DEF a, b, f, u, rf, rs

(* A restart brings back the whole title.                                   *)
LEMMA RestartInv == Flash!showTitleAnimation => FlashInv'
<1> SUFFICES ASSUME Flash!showTitleAnimation PROVE FlashInv'
  OBVIOUS
<1>1. Title \in Seq(STRING)
  BY AppsAssumption DEF Flash!FlashChatAssumption
<1>2. titleText' = Flash!Reverse(Title) /\ title' = << >>
  BY DEF Flash!showTitleAnimation
<1>3. titleText' \in Seq(STRING) /\ Flash!Reverse(titleText') = Title
  BY <1>1, <1>2, ReverseSeq, ReverseTwice
<1>4. title' \in Seq(STRING) /\ title' \o Title = Title
  BY <1>1, <1>2, ConcatEmptySeq
<1> QED
  BY <1>3, <1>4 DEF FlashInv, NoCharacterLost, Flash!NoCharacterLost

LEMMA PostInv == FlashInv /\ Flash!postCharToTitle => FlashInv'
<1> SUFFICES ASSUME FlashInv, Flash!postCharToTitle PROVE FlashInv'
  OBVIOUS
<1>1. CASE titleText = << >>
  BY <1>1 DEF Flash!postCharToTitle, FlashInv, NoCharacterLost, Flash!NoCharacterLost
<1>2. CASE titleText # << >>
  <2>1. titleText' = Flash!Front(titleText) /\ title' = Append(title, Flash!Last(titleText))
    BY <1>2 DEF Flash!postCharToTitle
  <2> QED
    BY <1>2, <2>1, CharacterMoves DEF FlashInv, NoCharacterLost, Flash!NoCharacterLost
<1> QED
  BY <1>1, <1>2

(* However many animations overlap and wherever the user navigates, what is *)
(* shown and what is to come are the title in order: NoCharacterLost, for   *)
(* any title and any number of appearances.                                 *)
THEOREM TitleIsWhole == AppsSpec => []NoCharacterLost
<1>1. Flash!Init => FlashInv
  <2> SUFFICES ASSUME Flash!Init PROVE FlashInv
    OBVIOUS
  <2>1. Title \in Seq(STRING) /\ titleText = Flash!Reverse(Title) /\ title = << >>
    BY AppsAssumption DEF Flash!FlashChatAssumption, Flash!Init
  <2> QED
    BY <2>1, ReverseSeq, ReverseTwice, ConcatEmptySeq, EmptySeq
    DEF FlashInv, NoCharacterLost, Flash!NoCharacterLost
<1>2. FlashInv /\ [Flash!Next]_(Flash!vars) => FlashInv'
  <2> SUFFICES ASSUME FlashInv, [Flash!Next]_(Flash!vars) PROVE FlashInv'
    OBVIOUS
  <2>1. ASSUME UNCHANGED <<titleText, title>> PROVE FlashInv'
    BY <2>1 DEF FlashInv, NoCharacterLost, Flash!NoCharacterLost
  <2>2. CASE UNCHANGED Flash!vars
    BY <2>1, <2>2 DEF Flash!vars, Flash!animation
  <2>3. CASE Flash!postCharToTitle
    BY <2>3, PostInv
  <2>4. CASE Flash!back \/ Flash!swipeBack \/ Flash!finishSwipe \/ Flash!cancelSwipe
    BY <2>1, <2>4, RestartInv
    DEF Flash!back, Flash!swipeBack, Flash!finishSwipe, Flash!cancelSwipe, Flash!viewWillAppear,
        Flash!viewWillDisappear, Flash!animation
  <2>5. ASSUME NEW screen, Flash!show(screen) PROVE FlashInv'
    BY <2>1, <2>5 DEF Flash!show, Flash!viewWillDisappear, Flash!animation
  <2> QED
    BY <2>2, <2>3, <2>4, <2>5 DEF Flash!Next
<1>3. FlashInv => NoCharacterLost
  BY DEF FlashInv
<1> QED
  BY <1>1, <1>2, <1>3, FlashRunsAsSpecified, PTL DEF Flash!Spec

(***************************************************************************)
(* Destini: a choice makes a way one step longer, a closure cuts it off.    *)
(***************************************************************************)
StoryInv == /\ currentStoryIndex \in Stories /\ shown \in Stories /\ posted \in Nat
            /\ ScreenLagsByPosted

LEMMA StoryAssumption ==
  /\ 0 \in Stories
  /\ destination1 \in [Stories -> Stories] /\ destination2 \in [Stories -> Stories]
BY AppsAssumption DEF Story!DestiniAssumption

(* Nobody need go anywhere.                                                 *)
LEMMA LeadsToItself ==
  ASSUME NEW n \in Nat, NEW s \in Stories
  PROVE  Story!Leads(n, s, s)
<1> DEFINE way == [k \in 0 .. n |-> s]
<1>1. way \in [0 .. n -> Stories] /\ way[0] = s /\ way[n] = s
  OBVIOUS
<1>2. ASSUME NEW i \in 1 .. n
      PROVE  way[i] \in {way[i - 1], destination1[way[i - 1]], destination2[way[i - 1]]}
  BY <1>2
<1> QED
  BY <1>1, <1>2 DEF Story!Leads

LEMMA LeadsOn ==
  ASSUME NEW n \in Nat, NEW from \in Stories, NEW to \in Stories, NEW next \in Stories,
         Story!Leads(n, from, to), next \in {destination1[to], destination2[to]}
  PROVE  Story!Leads(n + 1, from, next)
<1>1. PICK way \in [0 .. n -> Stories] :
        /\ way[0] = from /\ way[n] = to
        /\ \A i \in 1 .. n :
             way[i] \in {way[i - 1], destination1[way[i - 1]], destination2[way[i - 1]]}
  BY DEF Story!Leads
<1> DEFINE longer == [k \in 0 .. n + 1 |-> IF k =< n THEN way[k] ELSE next]
<1>2. longer \in [0 .. n + 1 -> Stories] /\ longer[0] = from /\ longer[n + 1] = next
  BY <1>1
<1>3. ASSUME NEW i \in 1 .. n + 1
      PROVE  longer[i] \in {longer[i - 1], destination1[longer[i - 1]], destination2[longer[i - 1]]}
  <2>1. i - 1 \in 0 .. n /\ longer[i - 1] = way[i - 1]
    OBVIOUS
  <2>2. CASE i =< n
    <3>1. i \in 1 .. n /\ longer[i] = way[i]
      BY <2>2
    <3> QED
      BY <1>1, <2>1, <3>1
  <2>3. CASE i = n + 1
    BY <1>1, <1>2, <2>1, <2>3
  <2>4. i =< n \/ i = n + 1
    OBVIOUS
  <2> HIDE DEF longer
  <2> QED
    BY <2>2, <2>3, <2>4
<1> HIDE DEF longer
<1> QED
  BY <1>2, <1>3 DEF Story!Leads

(* The story is never further from the screen than closures are on their    *)
(* way, whatever the stories are and wherever they lead: ScreenLagsByPosted. *)
THEOREM ScreenCatchesUp == AppsSpec => []ScreenLagsByPosted
<1>1. Story!Init => StoryInv
  BY StoryAssumption, LeadsToItself DEF Story!Init, StoryInv, ScreenLagsByPosted, Story!ScreenLagsByPosted
<1>2. StoryInv /\ [Story!Next]_(Story!vars) => StoryInv'
  <2> SUFFICES ASSUME StoryInv, [Story!Next]_(Story!vars) PROVE StoryInv'
    OBVIOUS
  <2>1. CASE UNCHANGED Story!vars
    BY <2>1 DEF Story!vars, StoryInv, ScreenLagsByPosted, Story!ScreenLagsByPosted
  <2>2. CASE Story!runPosted
    <3>1. /\ posted' \in Nat /\ shown' = currentStoryIndex /\ currentStoryIndex' = currentStoryIndex
          /\ currentStoryIndex \in Stories
      BY <2>2 DEF Story!runPosted, Story!updateUi, StoryInv
    <3>2. Story!Leads(posted', shown', currentStoryIndex')
      BY <3>1, LeadsToItself
    <3> QED
      BY <3>1, <3>2 DEF StoryInv, ScreenLagsByPosted, Story!ScreenLagsByPosted
  <2>3. ASSUME NEW text, Story!choiceSelected(text) PROVE StoryInv'
    <3>1. /\ posted' = posted + 1 /\ shown' = shown
          /\ currentStoryIndex' \in {destination1[currentStoryIndex], destination2[currentStoryIndex]}
      BY <2>3 DEF Story!choiceSelected, Story!chosen
    <3>2. currentStoryIndex' \in Stories
      BY <3>1, StoryAssumption DEF StoryInv
    <3>3. Story!Leads(posted', shown', currentStoryIndex')
      BY <3>1, <3>2, LeadsOn DEF StoryInv, ScreenLagsByPosted, Story!ScreenLagsByPosted
    <3> QED
      BY <3>1, <3>2, <3>3 DEF StoryInv, ScreenLagsByPosted, Story!ScreenLagsByPosted
  <2> QED
    BY <2>1, <2>2, <2>3 DEF Story!Next
<1>3. StoryInv => ScreenLagsByPosted
  BY DEF StoryInv
<1> QED
  BY <1>1, <1>2, <1>3, StoryRunsAsSpecified, PTL DEF Story!Spec

(***************************************************************************)
(* ByteCoin and Clima: what waits in the main queue are the last answers,   *)
(* in their order, and the one before them is on the screen.  No request is *)
(* answered twice, so that the place of an answer is unique.                *)
(***************************************************************************)
Screening(made, flying, ans, queue, label) ==
  /\ made \in Nat /\ flying \subseteq 1 .. made
  /\ ans \in Seq(1 .. made) /\ queue \in Seq(1 .. made)
  /\ \A i \in 1 .. Len(ans) : ans[i] \notin flying
  /\ \A i, j \in 1 .. Len(ans) : ans[i] = ans[j] => i = j
  /\ Len(queue) =< Len(ans)
  /\ \A i \in 1 .. Len(queue) : queue[i] = ans[Len(ans) - Len(queue) + i]
  /\ label = IF Len(queue) = Len(ans) THEN 0 ELSE ans[Len(ans) - Len(queue)]

LEMMA ScreeningStarts == Screening(0, {}, << >>, << >>, 0)
<1>1. << >> \in Seq(1 .. 0) /\ Len(<< >>) = 0
  BY EmptySeq
<1> QED
  BY <1>1 DEF Screening

(* The answer on the screen is found at one place only.                     *)
LEMMA ShownAt ==
  ASSUME NEW made, NEW flying, NEW ans, NEW queue, NEW label,
         Screening(made, flying, ans, queue, label)
  PROVE  /\ Len(ans) - Len(queue) \in 0 .. Len(ans)
         /\ label = 0 <=> Len(ans) - Len(queue) = 0
         /\ label # 0 => \A n \in DOMAIN ans : ans[n] = label <=> n = Len(ans) - Len(queue)
         /\ label # 0 => Len(ans) - Len(queue) \in DOMAIN ans
<1>1. /\ Len(ans) \in Nat /\ Len(queue) \in Nat /\ DOMAIN ans = 1 .. Len(ans)
      /\ \A i \in 1 .. Len(ans) : ans[i] \in 1 .. made
  BY LenProperties, ElementOfSeq DEF Screening
<1>2. Len(ans) - Len(queue) \in 0 .. Len(ans)
  BY <1>1 DEF Screening
<1>3. CASE Len(queue) = Len(ans)
  BY <1>1, <1>3 DEF Screening
<1>4. CASE Len(queue) # Len(ans)
  <2> DEFINE p == Len(ans) - Len(queue)
  <2>1. p \in 1 .. Len(ans)
    BY <1>1, <1>2, <1>4
  <2>2. label = ans[p] /\ label # 0
    BY <1>1, <1>4, <2>1 DEF Screening
  <2>3. \A n \in DOMAIN ans : ans[n] = label <=> n = p
    BY <1>1, <2>1, <2>2 DEF Screening
  <2> QED
    BY <1>1, <1>2, <2>1, <2>2, <2>3
<1> QED
  BY <1>2, <1>3, <1>4

(* Requests are made.                                                       *)
LEMMA ScreeningAsks ==
  ASSUME NEW made, NEW flying, NEW ans, NEW queue, NEW label, NEW more \in Nat,
         Screening(made, flying, ans, queue, label), made =< more
  PROVE  Screening(more, flying \cup (1 .. more \ 1 .. made), ans, queue, label)
<1>1. made \in Nat /\ 1 .. made \subseteq 1 .. more
  BY DEF Screening
<1>2. ans \in Seq(1 .. more) /\ queue \in Seq(1 .. more)
  BY <1>1, SeqMonotonic DEF Screening
<1>3. \A i \in 1 .. Len(ans) : ans[i] \in 1 .. made
  BY ElementOfSeq DEF Screening
<1>4. flying \cup (1 .. more \ 1 .. made) \subseteq 1 .. more
  BY <1>1 DEF Screening
<1>5. \A i \in 1 .. Len(ans) : ans[i] \notin flying \cup (1 .. more \ 1 .. made)
  BY <1>3 DEF Screening
<1> QED
  BY <1>2, <1>4, <1>5 DEF Screening

(* A request fails.                                                         *)
LEMMA ScreeningFails ==
  ASSUME NEW made, NEW flying, NEW ans, NEW queue, NEW label, NEW i,
         Screening(made, flying, ans, queue, label)
  PROVE  Screening(made, flying \ {i}, ans, queue, label)
BY DEF Screening

(* A request is answered, and its closure put at the end of the queue.      *)
LEMMA ScreeningAnswers ==
  ASSUME NEW made, NEW flying, NEW ans, NEW queue, NEW label, NEW i \in flying,
         Screening(made, flying, ans, queue, label)
  PROVE  Screening(made, flying \ {i}, Append(ans, i), Append(queue, i), label)
<1> DEFINE a == Append(ans, i)
           q == Append(queue, i)
<1>1. /\ Len(ans) \in Nat /\ Len(queue) \in Nat /\ i \in 1 .. made
      /\ ans \in Seq(1 .. made) /\ queue \in Seq(1 .. made)
      /\ Len(queue) =< Len(ans) /\ made \in Nat
  BY LenProperties DEF Screening
<1>2. /\ a \in Seq(1 .. made) /\ Len(a) = Len(ans) + 1
      /\ \A k \in 1 .. Len(ans) : a[k] = ans[k]
      /\ a[Len(ans) + 1] = i
  BY <1>1
<1>3. /\ q \in Seq(1 .. made) /\ Len(q) = Len(queue) + 1
      /\ \A k \in 1 .. Len(queue) : q[k] = queue[k]
      /\ q[Len(queue) + 1] = i
  BY <1>1
<1> HIDE DEF a, q
<1>4. \A k \in 1 .. Len(ans) : ans[k] \notin flying
  BY DEF Screening
<1>5. ASSUME NEW k \in 1 .. Len(a)
      PROVE  a[k] \notin flying \ {i}
  <2>1. k \in 1 .. Len(ans) \/ k = Len(ans) + 1
    BY <1>1, <1>2
  <2> QED
    BY <1>2, <1>4, <2>1
<1>6. ASSUME NEW j \in 1 .. Len(a), NEW k \in 1 .. Len(a), a[j] = a[k]
      PROVE  j = k
  <2>1. j \in 1 .. Len(ans) \/ j = Len(ans) + 1
    BY <1>1, <1>2
  <2>2. k \in 1 .. Len(ans) \/ k = Len(ans) + 1
    BY <1>1, <1>2
  <2>3. \A m, n \in 1 .. Len(ans) : ans[m] = ans[n] => m = n
    BY DEF Screening
  <2> QED
    BY <1>2, <1>4, <1>6, <2>1, <2>2, <2>3
<1>7. ASSUME NEW k \in 1 .. Len(q)
      PROVE  q[k] = a[Len(a) - Len(q) + k]
  <2>1. CASE k \in 1 .. Len(queue)
    <3>1. Len(a) - Len(q) + k = Len(ans) - Len(queue) + k /\ Len(ans) - Len(queue) + k \in 1 .. Len(ans)
      BY <1>1, <1>2, <1>3, <2>1
    <3>2. queue[k] = ans[Len(ans) - Len(queue) + k]
      BY <2>1 DEF Screening
    <3> QED
      BY <1>2, <1>3, <2>1, <3>1, <3>2
  <2>2. CASE k = Len(queue) + 1
    <3>1. Len(a) - Len(q) + k = Len(ans) + 1
      BY <1>1, <1>2, <1>3, <2>2
    <3> QED
      BY <1>2, <1>3, <2>2, <3>1
  <2> QED
    BY <1>1, <1>3, <2>1, <2>2
<1>8. label = IF Len(q) = Len(a) THEN 0 ELSE a[Len(a) - Len(q)]
  <2>1. label = IF Len(queue) = Len(ans) THEN 0 ELSE ans[Len(ans) - Len(queue)]
    BY DEF Screening
  <2>2. Len(a) - Len(q) = Len(ans) - Len(queue) /\ (Len(q) = Len(a) <=> Len(queue) = Len(ans))
    BY <1>1, <1>2, <1>3
  <2>3. Len(queue) # Len(ans) => Len(ans) - Len(queue) \in 1 .. Len(ans)
    BY <1>1
  <2> QED
    BY <1>2, <2>1, <2>2, <2>3
<1>9. flying \ {i} \subseteq 1 .. made /\ Len(q) =< Len(a)
  BY <1>1, <1>2, <1>3 DEF Screening
<1>10. Screening(made, flying \ {i}, a, q, label)
  BY <1>1, <1>2, <1>3, <1>5, <1>6, <1>7, <1>8, <1>9 DEF Screening
<1> QED
  BY <1>10 DEF a, q

(* The closure at the head of the queue shows its answer.                   *)
LEMMA ScreeningShows ==
  ASSUME NEW made, NEW flying, NEW ans, NEW queue, NEW label,
         Screening(made, flying, ans, queue, label), queue # << >>
  PROVE  /\ Screening(made, flying, ans, Tail(queue), Head(queue))
         /\ Len(Tail(queue)) = Len(queue) - 1 /\ Head(queue) # 0
<1>1. /\ Len(ans) \in Nat /\ Len(queue) \in Nat \ {0} /\ made \in Nat
      /\ ans \in Seq(1 .. made) /\ queue \in Seq(1 .. made)
      /\ Len(queue) =< Len(ans)
  BY LenProperties, EmptySeq DEF Screening
<1>2. /\ Head(queue) \in 1 .. made /\ Tail(queue) \in Seq(1 .. made)
      /\ Len(Tail(queue)) = Len(queue) - 1
      /\ \A i \in 1 .. Len(Tail(queue)) : Tail(queue)[i] = queue[i + 1]
  BY <1>1, HeadTailProperties
<1>3. \A i \in 1 .. Len(queue) : queue[i] = ans[Len(ans) - Len(queue) + i]
  BY DEF Screening
<1>4. Head(queue) = queue[1]
  BY <1>1
<1> DEFINE t == Tail(queue)
           h == Head(queue)
<1> HIDE DEF t, h
<1>5. ASSUME NEW i \in 1 .. Len(t)
      PROVE  t[i] = ans[Len(ans) - Len(t) + i]
  <2>1. i + 1 \in 1 .. Len(queue) /\ Len(ans) - Len(queue) + (i + 1) = Len(ans) - Len(t) + i
    BY <1>1, <1>2 DEF t
  <2>2. t[i] = queue[i + 1]
    BY <1>2 DEF t
  <2> QED
    BY <1>3, <2>1, <2>2
<1>6. h = IF Len(t) = Len(ans) THEN 0 ELSE ans[Len(ans) - Len(t)]
  <2>1. \A a \in Nat, q \in Nat \ {0} : q =< a => q - 1 # a /\ 1 \in 1 .. q /\ a - q + 1 = a - (q - 1)
    OBVIOUS
  <2>2. Len(t) = Len(queue) - 1
    BY <1>2 DEF t
  <2>3. Len(t) # Len(ans) /\ 1 \in 1 .. Len(queue) /\ Len(ans) - Len(queue) + 1 = Len(ans) - Len(t)
    BY <1>1, <2>1, <2>2
  <2> QED
    BY <1>3, <1>4, <2>3 DEF h
<1>7. t \in Seq(1 .. made) /\ Len(t) =< Len(ans) /\ h # 0
  BY <1>1, <1>2 DEF t, h
<1>8. Screening(made, flying, ans, t, h)
  BY <1>5, <1>6, <1>7 DEF Screening
<1> QED
  BY <1>2, <1>7, <1>8 DEF t, h

(* ByteCoin's state.                                                        *)
CoinInv == /\ selected \in Seq(Currencies) /\ Len(selected) =< MaxRates
           /\ Screening(Len(selected), rates, rateAnswers, rateClosures, bitcoinLabel)
           /\ currencyLabel = bitcoinLabel

LEMMA CoinShown ==
  ASSUME CoinInv
  PROVE  /\ Coin!answerShown = Len(rateAnswers) - Len(rateClosures)
         /\ Coin!answerShown \in 0 .. Len(rateAnswers)
<1> DEFINE p == Len(rateAnswers) - Len(rateClosures)
<1>1. /\ p \in 0 .. Len(rateAnswers) /\ currencyLabel = bitcoinLabel
      /\ bitcoinLabel = 0 <=> p = 0
      /\ bitcoinLabel # 0 => \A n \in DOMAIN rateAnswers : rateAnswers[n] = bitcoinLabel <=> n = p
      /\ bitcoinLabel # 0 => p \in DOMAIN rateAnswers
  BY ShownAt DEF CoinInv
<1> HIDE DEF p
<1>2. Coin!answerShown = p
  BY <1>1 DEF Coin!answerShown
<1> QED
  BY <1>1, <1>2 DEF p

(* The same of the next state.                                              *)
LEMMA CoinShownNext == CoinInv' =>
  (/\ Coin!answerShown = Len(rateAnswers) - Len(rateClosures)
   /\ Coin!answerShown \in 0 .. Len(rateAnswers))'
<1>1. CoinInv => /\ Coin!answerShown = Len(rateAnswers) - Len(rateClosures)
                 /\ Coin!answerShown \in 0 .. Len(rateAnswers)
  BY CoinShown
<1> QED
  BY <1>1, PTL

(* Every step keeps the invariant, and is a step of LatestAnswer.           *)
LEMMA CoinStep ==
  ASSUME CoinInv, [Coin!Next]_(Coin!vars)
  PROVE  CoinInv' /\ [CoinScreen!Next]_(CoinScreen!vars)
<1> DEFINE n == Len(selected)
<1>1. n \in Nat /\ DOMAIN selected = 1 .. n /\ n =< MaxRates /\ MaxRates \in Nat
  BY AppsAssumption, LenProperties DEF CoinInv, Coin!ByteCoinAssumption
<1>2. Screening(n, rates, rateAnswers, rateClosures, bitcoinLabel) /\ currencyLabel = bitcoinLabel
  BY DEF CoinInv
<1>3. CASE UNCHANGED Coin!vars
  <2>1. UNCHANGED <<selected, rates, rateAnswers, rateClosures, bitcoinLabel, currencyLabel>>
    BY <1>3 DEF Coin!vars
  <2>2. CoinInv'
    BY <2>1 DEF CoinInv
  <2>3. Coin!answerShown' = Coin!answerShown
    BY <2>1 DEF Coin!answerShown
  <2> QED
    BY <2>1, <2>2, <2>3 DEF CoinScreen!vars
<1>4. ASSUME NEW currency \in Currencies, Coin!fetchRate(currency)
      PROVE  CoinInv' /\ CoinScreen!Ask
  <2>1. /\ n < MaxRates /\ selected' = Append(selected, currency)
        /\ rates' = rates \cup {Len(selected')}
        /\ UNCHANGED <<rateAnswers, rateClosures, bitcoinLabel, currencyLabel>>
    BY <1>4 DEF Coin!fetchRate
  <2>2. selected' \in Seq(Currencies) /\ Len(selected') = n + 1 /\ n + 1 =< MaxRates
    BY <1>1, <2>1 DEF CoinInv
  <2>3. {n + 1} = 1 .. n + 1 \ 1 .. n
    BY <1>1
  <2>4. Screening(n + 1, rates \cup (1 .. n + 1 \ 1 .. n), rateAnswers, rateClosures, bitcoinLabel)
    BY <1>1, <1>2, ScreeningAsks
  <2>5. CoinInv'
    BY <1>2, <2>1, <2>2, <2>3, <2>4 DEF CoinInv
  <2>6. DOMAIN selected' = 1 .. n + 1
    BY <2>2, LenProperties
  <2>7. {n + 1} \in SUBSET (Coin!Requests \ DOMAIN selected) /\ DOMAIN selected' = DOMAIN selected \cup {n + 1}
    BY <1>1, <2>2, <2>3, <2>6 DEF Coin!Requests
  <2>8. Coin!answerShown' = Coin!answerShown
    BY <2>1 DEF Coin!answerShown
  <2>9. \E S \in SUBSET (Coin!Requests \ DOMAIN selected) :
          S # {} /\ DOMAIN selected' = DOMAIN selected \cup S
    BY <2>7
  <2> QED
    BY <2>1, <2>5, <2>8, <2>9 DEF CoinScreen!Ask
<1>5. ASSUME NEW i, Coin!rateReceived(i)
      PROVE  CoinInv' /\ CoinScreen!Answer
  <2>1. /\ i \in rates /\ rates' = rates \ {i}
        /\ rateAnswers' = Append(rateAnswers, i) /\ rateClosures' = Append(rateClosures, i)
        /\ UNCHANGED <<selected, bitcoinLabel, currencyLabel>>
    BY <1>5 DEF Coin!rateReceived, Coin!didUpdateTicker
  <2>2. CoinInv'
    BY <1>2, <2>1, ScreeningAnswers DEF CoinInv
  <2>3. Coin!answerShown' = Coin!answerShown
    <3>1. /\ Coin!answerShown = Len(rateAnswers) - Len(rateClosures)
          /\ Coin!answerShown' = Len(rateAnswers') - Len(rateClosures')
      BY <2>2, CoinShown, CoinShownNext
    <3>2. /\ rateAnswers \in Seq(1 .. n) /\ rateClosures \in Seq(1 .. n) /\ i \in 1 .. n
      BY <1>2, <2>1 DEF Screening
    <3>3. Len(rateAnswers') = Len(rateAnswers) + 1 /\ Len(rateClosures') = Len(rateClosures) + 1
          /\ Len(rateAnswers) \in Nat /\ Len(rateClosures) \in Nat
      BY <2>1, <3>2
    <3> QED
      BY <3>1, <3>3
  <2>4. i \in DOMAIN selected \ CoinScreen!ToSet(rateAnswers)
    <3>1. rates \subseteq 1 .. n /\ DOMAIN rateAnswers = 1 .. Len(rateAnswers)
          /\ \A k \in 1 .. Len(rateAnswers) : rateAnswers[k] \notin rates
      BY <1>2, LenProperties DEF Screening
    <3> QED
      BY <1>1, <2>1, <3>1 DEF CoinScreen!ToSet
  <2> QED
    BY <2>1, <2>2, <2>3, <2>4 DEF CoinScreen!Answer
<1>6. ASSUME NEW i, Coin!requestFailed(i)
      PROVE  CoinInv' /\ UNCHANGED CoinScreen!vars
  <2>1. /\ rates' = rates \ {i}
        /\ UNCHANGED <<selected, rateAnswers, rateClosures, bitcoinLabel, currencyLabel>>
    BY <1>6 DEF Coin!requestFailed
  <2>2. CoinInv'
    BY <1>2, <2>1, ScreeningFails DEF CoinInv
  <2>3. Coin!answerShown' = Coin!answerShown
    BY <2>1 DEF Coin!answerShown
  <2> QED
    BY <2>1, <2>2, <2>3 DEF CoinScreen!vars
<1>7. CASE Coin!setLabels
  <2>1. /\ rateClosures # << >> /\ bitcoinLabel' = Head(rateClosures)
        /\ currencyLabel' = Head(rateClosures) /\ rateClosures' = Tail(rateClosures)
        /\ UNCHANGED <<selected, rates, rateAnswers>>
    BY <1>7 DEF Coin!setLabels
  <2>2. CoinInv' /\ Len(rateClosures') = Len(rateClosures) - 1
    BY <1>2, <2>1, ScreeningShows DEF CoinInv
  <2>3. /\ Coin!answerShown = Len(rateAnswers) - Len(rateClosures)
        /\ Coin!answerShown' = Len(rateAnswers) - Len(rateClosures')
        /\ Coin!answerShown' \in 0 .. Len(rateAnswers)
    BY <2>1, <2>2, CoinShown, CoinShownNext
  <2>4. Len(rateAnswers) \in Nat /\ Len(rateClosures) \in Nat
    BY <1>2, LenProperties DEF Screening
  <2>5. Coin!answerShown' \in Coin!answerShown + 1 .. Len(rateAnswers)
    BY <2>2, <2>3, <2>4
  <2> QED
    BY <2>1, <2>2, <2>5 DEF CoinScreen!Show, CoinScreen!Next
<1>8. CASE Coin!relaunch
  <2>1. /\ selected' = << >> /\ rates' = {} /\ rateAnswers' = << >>
        /\ rateClosures' = << >> /\ bitcoinLabel' = 0 /\ currencyLabel' = 0
    BY <1>8 DEF Coin!relaunch
  <2>2. << >> \in Seq(Currencies) /\ Len(<< >>) = 0
    BY EmptySeq
  <2>3. CoinInv'
    BY <1>1, <2>1, <2>2, ScreeningStarts DEF CoinInv
  <2>4. DOMAIN selected' = {} /\ Coin!answerShown' = 0
    BY <2>1 DEF Coin!answerShown
  <2> QED
    BY <2>1, <2>3, <2>4 DEF CoinScreen!Restart, CoinScreen!Next
<1> QED
  BY <1>3, <1>4, <1>5, <1>6, <1>7, <1>8 DEF Coin!Next, CoinScreen!Next

(* Clima's state.  The texts fetched are those typed, none, or a place's    *)
(* coordinates.                                                             *)
Typed == Cities \cup {""}
Texts == Typed \cup {"coordinates"}

WeatherInv == /\ fetched \in Seq(Texts) /\ Len(fetched) =< MaxFetches
              /\ searchText \in Typed
              /\ Screening(Len(fetched), inFlight, answers, closures, weather)

LEMMA WeatherShown ==
  ASSUME WeatherInv
  PROVE  /\ Weather!answerShown = Len(answers) - Len(closures)
         /\ Weather!answerShown \in 0 .. Len(answers)
<1> DEFINE p == Len(answers) - Len(closures)
<1>1. /\ p \in 0 .. Len(answers)
      /\ weather = 0 <=> p = 0
      /\ weather # 0 => \A n \in DOMAIN answers : answers[n] = weather <=> n = p
      /\ weather # 0 => p \in DOMAIN answers
  BY ShownAt DEF WeatherInv
<1> HIDE DEF p
<1>2. Weather!answerShown = p
  BY <1>1 DEF Weather!answerShown
<1> QED
  BY <1>1, <1>2 DEF p

(* The same of the next state.                                              *)
LEMMA WeatherShownNext == WeatherInv' =>
  (/\ Weather!answerShown = Len(answers) - Len(closures)
   /\ Weather!answerShown \in 0 .. Len(answers))'
<1>1. WeatherInv => /\ Weather!answerShown = Len(answers) - Len(closures)
                    /\ Weather!answerShown \in 0 .. Len(answers)
  BY WeatherShown
<1> QED
  BY <1>1, PTL

(* Fetching any number of texts is to ask as many times.                    *)
LEMMA FetchStep ==
  ASSUME WeatherInv, NEW qs \in Seq(Texts), Len(qs) # 0, Weather!fetchWeather(qs), searchText' \in Typed
  PROVE  WeatherInv' /\ WeatherScreen!Ask
<1> DEFINE n == Len(fetched)
           m == n + Len(qs)
<1>1. /\ n \in Nat /\ DOMAIN fetched = 1 .. n /\ Len(qs) \in Nat \ {0} /\ m \in Nat
      /\ m =< MaxFetches /\ MaxFetches \in Nat
  <2>1. MaxFetches \in Nat
    BY AppsAssumption DEF Weather!ClimaAssumption
  <2>2. n \in Nat /\ DOMAIN fetched = 1 .. n /\ Len(qs) \in Nat
    BY LenProperties DEF WeatherInv
  <2>3. m =< MaxFetches
    BY DEF Weather!fetchWeather
  <2> QED
    BY <2>1, <2>2, <2>3
<1>2. /\ fetched' = fetched \o qs
      /\ inFlight' = inFlight \cup (DOMAIN fetched' \ DOMAIN fetched)
      /\ UNCHANGED <<answers, closures, weather>>
  BY DEF Weather!fetchWeather
<1>3. fetched' \in Seq(Texts) /\ Len(fetched') = m
  BY <1>2, ConcatProperties DEF WeatherInv
<1>4. DOMAIN fetched' = 1 .. m
  BY <1>3, LenProperties
<1>5. Screening(m, inFlight \cup (1 .. m \ 1 .. n), answers, closures, weather)
  BY <1>1, ScreeningAsks DEF WeatherInv
<1>6. WeatherInv'
  BY <1>1, <1>2, <1>3, <1>4, <1>5 DEF WeatherInv
<1>7. /\ 1 .. m \ 1 .. n \in SUBSET (Weather!Requests \ DOMAIN fetched)
      /\ DOMAIN fetched' = DOMAIN fetched \cup (1 .. m \ 1 .. n)
      /\ m \in 1 .. m \ 1 .. n
  BY <1>1, <1>4 DEF Weather!Requests
<1>8. Weather!answerShown' = Weather!answerShown
  BY <1>2 DEF Weather!answerShown
<1>9. \E S \in SUBSET (Weather!Requests \ DOMAIN fetched) :
        S # {} /\ DOMAIN fetched' = DOMAIN fetched \cup S
  BY <1>7
<1> QED
  BY <1>2, <1>6, <1>8, <1>9 DEF WeatherScreen!Ask

(* Every step keeps the invariant, and is a step of LatestAnswer.           *)
LEMMA WeatherStep ==
  ASSUME WeatherInv, [Weather!Next]_(Weather!vars)
  PROVE  WeatherInv' /\ [WeatherScreen!Next]_(WeatherScreen!vars)
<1> DEFINE n == Len(fetched)
<1>1. n \in Nat /\ DOMAIN fetched = 1 .. n /\ n =< MaxFetches /\ MaxFetches \in Nat
  BY AppsAssumption, LenProperties DEF WeatherInv, Weather!ClimaAssumption
<1>2. Screening(n, inFlight, answers, closures, weather) /\ searchText \in Typed
  BY DEF WeatherInv
<1>3. ASSUME searchText' \in Typed, UNCHANGED <<fetched, inFlight, answers, closures, weather>>
      PROVE  WeatherInv' /\ UNCHANGED WeatherScreen!vars
  <2>1. WeatherInv'
    BY <1>3 DEF WeatherInv
  <2>2. Weather!answerShown' = Weather!answerShown
    BY <1>3 DEF Weather!answerShown
  <2> QED
    BY <1>3, <2>1, <2>2 DEF WeatherScreen!vars
<1>4. CASE \/ UNCHANGED Weather!vars \/ Weather!textFieldDidBeginEditing \/ Weather!updateLocation
           \/ Weather!didFailWithError \/ \E text \in Cities \cup {""} : Weather!type(text)
           \/ Weather!textFieldShouldReturn \/ Weather!searchButtonPressed
  <2>1. searchText' \in Typed /\ UNCHANGED <<fetched, inFlight, answers, closures, weather>>
    BY <1>2, <1>4 DEF Weather!vars, Weather!field, Weather!textFieldDidBeginEditing, Weather!updateLocation,
       Weather!didFailWithError, Weather!type, Weather!textFieldShouldReturn,
       Weather!searchButtonPressed, Weather!endEditing, Typed
  <2> QED
    BY <1>3, <2>1
<1>5. CASE Weather!searchTextEntered
  <2>1. Weather!fetchWeather(<<searchText>>) /\ searchText' \in Typed
    BY <1>5 DEF Weather!searchTextEntered, Typed
  <2>2. <<searchText>> \in Seq(Texts) /\ Len(<<searchText>>) # 0
    BY <1>2 DEF Texts
  <2>3. WeatherInv' /\ WeatherScreen!Ask
    BY <2>1, <2>2, FetchStep
  <2> QED
    BY <2>3 DEF WeatherScreen!Next
<1>6. ASSUME NEW k \in 1 .. MaxLocations, Weather!didUpdateLocations(k)
      PROVE  WeatherInv' /\ WeatherScreen!Ask
  <2> DEFINE qs == [i \in 1 .. k |-> "coordinates"]
  <2>1. qs \in Seq(Texts) /\ Len(qs) # 0
    <3>1. k \in Nat \ {0} /\ "coordinates" \in Texts
      <4>1. MaxLocations \in Nat
        BY AppsAssumption DEF Weather!ClimaAssumption
      <4>2. k \in Nat \ {0}
        BY <4>1
      <4> QED
        BY <4>2 DEF Texts
    <3>2. qs \in [1 .. k -> Texts]
      BY <3>1
    <3> QED
      BY <3>1, <3>2
  <2>2. Weather!fetchWeather(qs) /\ searchText' \in Typed
    BY <1>2, <1>6 DEF Weather!didUpdateLocations, Weather!field
  <2> HIDE DEF qs
  <2> QED
    BY <2>1, <2>2, FetchStep
<1>7. ASSUME NEW i, Weather!weatherReceived(i)
      PROVE  WeatherInv' /\ WeatherScreen!Answer
  <2>1. /\ i \in inFlight /\ inFlight' = inFlight \ {i}
        /\ answers' = Append(answers, i) /\ closures' = Append(closures, i)
        /\ UNCHANGED <<searchText, fetched, weather>>
    BY <1>7 DEF Weather!weatherReceived, Weather!didUpdateWeather, Weather!field
  <2>2. WeatherInv'
    BY <1>2, <2>1, ScreeningAnswers DEF WeatherInv
  <2>3. Weather!answerShown' = Weather!answerShown
    <3>1. /\ Weather!answerShown = Len(answers) - Len(closures)
          /\ Weather!answerShown' = Len(answers') - Len(closures')
      BY <2>2, WeatherShown, WeatherShownNext
    <3>2. answers \in Seq(1 .. n) /\ closures \in Seq(1 .. n) /\ i \in 1 .. n
      BY <1>2, <2>1 DEF Screening
    <3>3. Len(answers') = Len(answers) + 1 /\ Len(closures') = Len(closures) + 1
          /\ Len(answers) \in Nat /\ Len(closures) \in Nat
      BY <2>1, <3>2
    <3> QED
      BY <3>1, <3>3
  <2>4. i \in DOMAIN fetched \ WeatherScreen!ToSet(answers)
    <3>1. inFlight \subseteq 1 .. n /\ DOMAIN answers = 1 .. Len(answers)
          /\ \A k \in 1 .. Len(answers) : answers[k] \notin inFlight
      BY <1>2, LenProperties DEF Screening
    <3> QED
      BY <1>1, <2>1, <3>1 DEF WeatherScreen!ToSet
  <2> QED
    BY <2>1, <2>2, <2>3, <2>4 DEF WeatherScreen!Answer
<1>8. ASSUME NEW i, Weather!weatherFailed(i)
      PROVE  WeatherInv' /\ UNCHANGED WeatherScreen!vars
  <2>1. /\ inFlight' = inFlight \ {i}
        /\ UNCHANGED <<searchText, fetched, answers, closures, weather>>
    BY <1>8 DEF Weather!weatherFailed, Weather!field
  <2>2. WeatherInv'
    BY <1>2, <2>1, ScreeningFails DEF WeatherInv
  <2>3. Weather!answerShown' = Weather!answerShown
    BY <2>1 DEF Weather!answerShown
  <2> QED
    BY <2>1, <2>2, <2>3 DEF WeatherScreen!vars
<1>9. CASE Weather!setLabels
  <2>1. /\ closures # << >> /\ weather' = Head(closures) /\ closures' = Tail(closures)
        /\ UNCHANGED <<searchText, fetched, inFlight, answers>>
    BY <1>9 DEF Weather!setLabels, Weather!field
  <2>2. WeatherInv' /\ Len(closures') = Len(closures) - 1
    BY <1>2, <2>1, ScreeningShows DEF WeatherInv
  <2>3. /\ Weather!answerShown = Len(answers) - Len(closures)
        /\ Weather!answerShown' = Len(answers) - Len(closures')
        /\ Weather!answerShown' \in 0 .. Len(answers)
    BY <2>1, <2>2, WeatherShown, WeatherShownNext
  <2>4. Len(answers) \in Nat /\ Len(closures) \in Nat
    BY <1>2, LenProperties DEF Screening
  <2>5. Weather!answerShown' \in Weather!answerShown + 1 .. Len(answers)
    BY <2>2, <2>3, <2>4
  <2> QED
    BY <2>1, <2>2, <2>5 DEF WeatherScreen!Show, WeatherScreen!Next
<1>10. CASE Weather!relaunch
  <2>1. /\ fetched' = << >> /\ inFlight' = {} /\ answers' = << >>
        /\ closures' = << >> /\ weather' = 0
    BY <1>10 DEF Weather!relaunch
  <2>2. << >> \in Seq(Texts) /\ Len(<< >>) = 0 /\ searchText' \in Typed
    BY <1>10, EmptySeq DEF Weather!relaunch, Typed
  <2>3. WeatherInv'
    BY <1>1, <2>1, <2>2, ScreeningStarts DEF WeatherInv
  <2>4. DOMAIN fetched' = {} /\ Weather!answerShown' = 0
    BY <2>1 DEF Weather!answerShown
  <2> QED
    BY <2>1, <2>3, <2>4 DEF WeatherScreen!Restart, WeatherScreen!Next
<1> QED
  BY <1>4, <1>5, <1>6, <1>7, <1>8, <1>9, <1>10 DEF Weather!Next, WeatherScreen!Next

(* The two start with nothing asked and nothing shown.                      *)
LEMMA CoinStarts == Coin!Init => CoinInv /\ CoinScreen!Init
<1> SUFFICES ASSUME Coin!Init PROVE CoinInv /\ CoinScreen!Init
  OBVIOUS
<1>1. /\ selected = << >> /\ rates = {} /\ rateAnswers = << >>
      /\ rateClosures = << >> /\ bitcoinLabel = 0 /\ currencyLabel = 0
  BY DEF Coin!Init
<1>2. << >> \in Seq(Currencies) /\ Len(<< >>) = 0 /\ MaxRates \in Nat
  BY EmptySeq, AppsAssumption DEF Coin!ByteCoinAssumption
<1>3. CoinInv
  BY <1>1, <1>2, ScreeningStarts DEF CoinInv
<1>4. DOMAIN selected = {} /\ Coin!answerShown = 0
  BY <1>1 DEF Coin!answerShown
<1> QED
  BY <1>1, <1>3, <1>4 DEF CoinScreen!Init

LEMMA WeatherStarts == Weather!Init => WeatherInv /\ WeatherScreen!Init
<1> SUFFICES ASSUME Weather!Init PROVE WeatherInv /\ WeatherScreen!Init
  OBVIOUS
<1>1. /\ fetched = << >> /\ inFlight = {} /\ answers = << >>
      /\ closures = << >> /\ weather = 0
  BY DEF Weather!Init
<1>2. << >> \in Seq(Texts) /\ Len(<< >>) = 0 /\ MaxFetches \in Nat /\ searchText \in Typed
  BY EmptySeq, AppsAssumption DEF Weather!ClimaAssumption, Weather!Init, Typed
<1>3. WeatherInv
  BY <1>1, <1>2, ScreeningStarts DEF WeatherInv
<1>4. DOMAIN fetched = {} /\ Weather!answerShown = 0
  BY <1>1 DEF Weather!answerShown
<1> QED
  BY <1>1, <1>3, <1>4 DEF WeatherScreen!Init

(* The screens of ByteCoin and Clima show each answer whole and never go    *)
(* back to an earlier one, in whatever order the requests are answered:     *)
(* ImplementsLatestAnswer, for any number of requests.                      *)
THEOREM ScreensRefineLatestAnswer == AppsSpec => ImplementsLatestAnswer
<1>1. CoinInv /\ [Coin!Next]_(Coin!vars) => CoinInv' /\ [CoinScreen!Next]_(CoinScreen!vars)
  BY CoinStep
<1>2. Coin!Spec => CoinScreen!Spec
  BY <1>1, CoinStarts, PTL DEF Coin!Spec, CoinScreen!Spec
<1>3. WeatherInv /\ [Weather!Next]_(Weather!vars) => WeatherInv' /\ [WeatherScreen!Next]_(WeatherScreen!vars)
  BY WeatherStep
<1>4. Weather!Spec => WeatherScreen!Spec
  BY <1>3, WeatherStarts, PTL DEF Weather!Spec, WeatherScreen!Spec
<1> QED
  BY <1>2, <1>4, CoinRunsAsSpecified, WeatherRunsAsSpecified DEF ImplementsLatestAnswer

(* The requests by name.                                                    *)
ByName == {i \in DOMAIN fetched : fetched[i] # "coordinates"}
SearchedFor == {<<i, fetched[i]>> : i \in ByName}

(* A search adds itself to them, locations add nothing.                     *)
LEMMA SearchAdds ==
  ASSUME WeatherInv, fetched' = Append(fetched, searchText)
  PROVE  SearchedFor' = SearchedFor \cup {<<Len(fetched) + 1, searchText>>}
<1> DEFINE n == Len(fetched)
<1>1. n \in Nat /\ DOMAIN fetched = 1 .. n /\ searchText # "coordinates"
  BY AppsAssumption, LenProperties DEF WeatherInv, Weather!ClimaAssumption, Typed
<1>2. /\ DOMAIN fetched' = 1 .. n + 1 /\ fetched'[n + 1] = searchText
      /\ \A i \in 1 .. n : fetched'[i] = fetched[i]
  <2>1. fetched \in Seq(Texts) /\ searchText \in Texts
    BY DEF WeatherInv, Texts
  <2> QED
    BY <2>1, AppendProperties
<1> HIDE DEF n
<1>3. 1 .. n + 1 = 1 .. n \cup {n + 1} /\ n + 1 \notin 1 .. n
  BY <1>1
<1>4. ByName' = ByName \cup {n + 1}
  BY <1>1, <1>2, <1>3, Zenon DEF ByName
<1>5. \A i \in ByName : fetched'[i] = fetched[i]
  BY <1>1, <1>2 DEF ByName
<1> QED
  BY <1>2, <1>4, <1>5 DEF SearchedFor, n

LEMMA LocationsAddNothing ==
  ASSUME WeatherInv, NEW k \in Nat, fetched' = fetched \o [i \in 1 .. k |-> "coordinates"]
  PROVE  SearchedFor' = SearchedFor
<1> DEFINE n == Len(fetched)
           qs == [i \in 1 .. k |-> "coordinates"]
<1>1. n \in Nat /\ DOMAIN fetched = 1 .. n
  BY LenProperties DEF WeatherInv
<1>2. qs \in Seq({"coordinates"}) /\ Len(qs) = k /\ \A i \in 1 .. k : qs[i] = "coordinates"
  <2>1. qs \in [1 .. k -> {"coordinates"}]
    OBVIOUS
  <2> QED
    BY <2>1
<1>3. qs \in Seq(Texts) /\ fetched \in Seq(Texts)
  <2>1. qs \in [1 .. k -> Texts]
    BY DEF Texts
  <2> QED
    BY <2>1 DEF WeatherInv
<1> HIDE DEF qs
<1>4. /\ Len(fetched \o qs) = n + k
      /\ \A i \in 1 .. n + k : (fetched \o qs)[i] = IF i <= n THEN fetched[i] ELSE qs[i - n]
  BY <1>2, <1>3, ConcatProperties
<1>5. fetched \o qs \in Seq(Texts)
  BY <1>3, ConcatProperties
<1>6. /\ DOMAIN fetched' = 1 .. n + k
      /\ \A i \in 1 .. n : fetched'[i] = fetched[i]
      /\ \A i \in 1 .. n + k : i \notin 1 .. n => fetched'[i] = "coordinates"
  <2>1. fetched' = fetched \o qs
    BY DEF qs
  <2>2. DOMAIN fetched' = 1 .. n + k
    BY <1>4, <1>5, <2>1, LenProperties
  <2>3. ASSUME NEW i \in 1 .. n PROVE i \in 1 .. n + k /\ i <= n
    BY <1>1
  <2>4. ASSUME NEW i \in 1 .. n + k, i \notin 1 .. n PROVE ~(i <= n) /\ i - n \in 1 .. k
    BY <1>1, <2>4
  <2> HIDE DEF n
  <2> QED
    BY <1>2, <1>4, <2>1, <2>2, <2>3, <2>4
<1> HIDE DEF n
<1>7. \A i \in 1 .. n : i \in 1 .. n + k
  BY <1>1
<1>8. ByName' = ByName
  BY <1>1, <1>6, <1>7, Zenon DEF ByName
<1>9. \A i \in ByName : fetched'[i] = fetched[i]
  BY <1>1, <1>6 DEF ByName
<1> QED
  BY <1>8, <1>9 DEF SearchedFor

(* EndsWithOneSearch is inductive: what ends an edit leaves one search due, *)
(* which is made before the field is touched or anything else requested.    *)
EditsInv == /\ WeatherInv /\ due \in {0, 1}
            /\ edits = SearchedFor \cup (IF due = 1 THEN {<<Len(fetched) + 1, searchText>>} ELSE {})

LEMMA EditsStep ==
  ASSUME EditsInv, [Weather!Next]_(Weather!vars)
  PROVE  EditsInv'
<1>1. WeatherInv /\ WeatherInv'
  BY WeatherStep DEF EditsInv
<1>2. ASSUME fetched' = fetched PROVE SearchedFor' = SearchedFor
  BY <1>2 DEF SearchedFor, ByName
<1>3. CASE \/ UNCHANGED Weather!vars \/ Weather!setLabels
           \/ \E i \in Weather!Requests : Weather!weatherReceived(i) \/ Weather!weatherFailed(i)
  <2>1. UNCHANGED <<fetched, searchText, due, edits>>
    BY <1>3 DEF Weather!vars, Weather!field, Weather!setLabels, Weather!weatherReceived,
                Weather!weatherFailed
  <2> QED
    BY <1>1, <1>2, <2>1 DEF EditsInv
<1>4. CASE \/ Weather!textFieldDidBeginEditing \/ Weather!updateLocation \/ Weather!didFailWithError
           \/ \E text \in Cities \cup {""} : Weather!type(text)
  <2>1. due = 0 /\ UNCHANGED <<fetched, due, edits>>
    BY <1>4 DEF Weather!textFieldDidBeginEditing, Weather!updateLocation, Weather!didFailWithError,
                Weather!type, Weather!field
  <2> QED
    BY <1>1, <1>2, <2>1 DEF EditsInv
<1>5. CASE Weather!textFieldShouldReturn \/ Weather!searchButtonPressed
  <2>1. /\ due = 0 /\ due' = Weather!editingDidEnd /\ UNCHANGED <<fetched, searchText>>
        /\ edits' = IF editing THEN edits \cup {<<Len(fetched) + 1, searchText>>} ELSE edits
    BY <1>5 DEF Weather!textFieldShouldReturn, Weather!searchButtonPressed, Weather!endEditing
  <2>2. due' = IF editing THEN 1 ELSE 0
    BY <2>1 DEF Weather!editingDidEnd
  <2>3. edits = SearchedFor
    BY <2>1 DEF EditsInv
  <2> QED
    BY <1>1, <1>2, <2>1, <2>2, <2>3 DEF EditsInv
<1>6. CASE Weather!searchTextEntered
  <2>0. due > 0 /\ due' = due - 1 /\ edits' = edits /\ fetched' = fetched \o <<searchText>>
    BY <1>6, Zenon DEF Weather!searchTextEntered, Weather!fetchWeather
  <2>1. due = 1 /\ due' = 0
    <3>1. due \in {0, 1}
      BY DEF EditsInv
    <3> QED
      BY <2>0, <3>1
  <2>2. fetched' = Append(fetched, searchText)
    BY <1>1, <2>0 DEF WeatherInv
  <2>3. SearchedFor' = SearchedFor \cup {<<Len(fetched) + 1, searchText>>}
    BY <1>1, <2>2, SearchAdds
  <2> QED
    BY <1>1, <2>0, <2>1, <2>3 DEF EditsInv
<1>7. ASSUME NEW k \in 1 .. MaxLocations, Weather!didUpdateLocations(k) PROVE EditsInv'
  <2>0. MaxLocations \in Nat
    BY AppsAssumption DEF Weather!ClimaAssumption
  <2>1. k \in Nat
    BY <2>0
  <2>2. /\ due = 0 /\ UNCHANGED <<due, edits>>
        /\ fetched' = fetched \o [i \in 1 .. k |-> "coordinates"]
    BY <1>7 DEF Weather!didUpdateLocations, Weather!fetchWeather, Weather!field
  <2>3. SearchedFor' = SearchedFor
    BY <1>1, <2>1, <2>2, LocationsAddNothing
  <2> QED
    BY <1>1, <2>2, <2>3 DEF EditsInv
<1>8. CASE Weather!relaunch
  <2>1. fetched' = << >> /\ due' = 0 /\ edits' = {}
    BY <1>8 DEF Weather!relaunch
  <2>2. SearchedFor' = {}
    BY <2>1 DEF SearchedFor, ByName
  <2> QED
    BY <1>1, <2>1, <2>2 DEF EditsInv
<1> QED
  BY <1>3, <1>4, <1>5, <1>6, <1>7, <1>8 DEF Weather!Next

(* Each edit that ended was searched for once, with the text the field then *)
(* held, however editing ended and whatever was typed, located and answered *)
(* in between: EndsWithOneSearch.                                           *)
THEOREM EditsSearchOnce == AppsSpec => []EndsWithOneSearch
<1>1. Weather!Init => EditsInv
  <2> SUFFICES ASSUME Weather!Init PROVE EditsInv
    OBVIOUS
  <2>1. fetched = << >> /\ due = 0 /\ edits = {}
    BY DEF Weather!Init
  <2>2. SearchedFor = {}
    BY <2>1 DEF SearchedFor, ByName
  <2> QED
    BY <2>1, <2>2, WeatherStarts DEF EditsInv
<1>2. EditsInv /\ [Weather!Next]_(Weather!vars) => EditsInv'
  BY EditsStep
<1>3. EditsInv => EndsWithOneSearch
  BY DEF EditsInv, SearchedFor, ByName, EndsWithOneSearch, Weather!EndsWithOneSearch
<1> QED
  BY <1>1, <1>2, <1>3, WeatherRunsAsSpecified, PTL DEF Weather!Spec

------------------------------------------------------------------------------
(***************************************************************************)
(* The egg timer, for every set of eggs and times.  The invariant names the *)
(* five situations the view controller can be in: idle, or one closure away *)
(* from each step of its one countdown.                                     *)
(***************************************************************************)
EggIdle == /\ ~busyCooking /\ mainQueue = << >>
           /\ titleLabel = Text("default", 0) /\ progress = Hidden

AboutToBegin(n) == /\ n > 0 /\ mainQueue = <<Closure("begin", n)>>
                   /\ titleLabel = Text("starting", n)
                   /\ progress = [num |-> 0, den |-> 1]

(* The closure will show n seconds, so the label shows n + 1.               *)
Counting(n) == /\ mainQueue = <<Closure("show", n)>>
               /\ titleLabel = Text("remaining", n + 1)
               /\ n + 1 \in 1 .. currentCookingTime
               /\ progress = [num |-> currentCookingTime - (n + 1), den |-> currentCookingTime]

Finishing == /\ mainQueue = <<Closure("reset", 0)>>
             /\ titleLabel = Text("done", 0)
             /\ progress = [num |-> 1, den |-> 1]

EggInv == /\ currentCookingTime \in Nat /\ busyCooking \in BOOLEAN
          /\ \/ EggIdle
             \/ busyCooking /\ \E n \in Nat : AboutToBegin(n) \/ Counting(n)
             \/ busyCooking /\ Finishing

(* A queue of one closure: its head, and what is left after it ran.         *)
LEMMA OneClosure == ASSUME NEW c PROVE Head(<<c>>) = c /\ Tail(<<c>>) = << >> /\ <<c>> # << >>
  OBVIOUS

LEMMA AppendToEmpty == ASSUME NEW c PROVE Append(<< >>, c) = <<c>>
  OBVIOUS

(* The five situations have the properties the runs check.                  *)
LEMMA EggInvImplies == EggInv => TypeOK /\ OneCountdown /\ BarAgreesWithLabel
<1> SUFFICES ASSUME EggInv PROVE TypeOK /\ OneCountdown /\ BarAgreesWithLabel
  OBVIOUS
<1> USE DEF Text, Closure, Hidden
<1>1. CASE EggIdle
  BY <1>1 DEF EggInv, EggIdle, TypeOK, OneCountdown, BarAgreesWithLabel
<1>2. ASSUME NEW n \in Nat, busyCooking, AboutToBegin(n)
      PROVE  TypeOK /\ OneCountdown /\ BarAgreesWithLabel
  BY <1>2 DEF EggInv, AboutToBegin, TypeOK, OneCountdown, BarAgreesWithLabel
<1>3. ASSUME NEW n \in Nat, busyCooking, Counting(n)
      PROVE  TypeOK /\ OneCountdown /\ BarAgreesWithLabel
  <2>1. progress \in [num : Nat, den : Nat] /\ progress # Hidden
    BY <1>3 DEF EggInv, Counting
  <2>2. TypeOK
    BY <1>3, <2>1 DEF EggInv, Counting, TypeOK
  <2> QED
    BY <1>3, <2>1, <2>2 DEF EggInv, Counting, OneCountdown, BarAgreesWithLabel
<1>4. CASE busyCooking /\ Finishing
  BY <1>4 DEF EggInv, Finishing, TypeOK, OneCountdown, BarAgreesWithLabel
<1> QED
  BY <1>1, <1>2, <1>3, <1>4 DEF EggInv

(* showRemainingTime leaves the next second, or the end, in the queue.      *)
LEMMA ShowStep ==
  ASSUME NEW c, mainQueue = <<c>>, NEW n \in Nat, showRemainingTime(n),
         currentCookingTime' \in Nat, n =< currentCookingTime'
  PROVE  \/ n > 0 /\ Counting(n - 1)'
         \/ n = 0 /\ Finishing'
<1>1. Tail(mainQueue) = << >>
  BY OneClosure
<1>2. CASE n > 0
  <2>1. mainQueue' = <<Closure("show", n - 1)>>
    BY <1>1, <1>2, AppendToEmpty DEF showRemainingTime
  <2>2. n - 1 + 1 = n /\ n \in 1 .. currentCookingTime'
    BY <1>2
  <2> QED
    BY <1>2, <2>1, <2>2 DEF showRemainingTime, Counting
<1>3. CASE n = 0
  <2>1. mainQueue' = <<Closure("reset", 0)>>
    BY <1>1, <1>3, AppendToEmpty DEF showRemainingTime
  <2> QED
    BY <1>3, <2>1 DEF showRemainingTime, Finishing
<1> QED
  BY <1>2, <1>3

(* One step leads from a situation to the next, and the label counts down.  *)
LEMMA EggSteps == EggInv /\ [Next]_vars => EggInv' /\ [
       /\ titleLabel.text = "starting" => titleLabel' = Text("remaining", titleLabel.secs)
       /\ titleLabel.text = "remaining" =>
            titleLabel' = IF titleLabel.secs = 1 THEN Text("done", 0)
                                                 ELSE Text("remaining", titleLabel.secs - 1)
      ]_titleLabel
<1> DEFINE Goal == EggInv' /\ [
       /\ titleLabel.text = "starting" => titleLabel' = Text("remaining", titleLabel.secs)
       /\ titleLabel.text = "remaining" =>
            titleLabel' = IF titleLabel.secs = 1 THEN Text("done", 0)
                                                 ELSE Text("remaining", titleLabel.secs - 1)
      ]_titleLabel
<1> SUFFICES ASSUME EggInv, [Next]_vars PROVE Goal
  OBVIOUS
<1>1. ASSUME NEW b \in Titles, hardnessSelected(b) PROVE Goal
  <2>1. EggIdle /\ eggTimes[b] \in Nat /\ eggTimes[b] > 0
    BY <1>1, EggTimesAssumption DEF EggInv, hardnessSelected
  <2>2. mainQueue' = <<Closure("begin", eggTimes[b])>>
    BY <1>1, <2>1, AppendToEmpty DEF hardnessSelected, EggIdle
  <2>3. AboutToBegin(eggTimes[b])' /\ busyCooking' /\ currentCookingTime' \in Nat
    BY <1>1, <2>1, <2>2 DEF hardnessSelected, AboutToBegin, EggInv
  <2> QED
    BY <2>1, <2>3, <1>1 DEF EggInv, EggIdle, Text, hardnessSelected
<1>2. CASE begin
  <2>1. PICK n \in Nat : busyCooking /\ AboutToBegin(n)
    BY <1>2, OneClosure DEF EggInv, begin, Runs, EggIdle, Counting, Finishing, Closure
  <2>2. Head(mainQueue).secs = n
    BY <2>1, OneClosure DEF AboutToBegin, Closure
  <2>3. /\ currentCookingTime' = n /\ busyCooking' = busyCooking
        /\ showRemainingTime(n) /\ n > 0
    BY <1>2, <2>1, <2>2 DEF begin, AboutToBegin
  <2>4. Counting(n - 1)'
    BY <2>1, <2>3, ShowStep DEF AboutToBegin
  <2>5. n - 1 \in Nat
    BY <2>3
  <2>6. EggInv'
    BY <2>1, <2>3, <2>4, <2>5 DEF EggInv
  <2>7. titleLabel = Text("starting", n) /\ titleLabel' = Text("remaining", n)
    BY <2>1, <2>3 DEF AboutToBegin, showRemainingTime
  <2> QED
    BY <2>6, <2>7 DEF Text
<1>3. CASE show
  <2>1. PICK n \in Nat : busyCooking /\ Counting(n)
    BY <1>3, OneClosure DEF EggInv, show, Runs, EggIdle, AboutToBegin, Finishing, Closure
  <2>2. Head(mainQueue).secs = n
    BY <2>1, OneClosure DEF Counting, Closure
  <2>3. /\ currentCookingTime' = currentCookingTime /\ busyCooking' = busyCooking
        /\ showRemainingTime(n) /\ n =< currentCookingTime /\ currentCookingTime \in Nat
    BY <1>3, <2>1, <2>2 DEF show, Counting, EggInv
  <2>4. (n > 0 /\ Counting(n - 1)') \/ (n = 0 /\ Finishing')
    BY <2>1, <2>3, ShowStep DEF Counting
  <2>5. EggInv'
    <3>1. n > 0 => n - 1 \in Nat
      OBVIOUS
    <3> QED
      BY <2>1, <2>3, <2>4, <3>1 DEF EggInv
  <2>6. titleLabel = Text("remaining", n + 1)
    BY <2>1 DEF Counting
  <2>7. titleLabel' = IF n = 0 THEN Text("done", 0) ELSE Text("remaining", n)
    BY <2>3 DEF showRemainingTime
  <2>8. titleLabel.text = "remaining" /\ titleLabel.secs = n + 1
    BY <2>6 DEF Text
  <2> QED
    BY <2>5, <2>7, <2>8
<1>4. CASE reset
  <2>1. busyCooking /\ Finishing
    BY <1>4, OneClosure DEF EggInv, reset, Runs, EggIdle, AboutToBegin, Counting, Closure
  <2>2. EggIdle' /\ currentCookingTime' = currentCookingTime /\ busyCooking' = FALSE
    BY <1>4, <2>1, OneClosure DEF reset, Finishing, EggIdle
  <2> QED
    BY <2>1, <2>2 DEF EggInv, Finishing, Text
<1>5. CASE UNCHANGED vars
  BY <1>5 DEF vars, EggInv, EggIdle, AboutToBegin, Counting, Finishing
<1> QED
  BY <1>1, <1>2, <1>3, <1>4, <1>5 DEF Next

(* Whatever is tapped, the egg timer is always in one of the situations.    *)
THEOREM EggInvariance == Spec => []EggInv
<1>1. Init => EggInv
  <2>1. 0 \in Nat
    OBVIOUS
  <2>2. Init => busyCooking \in BOOLEAN /\ EggIdle
    BY Zenon DEF Init, EggIdle
  <2> QED
    BY <2>1, <2>2, Zenon DEF Init, EggInv
<1>2. EggInv /\ [Next]_vars => EggInv'
  BY EggSteps
<1> QED
  BY <1>1, <1>2, PTL DEF Spec

(* The values have their types, for every set of eggs and times.            *)
THEOREM TimerTypeCorrect == Spec => []TypeOK
  BY EggInvariance, EggInvImplies, PTL

(* No sequence of taps starts a second countdown or frees the buttons early.*)
THEOREM SingleCountdown == Spec => []OneCountdown
  BY EggInvariance, EggInvImplies, PTL

(* The bar and the label tell the same time.                                *)
THEOREM BarFollowsLabel == Spec => []BarAgreesWithLabel
  BY EggInvariance, EggInvImplies, PTL

(* The label counts down without a jump.                                    *)
THEOREM CountdownOrder == Spec => CountsDown
<1>1. EggInv /\ [Next]_vars => [
       titleLabel' # titleLabel =>
       /\ titleLabel.text = "starting" => titleLabel' = Text("remaining", titleLabel.secs)
       /\ titleLabel.text = "remaining" =>
            titleLabel' = IF titleLabel.secs = 1 THEN Text("done", 0)
                                                 ELSE Text("remaining", titleLabel.secs - 1)
      ]_vars
  BY EggSteps
<1> QED
  BY <1>1, EggInvariance, PTL DEF Spec, CountsDown
==============================================================================
