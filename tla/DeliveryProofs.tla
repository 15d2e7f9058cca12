---------------------------- MODULE DeliveryProofs ----------------------------
(***************************************************************************)
(* Proofs about Coordinator, for one Realm with any number of notifiers,    *)
(* callbacks and versions: no change set is lost, and each callback is told *)
(* of what changed up to the version its Realm shows.                       *)
(*                                                                          *)
(* Instance is what that needs: callbacks do not write, those that come     *)
(* during a delivery stay for the rest of it, and the first one comes       *)
(* before the notifier has run.  Neither property is inductive: what a      *)
(* callback is told is on its way from the rows through the change set of   *)
(* the notifier, what the callback has accumulated and what the delivery    *)
(* takes of it, while the worker and the Realm go from version to version.  *)
(* DInv follows it there.                                                   *)
(***************************************************************************)
EXTENDS CoordinatorProofs, FunctionTheorems

OneRealm == \E r : Realms = {r}
Instance == OneRealm /\ CallbacksWrite = {} /\ ~NewOnesLeave /\ ~FirstIsLate

(* The Realm, where its thread is, and the version it shows.                *)
Here == CHOOSE r \in Realms : TRUE
C == call[Here]
Shown == version[Here]

InPhase == worker.pc \in {"skipping", "running"}
Hearing(n, t) == callbacks[n][t].present /\ callbacks[n][t].initialDelivered
Delivering == C.pc \in {"calling", "user"}
InDelivery(n) == Delivering /\ n \in C.package

(* The version a delivery tells of.                                         *)
Target == IF C.kind = "before" THEN C.to ELSE Shown

(* The callbacks of n, and where they are called.                           *)
ListInv(n) ==
  /\ \A t \in Tokens : /\ ~callbacks[n][t].present => callbacks[n][t] = NoCallback
                       /\ ~callbacks[n][t].initialDelivered => heard[n][t].told = {}
                       /\ callbacks[n][t].present => t < notifier[n].next
  /\ notifier[n].haveCallbacks <=> Present(n) # {}
  /\ notifier[n].index # npos => notifier[n].index < Cardinality(Present(n)) /\ C.at = n
  /\ InDelivery(n) => notifier[n].count =< Cardinality(Present(n))

(* What a delivery is about.                                                *)
CallInv ==
  /\ C.todo \subseteq C.package
  /\ C.at # None => C.at \in C.todo /\ Delivering
  /\ C.pc = "idle" /\ writer = Here => Shown = latest
  /\ C.pc \in {"packaging", "waiting"} =>
       /\ C.kind \in {"available", "ready", "latest", "write"} /\ Of(Here) \subseteq C.package
       /\ C.kind \in {"latest", "write"} => Shown =< C.to
       /\ writer = Here => C.kind = "write" /\ C.to = latest
  /\ Delivering =>
       /\ C.kind \in {"before", "after"} /\ \A n \in C.package : notifier[n].hasRun
       /\ Shown =< Target /\ (workerAt = 0 \/ Target =< workerAt)
       /\ writer = Here => Target = latest

(* How far n is in its life, and in a run of the notifiers.                 *)
RunInv(n) ==
  LET f == notifier[n]
  IN /\ f.alive => f.list \in {"new", "main"}
     /\ f.list \in {"none", "new"} => ~f.hasRun
     /\ f.list = "main" /\ ~f.hasRun => InPhase /\ n \in worker.new /\ n \notin worker.old
     /\ f.list = "main" /\ f.hasRun =>
          f.version = workerAt /\ (InPhase => n \in worker.old /\ n \notin worker.new)
     /\ ~f.hasRun => f.change = {} /\ \A t \in Tokens : ~callbacks[n][t].initialDelivered

TodoInv == /\ worker.pc = "skipping" => worker.todo \subseteq worker.old
           /\ worker.pc = "running" => worker.todo \subseteq worker.old \cup worker.new

(* The version as of which n has last run.                                  *)
RanAt(n) == IF n \in worker.todo THEN workerAt
            ELSE IF worker.pc = "skipping" THEN worker.skip
            ELSE IF worker.pc = "running" THEN worker.to ELSE workerAt

RowsInv(n) ==
  Live(n) =>
    /\ notifier[n].hasRun /\ Present(n) # {} =>
         /\ notifier[n].rowsAt = RanAt(n)
         /\ notifier[n].change = Between(workerAt, RanAt(n))
    /\ ~notifier[n].hasRun /\ worker.pc = "running" /\ n \in worker.new /\ n \notin worker.todo =>
         notifier[n].rowsAt = worker.to
------------------------------------------------------------------------------
(* The accounts of callback t of n.  It asks to skip what its Realm shows.  *)
Asked(n, t) == \A v \in heard[n][t].asked : v =< Shown

(* What it was told and will be told makes up the worker's version, and it  *)
(* will be told of the one in a delivery and of the other after one.        *)
Kept(n, t) ==
  LET c == callbacks[n][t]
      h == heard[n][t]
  IN Live(n) /\ Hearing(n, t) =>
       /\ h.since =< workerAt
       /\ h.told \cup c.toDeliver \cup c.accumulated \cup {v \in h.asked : v =< workerAt}
            = Between(h.since, workerAt)
       /\ c.accumulated # {} => Shown =< workerAt
       /\ c.toDeliver # {} => InDelivery(n)

(* In a delivery, what it is left is what has changed since.                *)
Left(n, t) ==
  InDelivery(n) /\ Live(n) /\ callbacks[n][t].present /\ IndexOf(n, t) < notifier[n].count =>
    callbacks[n][t].accumulated = Between(Target, workerAt)

(* In a delivery, it is called as of the version the delivery tells of, and *)
(* if there is something to tell it has not been called yet.                *)
Called(n, t) ==
  LET c == callbacks[n][t]
      h == heard[n][t]
  IN InDelivery(n) /\ Hearing(n, t) =>
       /\ IndexOf(n, t) < notifier[n].count
       /\ h.told \cup c.toDeliver \cup h.asked = Between(h.since, Target)
       /\ c.toDeliver # {} /\ C.kind = "after" =>
            n \in C.todo /\ (notifier[n].index = npos \/ notifier[n].index < IndexOf(n, t))

(* It is to skip the next version, which the worker will hand over alone.   *)
Skips(n, t) ==
  Live(n) /\ notifier[n].hasRun /\ callbacks[n][t].present /\ callbacks[n][t].skipNext =>
    /\ workerAt < Shown
    /\ callbacks[n][t].initialDelivered =>
         /\ workerAt + 1 \in heard[n][t].asked
         /\ skipVersion = workerAt + 1 \/ (worker.pc = "skipping" /\ worker.skip = workerAt + 1)

(* What is handed over next is no older than what its Realm shows, or       *)
(* nothing; and a write transaction begins with nothing left to tell.       *)
NextOnes(n, t) ==
  Live(n) /\ Hearing(n, t) =>
    /\ skipVersion # 0 => Shown =< skipVersion
    /\ worker.pc = "skipping" => Shown =< worker.skip
    /\ worker.pc = "running" /\ workerAt < worker.to => Shown =< worker.to
    /\ C.pc # "advancing"
    /\ writer = Here =>
         /\ C.pc = "idle" => workerAt = latest /\ callbacks[n][t].accumulated = {}
         /\ Delivering => n \in C.package

Account(n, t) == /\ Asked(n, t) /\ Kept(n, t) /\ Left(n, t) /\ Called(n, t)
                 /\ Skips(n, t) /\ NextOnes(n, t)

DInv == /\ IInv /\ CallInv /\ TodoInv
        /\ \A n \in Notifiers : ListInv(n) /\ RunInv(n) /\ RowsInv(n)
        /\ \A n \in Notifiers, t \in Tokens : Account(n, t)
------------------------------------------------------------------------------
(* Ranks in a finite set of tokens.                                         *)
Below(S, t) == Cardinality({u \in S : u < t})

LEMMA TokensFinite ==
  ASSUME NEW S \in SUBSET Tokens
  PROVE  /\ IsFiniteSet(S) /\ Cardinality(S) \in 0 .. MaxToken
         /\ \A t : IsFiniteSet({u \in S : u < t}) /\ Below(S, t) \in Nat /\ Below(S, t) =< Cardinality(S)
<1>1. IsFiniteSet(Tokens) /\ Cardinality(Tokens) = MaxToken /\ MaxToken \in Nat
  BY Numbers, FS_Interval DEF Tokens
<1>2. IsFiniteSet(S) /\ Cardinality(S) =< Cardinality(Tokens) /\ Cardinality(S) \in Nat
  BY <1>1, FS_Subset, FS_CardinalityType
<1>3. ASSUME NEW t
      PROVE  IsFiniteSet({u \in S : u < t}) /\ Below(S, t) \in Nat /\ Below(S, t) =< Cardinality(S)
  <2> DEFINE B == {u \in S : u < t}
  <2>1. B \subseteq S
    OBVIOUS
  <2> HIDE DEF B
  <2>2. IsFiniteSet(B) /\ Cardinality(B) =< Cardinality(S) /\ Cardinality(B) \in Nat
    BY <1>2, <2>1, FS_Subset, FS_CardinalityType
  <2> QED
    BY <2>2 DEF B, Below
<1> QED
  BY <1>1, <1>2, <1>3

LEMMA BelowLess ==
  ASSUME NEW S \in SUBSET Tokens, NEW t \in S
  PROVE  /\ Below(S, t) < Cardinality(S)
         /\ \A u \in S : t < u => Below(S, t) < Below(S, u)
<1>1. t \in Nat /\ \A u \in S : u \in Nat
  BY DEF Tokens
<1>2. ASSUME NEW B \in SUBSET S, t \in B, \A u \in S : u < t => u \in B
      PROVE  Below(S, t) < Cardinality(B)
  <2> DEFINE L == {u \in S : u < t}
  <2>1. L \subseteq B \ {t}
    <3> SUFFICES ASSUME NEW u \in L PROVE u \in B \ {t}
      OBVIOUS
    <3>1. u \in S /\ u < t /\ u \in Nat
      BY <1>1
    <3>2. u # t
      BY <1>1, <3>1
    <3> QED
      BY <1>2, <3>1, <3>2
  <2> HIDE DEF L
  <2>2. IsFiniteSet(S) /\ IsFiniteSet(B) /\ IsFiniteSet(B \ {t})
    BY TokensFinite, FS_Subset
  <2>3. Cardinality(B \ {t}) = Cardinality(B) - 1
    BY <1>2, <2>2, FS_RemoveElement
  <2>4. Cardinality(L) =< Cardinality(B \ {t})
    BY <2>1, <2>2, FS_Subset
  <2>5. Cardinality(B) \in Nat /\ Cardinality(L) \in Nat
    BY <2>1, <2>2, FS_Subset, FS_CardinalityType
  <2>6. Cardinality(L) < Cardinality(B)
    BY <2>3, <2>4, <2>5
  <2> QED
    BY <2>6 DEF L, Below
<1>3. Below(S, t) < Cardinality(S)
  BY <1>2
<1>4. ASSUME NEW u \in S, t < u PROVE Below(S, t) < Below(S, u)
  <2> DEFINE B == {w \in S : w < u}
  <2>1. B \in SUBSET S /\ t \in B /\ \A w \in S : w < t => w \in B
    BY <1>1, <1>4
  <2> HIDE DEF B
  <2>2. Below(S, t) < Cardinality(B)
    BY <1>2, <2>1
  <2> QED
    BY <2>2 DEF B, Below
<1> QED
  BY <1>3, <1>4

LEMMA BelowInjective ==
  ASSUME NEW S \in SUBSET Tokens, NEW t \in S, NEW u \in S, Below(S, t) = Below(S, u)
  PROVE  t = u
<1>1. t \in Nat /\ u \in Nat
  BY DEF Tokens
<1>2. Below(S, t) \in Nat
  BY TokensFinite
<1>3. ~(t < u) /\ ~(u < t)
  BY <1>2, BelowLess
<1> QED
  BY <1>1, <1>3

LEMMA BelowOnto ==
  ASSUME NEW S \in SUBSET Tokens, NEW i \in 0 .. Cardinality(S) - 1
  PROVE  \E t \in S : Below(S, t) = i
<1> DEFINE k == Cardinality(S)
           f == [t \in S |-> Below(S, t)]
<1>1. k \in Nat /\ IsFiniteSet(S)
  BY TokensFinite
<1>2. ASSUME NEW t \in S PROVE Below(S, t) \in 0 .. k - 1
  <2>1. Below(S, t) \in Nat
    BY TokensFinite
  <2>2. Below(S, t) < k
    BY BelowLess
  <2> QED
    BY <1>1, <2>1, <2>2
<1>3. f \in [S -> 0 .. k - 1]
  BY <1>2
<1>4. \A t, u \in S : f[t] = f[u] => t = u
  BY BelowInjective
<1>5. f \in Injection(S, 0 .. k - 1)
  BY <1>3, <1>4, Fun_IsInj
<1>6. IsFiniteSet(0 .. k - 1) /\ Cardinality(0 .. k - 1) = k
  BY <1>1, FS_Interval
<1>7. f \in Surjection(S, 0 .. k - 1)
  BY <1>1, <1>5, <1>6, FS_Injection
<1>8. PICK t \in S : f[t] = i
  BY <1>7 DEF Surjection
<1> QED
  BY <1>8

LEMMA BelowRemove ==
  ASSUME NEW S \in SUBSET Tokens, NEW t \in S
  PROVE  /\ Cardinality(S \ {t}) = Cardinality(S) - 1
         /\ \A u \in S \ {t} :
              Below(S \ {t}, u) = IF u < t THEN Below(S, u) ELSE Below(S, u) - 1
<1>1. IsFiniteSet(S) /\ t \in Nat /\ \A u \in S : u \in Nat
  BY TokensFinite DEF Tokens
<1>2. ASSUME NEW u \in S \ {t}
      PROVE  Below(S \ {t}, u) = IF u < t THEN Below(S, u) ELSE Below(S, u) - 1
  <2> DEFINE L == {w \in S : w < u}
  <2>1. CASE u < t
    <3>1. {w \in S \ {t} : w < u} = L
      BY <1>1, <2>1
    <3> QED
      BY <2>1, <3>1 DEF Below
  <2>2. CASE ~(u < t)
    <3>1. t \in L /\ {w \in S \ {t} : w < u} = L \ {t}
      BY <1>1, <2>2
    <3>2. IsFiniteSet(L)
      BY TokensFinite
    <3> HIDE DEF L
    <3>3. Cardinality(L \ {t}) = Cardinality(L) - 1
      BY <3>1, <3>2, FS_RemoveElement
    <3> QED
      BY <2>2, <3>1, <3>3 DEF Below, L
  <2> QED
    BY <2>1, <2>2
<1> QED
  BY <1>1, <1>2, FS_RemoveElement

LEMMA BelowAdd ==
  ASSUME NEW S \in SUBSET Tokens, NEW t \in Tokens, \A u \in S : u < t
  PROVE  /\ Cardinality(S \cup {t}) = Cardinality(S) + 1
         /\ Below(S \cup {t}, t) = Cardinality(S)
         /\ \A u \in S : Below(S \cup {t}, u) = Below(S, u)
<1>1. IsFiniteSet(S) /\ t \in Nat /\ \A u \in S : u \in Nat
  BY TokensFinite DEF Tokens
<1>2. t \notin S
  BY <1>1
<1>3. Cardinality(S \cup {t}) = Cardinality(S) + 1
  BY <1>1, <1>2, FS_AddElement
<1>4. {w \in S \cup {t} : w < t} = S
  <2>1. ~(t < t)
    BY <1>1
  <2> QED
    BY <2>1
<1>5. ASSUME NEW u \in S PROVE {w \in S \cup {t} : w < u} = {w \in S : w < u}
  BY <1>1, <1>5
<1> QED
  BY <1>3, <1>4, <1>5 DEF Below

(* IndexOf and At are the rank of a callback and the one with a rank.       *)
LEMMA Indices ==
  ASSUME NEW n
  PROVE  /\ Present(n) \in SUBSET Tokens
         /\ Cardinality(Present(n)) \in 0 .. MaxToken
         /\ \A t : IndexOf(n, t) = Below(Present(n), t) /\ IndexOf(n, t) \in Nat
         /\ \A t \in Present(n) : /\ IndexOf(n, t) < Cardinality(Present(n))
                                  /\ At(n, IndexOf(n, t)) = t
         /\ \A t, u \in Present(n) : IndexOf(n, t) = IndexOf(n, u) => t = u
         /\ \A i \in 0 .. Cardinality(Present(n)) - 1 :
              At(n, i) \in Present(n) /\ IndexOf(n, At(n, i)) = i
<1>1. Present(n) \in SUBSET Tokens
  BY DEF Present
<1>2. \A t : IndexOf(n, t) = Below(Present(n), t)
  BY DEF IndexOf, Below
<1>3. Cardinality(Present(n)) \in 0 .. MaxToken /\ \A t : IndexOf(n, t) \in Nat
  BY <1>1, <1>2, TokensFinite
<1>4. \A t, u \in Present(n) : IndexOf(n, t) = IndexOf(n, u) => t = u
  BY <1>1, <1>2, BelowInjective
<1>5. \A t \in Present(n) : IndexOf(n, t) < Cardinality(Present(n))
  BY <1>1, <1>2, BelowLess
<1>6. \A i \in 0 .. Cardinality(Present(n)) - 1 : \E t \in Present(n) : IndexOf(n, t) = i
  BY <1>1, <1>2, BelowOnto
<1>7. \A i \in 0 .. Cardinality(Present(n)) - 1 :
        At(n, i) \in Present(n) /\ IndexOf(n, At(n, i)) = i
  BY <1>6 DEF At
<1>8. ASSUME NEW t \in Present(n) PROVE At(n, IndexOf(n, t)) = t
  <2>1. \E u \in Present(n) : IndexOf(n, u) = IndexOf(n, t)
    OBVIOUS
  <2>2. At(n, IndexOf(n, t)) \in Present(n) /\ IndexOf(n, At(n, IndexOf(n, t))) = IndexOf(n, t)
    BY <2>1 DEF At
  <2> QED
    BY <1>4, <2>2
<1> QED
  BY <1>1, <1>2, <1>3, <1>4, <1>5, <1>7, <1>8
------------------------------------------------------------------------------
(* The types, of the one Realm, of its notifiers and of their callbacks.    *)
RealmFacts ==
  /\ Here \in Realms /\ Realms = {Here} /\ Here # Nobody
  /\ \A n \in Notifiers : Owner[n] = Here /\ n # None
  /\ Of(Here) = {n \in Notifiers : Live(n)}
  /\ latest \in Nat /\ latest # 0 /\ Shown \in 1 .. latest /\ Shown \in Nat /\ Target \in Nat
  /\ C \in CallRec(latest) /\ C.to \in 0 .. latest /\ C.to \in Nat
  /\ C.package \in SUBSET Notifiers /\ C.todo \in SUBSET Notifiers
  /\ skipVersion \in Nat /\ workerAt \in Nat
  /\ worker.skip \in Nat /\ worker.to \in Nat
  /\ worker.old \in SUBSET Notifiers /\ worker.new \in SUBSET Notifiers
  /\ worker.todo \in SUBSET Notifiers
  /\ npos \in Nat /\ MaxToken \in Nat

NotifierFacts(n) ==
  LET f == notifier[n]
  IN /\ f \in NotifierRec(latest)
     /\ f.version \in 1 .. latest /\ f.version \in Nat /\ f.rowsAt \in Nat
     /\ f.change \in SUBSET Nat /\ f.next \in Nat
     /\ f.index \in Nat /\ f.count \in Nat /\ f.index =< npos
     /\ Present(n) \in SUBSET Tokens /\ RanAt(n) \in Nat

CallbackFacts(n, t) ==
  LET c == callbacks[n][t]
      h == heard[n][t]
  IN /\ c \in Change /\ c.accumulated \in SUBSET Nat /\ c.toDeliver \in SUBSET Nat
     /\ c.present \in BOOLEAN /\ c.initialDelivered \in BOOLEAN /\ c.skipNext \in BOOLEAN
     /\ h \in HeardRec(latest) /\ h.since \in Nat
     /\ h.told \in SUBSET Nat /\ h.asked \in SUBSET Nat

LEMMA FactsOfRealm == Instance /\ IInv => RealmFacts
<1> SUFFICES ASSUME Instance, IInv PROVE RealmFacts
  OBVIOUS
<1>1. PICK r : Realms = {r}
  BY DEF Instance, OneRealm
<1>2. Here = r
  BY <1>1 DEF Here
<1>3. /\ Here \in Realms /\ Realms = {Here} /\ Here # Nobody
      /\ \A n \in Notifiers : Owner[n] = Here /\ n # None
  BY <1>1, <1>2, CoordinatorAssumption DEF CoordinatorAssumption
<1>4. Of(Here) = {n \in Notifiers : Live(n)}
  BY <1>3 DEF Of
<1>5. latest \in Nat /\ latest # 0 /\ npos \in Nat /\ MaxToken \in Nat
  BY Numbers DEF IInv, Types
<1>6. Shown \in 1 .. latest /\ C \in CallRec(latest)
  BY <1>3 DEF IInv, Types, Shown, C
<1>7. C.to \in 0 .. latest /\ C.package \in SUBSET Notifiers /\ C.todo \in SUBSET Notifiers
  <2>1. \A c \in CallRec(latest) : c.to \in 0 .. latest /\ c.package \in SUBSET Notifiers
                                   /\ c.todo \in SUBSET Notifiers
    BY DEF CallRec
  <2> QED
    BY <1>6, <2>1
<1>8. Target \in Nat /\ Shown \in Nat /\ C.to \in Nat
  BY <1>5, <1>6, <1>7 DEF Target
<1>9. skipVersion \in Nat /\ workerAt \in Nat
  BY <1>5 DEF IInv, Types
<1>10. /\ worker.skip \in Nat /\ worker.to \in Nat
       /\ worker.old \in SUBSET Notifiers /\ worker.new \in SUBSET Notifiers
       /\ worker.todo \in SUBSET Notifiers
  BY <1>5 DEF IInv, Types, WorkerRec
<1> QED
  BY <1>3, <1>4, <1>5, <1>6, <1>7, <1>8, <1>9, <1>10 DEF RealmFacts

LEMMA FactsOfNotifiers == Instance /\ IInv => \A n \in Notifiers : NotifierFacts(n)
<1> SUFFICES ASSUME Instance, IInv, NEW n \in Notifiers PROVE NotifierFacts(n)
  OBVIOUS
<1>1. RealmFacts
  BY FactsOfRealm
<1>2. notifier[n] \in NotifierRec(latest)
  BY DEF IInv, Types
<1>3. \A f \in NotifierRec(latest) :
        /\ f.version \in 1 .. latest /\ f.version \in Nat /\ f.rowsAt \in Nat
        /\ f.change \in SUBSET Nat /\ f.next \in Nat
        /\ f.index \in Nat /\ f.count \in Nat /\ f.index =< npos
  BY <1>1, Numbers DEF NotifierRec, RealmFacts
<1>4. Present(n) \in SUBSET Tokens
  BY DEF Present
<1>5. RanAt(n) \in Nat
  BY <1>1 DEF RanAt, RealmFacts
<1> QED
  BY <1>2, <1>3, <1>4, <1>5 DEF NotifierFacts

LEMMA FactsOfCallbacks ==
  Instance /\ IInv => \A n \in Notifiers, t \in Tokens : CallbackFacts(n, t)
<1> SUFFICES ASSUME Instance, IInv, NEW n \in Notifiers, NEW t \in Tokens
             PROVE  CallbackFacts(n, t)
  OBVIOUS
<1>1. callbacks[n][t] \in Change /\ heard[n][t] \in HeardRec(latest) /\ latest \in Nat
  BY Numbers DEF IInv, Types
<1>2. \A c \in Change :
        /\ c.accumulated \in SUBSET Nat /\ c.toDeliver \in SUBSET Nat
        /\ c.present \in BOOLEAN /\ c.initialDelivered \in BOOLEAN /\ c.skipNext \in BOOLEAN
  BY DEF Change, Versions
<1>3. \A h \in HeardRec(latest) :
        h.since \in Nat /\ h.told \in SUBSET Nat /\ h.asked \in SUBSET Nat
  BY <1>1 DEF HeardRec, Versions
<1> QED
  BY <1>1, <1>2, <1>3 DEF CallbackFacts

LEMMA Facts ==
  Instance /\ IInv => /\ RealmFacts /\ (\A n \in Notifiers : NotifierFacts(n))
                      /\ (\A n \in Notifiers, t \in Tokens : CallbackFacts(n, t))
  BY FactsOfRealm, FactsOfNotifiers, FactsOfCallbacks

LEMMA FactsAfter ==
  Instance /\ IInv' => /\ RealmFacts' /\ (\A n \in Notifiers : NotifierFacts(n))'
                       /\ (\A n \in Notifiers, t \in Tokens : CallbackFacts(n, t))'
<1>1. Instance => Instance'
  BY DEF Instance, OneRealm
<1> QED
  BY <1>1, Facts, PTL

LEMMA DeliveryInitially == Instance /\ Init => DInv
<1> SUFFICES ASSUME Instance, Init PROVE DInv
  OBVIOUS
<1>1. IInv
  BY Initially
<1>2. RealmFacts
  BY <1>1, FactsOfRealm
<1>3. C = Idle /\ worker = Resting /\ skipVersion = 0 /\ writer = Nobody
  BY <1>2 DEF Init, RealmFacts, C
<1>4. CallInv /\ TodoInv /\ ~Delivering
  BY <1>2, <1>3 DEF CallInv, TodoInv, Idle, Resting, Delivering, RealmFacts
<1>5. ASSUME NEW n \in Notifiers PROVE ListInv(n) /\ RunInv(n) /\ RowsInv(n)
  <2>1. /\ notifier[n].list = "none" /\ ~notifier[n].alive /\ ~notifier[n].hasRun
        /\ notifier[n].change = {} /\ ~notifier[n].haveCallbacks /\ notifier[n].index = npos
        /\ \A t \in Tokens : callbacks[n][t] = NoCallback /\ heard[n][t] = NotHeard
    BY DEF Init
  <2>2. Present(n) = {}
    BY <2>1 DEF Present, NoCallback
  <2>3. ~InDelivery(n) /\ ~Live(n)
    BY <1>4, <2>1 DEF InDelivery, Live
  <2> QED
    BY <2>1, <2>2, <2>3 DEF ListInv, RunInv, RowsInv, NoCallback, NotHeard
<1>6. ASSUME NEW n \in Notifiers, NEW t \in Tokens PROVE Account(n, t)
  <2>1. notifier[n].list = "none" /\ heard[n][t] = NotHeard
    BY DEF Init
  <2>2. ~Live(n) /\ ~InDelivery(n)
    BY <1>4, <2>1 DEF Live, InDelivery
  <2> QED
    BY <2>1, <2>2 DEF Account, Asked, Kept, Left, Called, Skips, NextOnes, NotHeard
<1> QED
  BY <1>1, <1>4, <1>5, <1>6 DEF DInv
------------------------------------------------------------------------------
(* What a step leaves alone, of the worker, of the call and of a callback.  *)
WorkerSame ==
  /\ workerAt' = workerAt /\ skipVersion' = skipVersion
  /\ \/ worker'.pc = worker.pc /\ worker'.skip = worker.skip /\ worker'.to = worker.to
     \/ worker.pc \in {"idle", "signal"} /\ worker'.pc \in {"idle", "signal"}

CallSame(n) ==
  /\ Shown' = Shown
  /\ InDelivery(n)' <=> InDelivery(n)
  /\ InDelivery(n) => Target' = Target /\ C'.kind = C.kind /\ (n \in C.todo => n \in C'.todo)
  /\ C'.pc = "advancing" => C.pc = "advancing"
  /\ writer' = Here =>
       /\ latest' = latest
       /\ C'.pc = "idle" => C.pc = "idle" /\ writer = Here
       /\ Delivering' => Delivering /\ writer = Here /\ C'.package = C.package

CallbackSame(n, t) ==
  /\ Live(n)' => Live(n)
  /\ notifier'[n].hasRun = notifier[n].hasRun
  /\ notifier'[n].index = notifier[n].index /\ notifier'[n].count = notifier[n].count
  /\ callbacks'[n][t] = callbacks[n][t] /\ heard'[n][t] = heard[n][t]
  /\ IndexOf(n, t)' = IndexOf(n, t)

LEMMA AccountStays ==
  ASSUME NEW n, NEW t, Account(n, t), WorkerSame, CallSame(n), CallbackSame(n, t)
  PROVE  Account(n, t)'
<1>1. Asked(n, t)'
  BY DEF Account, Asked, CallSame, CallbackSame
<1>2. Hearing(n, t)' <=> Hearing(n, t)
  BY DEF CallbackSame, Hearing
<1>3. Kept(n, t)'
  BY <1>2 DEF Account, Kept, WorkerSame, CallSame, CallbackSame
<1>4. Left(n, t)'
  BY DEF Account, Left, WorkerSame, CallSame, CallbackSame
<1>5. Called(n, t)'
  BY <1>2 DEF Account, Called, WorkerSame, CallSame, CallbackSame
<1>6. Skips(n, t)'
  BY DEF Account, Skips, WorkerSame, CallSame, CallbackSame
<1>7. NextOnes(n, t)'
  BY <1>2 DEF Account, NextOnes, WorkerSame, CallSame, CallbackSame
<1> QED
  BY <1>1, <1>3, <1>4, <1>5, <1>6, <1>7 DEF Account

(* Steps that leave notifiers, callbacks and versions alone.                *)
LEMMA QuietStep ==
  ASSUME Instance, DInv, IInv', CallInv',
         UNCHANGED <<version, skipVersion, workerAt, notifier, callbacks, heard>>,
         worker' = worker \/ (worker.pc = "signal" /\ worker' = Resting),
         \A n \in Notifiers : CallSame(n), Delivering => C'.at = C.at
  PROVE  DInv'
<1>1. /\ CallInv /\ TodoInv
      /\ \A n \in Notifiers : ListInv(n) /\ RunInv(n) /\ RowsInv(n)
      /\ \A n \in Notifiers, t \in Tokens : Account(n, t)
  BY DEF DInv
<1>2. WorkerSame
  BY DEF WorkerSame, Resting
<1>3. \A n : /\ Live(n)' <=> Live(n)
             /\ Present(n)' = Present(n) /\ \A t : IndexOf(n, t)' = IndexOf(n, t)
  BY DEF Live, Present, IndexOf
<1>4. TodoInv'
  BY <1>1 DEF TodoInv, Resting
<1>5. InPhase' <=> InPhase
  BY DEF InPhase, Resting
<1>6. ASSUME NEW n \in Notifiers PROVE ListInv(n)' /\ RunInv(n)' /\ RowsInv(n)'
  <2>1. RealmFacts /\ n # None
    BY FactsOfRealm DEF DInv, RealmFacts
  <2>2. ListInv(n)'
    <3>1. notifier[n].index # npos => Delivering
      BY <1>1, <2>1 DEF ListInv, CallInv
    <3> QED
      BY <1>1, <1>3, <3>1 DEF ListInv, CallSame
  <2>3. RunInv(n)'
    <3>1. InPhase => worker' = worker
      BY DEF InPhase
    <3> QED
      BY <1>1, <1>5, <3>1 DEF RunInv
  <2>4. RanAt(n)' = RanAt(n)
    BY DEF RanAt, Resting
  <2>5. RowsInv(n)'
    BY <1>1, <1>3, <2>4 DEF RowsInv, Resting
  <2> QED
    BY <2>2, <2>3, <2>5
<1>7. ASSUME NEW n \in Notifiers, NEW t \in Tokens PROVE Account(n, t)'
  <2>1. CallbackSame(n, t)
    BY <1>3 DEF CallbackSame
  <2> QED
    BY <1>1, <1>2, <2>1, AccountStays
<1> QED
  BY <1>4, <1>6, <1>7 DEF DInv

(* The thread of the Realm begins to wait for notifiers, or goes on to.     *)
LEMMA AsksStay ==
  ASSUME Instance, DInv, IInv', NEW r \in Realms,
         notify(r) \/ refresh(r) \/ beginTransaction(r) \/ waitForNotifiers(r) \/ cancelTransaction(r)
  PROVE  DInv'
<1>1. /\ UNCHANGED <<latest, version, skipVersion, workerAt, notifier, callbacks, heard>>
      /\ worker' = worker
  BY DEF notify, refresh, beginTransaction, waitForNotifiers, cancelTransaction, fileVars,
         coordinatorVars
<1>2. RealmFacts /\ r = Here /\ CallInv /\ call \in [Realms -> CallRec(latest)]
  BY FactsOfRealm DEF DInv, RealmFacts, IInv, Types
<1>3. ~Delivering /\ C.pc \in {"idle", "packaging"} /\ Shown' = Shown
  BY <1>1, <1>2 DEF notify, refresh, beginTransaction, waitForNotifiers, cancelTransaction,
                    Delivering, C, Shown
<1>4. C.todo \subseteq C.package /\ C.at = None
  BY <1>2, <1>3 DEF CallInv
<1>5. \/ C' = C /\ (writer' = writer \/ writer' = Nobody)
      \/ /\ C.pc = "idle" /\ writer # Here
         /\ \/ C' = Package("available", Of(Here), 0) /\ writer' # Here
            \/ C' = Package("ready", Of(Here), 0) /\ writer' # Here
            \/ C' = Package("latest", Of(Here), latest) /\ writer' # Here
            \/ C' = Package("write", Of(Here), latest)
      \/ C.pc = "packaging" /\ C' = [C EXCEPT !.pc = "waiting"] /\ writer' = writer
  <2>1. CASE notify(r)
    BY <1>2, <2>1 DEF notify, C, fileVars
  <2>2. CASE refresh(r)
    BY <1>2, <2>2 DEF refresh, C, fileVars
  <2>3. CASE beginTransaction(r)
    BY <1>2, <2>3 DEF beginTransaction, C, RealmFacts
  <2>4. CASE waitForNotifiers(r)
    BY <1>2, <2>4 DEF waitForNotifiers, C, fileVars
  <2>5. CASE cancelTransaction(r)
    BY <1>2, <2>5 DEF cancelTransaction, C
  <2> QED
    BY <2>1, <2>2, <2>3, <2>4, <2>5
<1>6. Of(Here)' = Of(Here)
  BY <1>1 DEF Of, Live
<1>7. CallInv'
  <2>1. CASE C' = C /\ (writer' = writer \/ writer' = Nobody)
    BY <1>1, <1>2, <1>3, <1>4, <1>6, <2>1 DEF CallInv, Delivering, RealmFacts
  <2>2. ASSUME NEW k \in {"available", "ready", "latest", "write"}, NEW to \in {0, latest},
               C' = Package(k, Of(Here), to), writer' = Here => k = "write",
               k \in {"latest", "write"} => to = latest
        PROVE  CallInv'
    <3>1. /\ C'.pc = "packaging" /\ C'.kind = k /\ C'.package = Of(Here) /\ C'.todo = {}
          /\ C'.at = None /\ C'.to = to
      BY <2>2 DEF Package, Idle
    <3>2. Shown =< latest
      BY <1>2 DEF RealmFacts
    <3> QED
      BY <1>1, <1>3, <1>6, <2>2, <3>1, <3>2 DEF CallInv, Delivering
  <2>3. CASE C.pc = "packaging" /\ C' = [C EXCEPT !.pc = "waiting"] /\ writer' = writer
    <3>1. \A g \in CallRec(latest) :
            LET e == [g EXCEPT !.pc = "waiting"]
            IN /\ e.pc = "waiting" /\ e.kind = g.kind /\ e.package = g.package
               /\ e.todo = g.todo /\ e.at = g.at /\ e.to = g.to
      BY DEF CallRec
    <3>2. C \in CallRec(latest)
      BY <1>2 DEF RealmFacts
    <3>3. /\ C'.pc = "waiting" /\ C'.kind = C.kind /\ C'.package = C.package
          /\ C'.todo = C.todo /\ C'.at = C.at /\ C'.to = C.to
      BY <2>3, <3>1, <3>2
    <3> QED
      BY <1>1, <1>2, <1>3, <1>4, <1>6, <2>3, <3>3 DEF CallInv, Delivering
  <2> QED
    BY <1>5, <2>1, <2>2, <2>3
<1>8. \/ C' = C /\ (writer' = writer \/ writer' = Nobody)
      \/ C'.pc \in {"packaging", "waiting"}
  <2>1. \A k, P, to : Package(k, P, to).pc = "packaging"
    BY DEF Package, Idle
  <2>2. [C EXCEPT !.pc = "waiting"].pc = "waiting"
    BY <1>2 DEF RealmFacts, CallRec
  <2> QED
    BY <1>5, <2>1, <2>2
<1>9. \A n \in Notifiers : CallSame(n)
  <2>1. ~Delivering'
    BY <1>3, <1>8 DEF Delivering
  <2>2. writer' = Here => (C'.pc = "idle" => C.pc = "idle" /\ writer = Here)
    BY <1>2, <1>8 DEF RealmFacts
  <2>3. C'.pc = "advancing" => C.pc = "advancing"
    BY <1>8
  <2> QED
    BY <1>1, <1>3, <2>1, <2>2, <2>3 DEF CallSame, InDelivery
<1> QED
  BY <1>1, <1>3, <1>7, <1>9, QuietStep

LEMMA ReturnStays ==
  ASSUME Instance, DInv, IInv', NEW r \in Realms, callbackReturns(r)
  PROVE  DInv'
<1>1. /\ UNCHANGED <<latest, writer, version, skipVersion, workerAt, notifier, callbacks, heard>>
      /\ worker' = worker
  BY DEF callbackReturns, fileVars, coordinatorVars
<1>2. RealmFacts /\ r = Here /\ CallInv /\ call \in [Realms -> CallRec(latest)]
  BY FactsOfRealm DEF DInv, RealmFacts, IInv, Types
<1>3. C.pc = "user" /\ C' = [C EXCEPT !.pc = "calling"] /\ Shown' = Shown
  BY <1>1, <1>2 DEF callbackReturns, C, Shown
<1>4. /\ C'.pc = "calling" /\ C'.kind = C.kind /\ C'.package = C.package
      /\ C'.todo = C.todo /\ C'.at = C.at /\ C'.to = C.to
  <2>1. \A g \in CallRec(latest) :
          LET e == [g EXCEPT !.pc = "calling"]
          IN /\ e.pc = "calling" /\ e.kind = g.kind /\ e.package = g.package
             /\ e.todo = g.todo /\ e.at = g.at /\ e.to = g.to
    BY DEF CallRec
  <2> QED
    BY <1>2, <1>3, <2>1 DEF RealmFacts
<1>5. Delivering /\ Delivering' /\ Target' = Target
  BY <1>3, <1>4 DEF Delivering, Target
<1>6. CallInv'
  BY <1>1, <1>2, <1>3, <1>4, <1>5 DEF CallInv
<1>7. \A n \in Notifiers : CallSame(n)
  BY <1>1, <1>3, <1>4, <1>5 DEF CallSame, InDelivery
<1> QED
  BY <1>1, <1>4, <1>6, <1>7, QuietStep

(* Another process writes, and the worker tells the Realm that it is done.  *)
LEMMA OthersStay ==
  ASSUME Instance, DInv, IInv', externalCommit \/ signalRealms
  PROVE  DInv'
<1>1. /\ UNCHANGED <<writer, version, skipVersion, workerAt, notifier, callbacks, heard, call>>
      /\ worker' = worker \/ (worker.pc = "signal" /\ worker' = Resting)
      /\ writer = Nobody \/ latest' = latest
  BY DEF externalCommit, signalRealms, fileVars, coordinatorVars
<1>2. RealmFacts /\ CallInv
  BY FactsOfRealm DEF DInv
<1>3. /\ C' = C /\ Shown' = Shown /\ (Delivering' <=> Delivering) /\ Target' = Target
      /\ Of(Here)' = Of(Here)
  BY <1>1 DEF C, Shown, Delivering, Target, Of, Live
<1>4. writer = Here => latest' = latest
  BY <1>1, <1>2 DEF RealmFacts
<1>5. CallInv'
  BY <1>1, <1>2, <1>3, <1>4 DEF CallInv
<1>6. \A n \in Notifiers : CallSame(n)
  BY <1>1, <1>3, <1>4 DEF CallSame, InDelivery
<1> QED
  BY <1>1, <1>3, <1>5, <1>6, QuietStep
------------------------------------------------------------------------------
(* A step that is about another notifier.                                   *)
LEMMA NotifierStays ==
  ASSUME NEW n, ListInv(n), RunInv(n), RowsInv(n),
         notifier'[n] = notifier[n], callbacks'[n] = callbacks[n], heard'[n] = heard[n],
         worker' = worker, workerAt' = workerAt,
         InDelivery(n)' => InDelivery(n), notifier[n].index # npos => C'.at = C.at
  PROVE  ListInv(n)' /\ RunInv(n)' /\ RowsInv(n)'
<1>1. /\ Live(n)' <=> Live(n)
      /\ Present(n)' = Present(n)
  BY DEF Live, Present
<1>2. (InPhase' <=> InPhase) /\ RanAt(n)' = RanAt(n)
  BY DEF InPhase, RanAt
<1>3. ListInv(n)'
  BY <1>1 DEF ListInv
<1>4. RunInv(n)'
  BY <1>2 DEF RunInv
<1>5. RowsInv(n)'
  BY <1>1, <1>2 DEF RowsInv
<1> QED
  BY <1>3, <1>4, <1>5

(* A step of the app that is about n, and leaves the Realm and the worker   *)
(* alone.                                                                   *)
LEMMA AppStays ==
  ASSUME Instance, DInv, IInv', NEW n \in Notifiers,
         RunsApp(Here) \/ Of(Here)' \subseteq Of(Here),
         UNCHANGED <<latest, writer, version, skipVersion, workerAt, worker, call>>,
         \A m \in Notifiers \ {n} : /\ notifier'[m] = notifier[m]
                                    /\ callbacks'[m] = callbacks[m] /\ heard'[m] = heard[m],
         notifier'[n].hasRun = notifier[n].hasRun,
         ListInv(n)', RunInv(n)', RowsInv(n)', \A t \in Tokens : Account(n, t)'
  PROVE  DInv'
<1>1. /\ CallInv /\ TodoInv
      /\ \A m \in Notifiers : ListInv(m) /\ RunInv(m) /\ RowsInv(m)
      /\ \A m \in Notifiers, t \in Tokens : Account(m, t)
  BY DEF DInv
<1>2. RealmFacts
  BY FactsOfRealm DEF DInv
<1>3. /\ C' = C /\ Shown' = Shown /\ (Delivering' <=> Delivering) /\ Target' = Target
      /\ \A m : InDelivery(m)' <=> InDelivery(m)
  BY DEF C, Shown, Delivering, Target, InDelivery
<1>4. CallInv'
  <2>1. C.pc \notin {"packaging", "waiting"} \/ Of(Here)' \subseteq Of(Here)
    BY DEF RunsApp, C
  <2>2. \A m \in C.package : notifier'[m].hasRun = notifier[m].hasRun
    BY <1>2 DEF RealmFacts
  <2> QED
    BY <1>1, <1>3, <2>1, <2>2 DEF CallInv
<1>5. TodoInv'
  BY <1>1 DEF TodoInv
<1>6. ASSUME NEW m \in Notifiers, m # n PROVE ListInv(m)' /\ RunInv(m)' /\ RowsInv(m)'
  BY <1>1, <1>3, <1>6, NotifierStays
<1>7. ASSUME NEW m \in Notifiers, NEW t \in Tokens, m # n PROVE Account(m, t)'
  <2>1. WorkerSame /\ CallSame(m)
    BY <1>3 DEF WorkerSame, CallSame
  <2>2. CallbackSame(m, t)
    BY <1>7 DEF CallbackSame, Live, Present, IndexOf
  <2> QED
    BY <1>1, <2>1, <2>2, AccountStays
<1> QED
  BY <1>4, <1>5, <1>6, <1>7 DEF DInv

LEMMA UnregisterStays ==
  ASSUME Instance, DInv, IInv', NEW n \in Notifiers, unregister(n)
  PROVE  DInv'
<1>1. /\ UNCHANGED <<latest, writer, version, skipVersion, workerAt, callbacks, heard, worker, call>>
      /\ RunsApp(Owner[n]) /\ notifier' = [notifier EXCEPT ![n].alive = FALSE]
  BY DEF unregister, fileVars, coordinatorVars
<1>2. /\ ListInv(n) /\ RunInv(n) /\ RowsInv(n) /\ \A t \in Tokens : Account(n, t)
      /\ RealmFacts /\ NotifierFacts(n) /\ notifier \in [Notifiers -> NotifierRec(latest)]
  BY Facts DEF DInv, IInv, Types
<1>3. /\ notifier'[n].list = notifier[n].list /\ notifier'[n].version = notifier[n].version
      /\ notifier'[n].hasRun = notifier[n].hasRun /\ notifier'[n].rowsAt = notifier[n].rowsAt
      /\ notifier'[n].change = notifier[n].change /\ notifier'[n].next = notifier[n].next
      /\ notifier'[n].haveCallbacks = notifier[n].haveCallbacks
      /\ notifier'[n].index = notifier[n].index /\ notifier'[n].count = notifier[n].count
      /\ ~notifier'[n].alive
      /\ \A m \in Notifiers \ {n} : notifier'[m] = notifier[m]
  <2>1. \A f \in NotifierRec(latest) :
          LET g == [f EXCEPT !.alive = FALSE]
          IN /\ g.list = f.list /\ g.version = f.version /\ g.hasRun = f.hasRun
             /\ g.rowsAt = f.rowsAt /\ g.change = f.change /\ g.next = f.next
             /\ g.haveCallbacks = f.haveCallbacks /\ g.index = f.index /\ g.count = f.count
             /\ ~g.alive
    BY DEF NotifierRec
  <2>2. notifier'[n] = [notifier[n] EXCEPT !.alive = FALSE]
        /\ \A m \in Notifiers \ {n} : notifier'[m] = notifier[m]
    BY <1>1, <1>2
  <2> QED
    BY <1>2, <2>1, <2>2 DEF NotifierFacts
<1>4. /\ ~Live(n)' /\ Present(n)' = Present(n) /\ \A t : IndexOf(n, t)' = IndexOf(n, t)
      /\ C' = C /\ Shown' = Shown /\ (Delivering' <=> Delivering) /\ Target' = Target
      /\ (InDelivery(n)' <=> InDelivery(n)) /\ (InPhase' <=> InPhase)
  BY <1>1, <1>3 DEF Live, Present, IndexOf, C, Shown, Delivering, Target, InDelivery, InPhase
<1>5. ListInv(n)' /\ RunInv(n)' /\ RowsInv(n)'
  BY <1>1, <1>2, <1>3, <1>4 DEF ListInv, RunInv, RowsInv
<1>6. ASSUME NEW t \in Tokens PROVE Account(n, t)'
  <2>1. WorkerSame /\ CallSame(n) /\ CallbackSame(n, t)
    BY <1>1, <1>3, <1>4 DEF WorkerSame, CallSame, CallbackSame
  <2> QED
    BY <1>2, <2>1, AccountStays
<1> QED
  BY <1>1, <1>2, <1>3, <1>5, <1>6, AppStays DEF RealmFacts

LEMMA RegisterStays ==
  ASSUME Instance, DInv, IInv', NEW n \in Notifiers, registerNotifier(n)
  PROVE  DInv'
<1> DEFINE v == version[Owner[n]]
<1>1. /\ UNCHANGED <<latest, writer, version, skipVersion, workerAt, callbacks, heard, worker, call>>
      /\ RunsApp(Owner[n]) /\ notifier[n].list = "none"
      /\ notifier' = [notifier EXCEPT ![n].list = "new", ![n].alive = TRUE, ![n].version = v]
  BY DEF registerNotifier, fileVars
<1>2. /\ ListInv(n) /\ RunInv(n) /\ RowsInv(n) /\ \A t \in Tokens : Account(n, t)
      /\ RealmFacts /\ NotifierFacts(n) /\ notifier \in [Notifiers -> NotifierRec(latest)]
      /\ CallInv
  BY Facts DEF DInv, IInv, Types
<1>3. /\ notifier'[n].list = "new" /\ notifier'[n].hasRun = notifier[n].hasRun
      /\ notifier'[n].rowsAt = notifier[n].rowsAt
      /\ notifier'[n].change = notifier[n].change /\ notifier'[n].next = notifier[n].next
      /\ notifier'[n].haveCallbacks = notifier[n].haveCallbacks
      /\ notifier'[n].index = notifier[n].index /\ notifier'[n].count = notifier[n].count
      /\ \A m \in Notifiers \ {n} : notifier'[m] = notifier[m]
  <2> HIDE DEF v
  <2>1. \A f \in NotifierRec(latest) :
          LET g == [f EXCEPT !.list = "new", !.alive = TRUE, !.version = v]
          IN /\ g.list = "new" /\ g.hasRun = f.hasRun
             /\ g.rowsAt = f.rowsAt /\ g.change = f.change /\ g.next = f.next
             /\ g.haveCallbacks = f.haveCallbacks /\ g.index = f.index /\ g.count = f.count
    BY DEF NotifierRec
  <2>2. notifier'[n] = [notifier[n] EXCEPT !.list = "new", !.alive = TRUE, !.version = v]
        /\ \A m \in Notifiers \ {n} : notifier'[m] = notifier[m]
    BY <1>1, <1>2
  <2> QED
    BY <1>2, <2>1, <2>2 DEF NotifierFacts
<1>4. /\ Present(n)' = Present(n) /\ \A t : IndexOf(n, t)' = IndexOf(n, t)
      /\ C' = C /\ Shown' = Shown /\ (Delivering' <=> Delivering)
      /\ (InDelivery(n)' <=> InDelivery(n)) /\ (InPhase' <=> InPhase)
  BY <1>1, <1>3 DEF Present, IndexOf, C, Shown, Delivering, Target, InDelivery, InPhase
<1>5. ~notifier[n].hasRun /\ \A t \in Tokens : ~callbacks[n][t].initialDelivered
  BY <1>1, <1>2 DEF RunInv
<1>6. ~InDelivery(n)
  BY <1>2, <1>5 DEF InDelivery, CallInv
<1>7. ~(worker.pc = "running" /\ n \in worker.new)
  BY <1>1 DEF DInv, IInv, Work, During, In
<1>8. ListInv(n)' /\ RunInv(n)' /\ RowsInv(n)'
  BY <1>1, <1>2, <1>3, <1>4, <1>5, <1>6, <1>7 DEF ListInv, RunInv, RowsInv
<1>9. ASSUME NEW t \in Tokens PROVE Account(n, t)'
  <2>1. ~Hearing(n, t)' /\ ~InDelivery(n)' /\ ~notifier'[n].hasRun
    BY <1>1, <1>3, <1>4, <1>5, <1>6 DEF Hearing
  <2>2. Asked(n, t)'
    BY <1>1, <1>2, <1>4 DEF Account, Asked
  <2> QED
    BY <2>1, <2>2 DEF Account, Kept, Left, Called, Skips, NextOnes
<1> QED
  BY <1>1, <1>2, <1>3, <1>8, <1>9, AppStays DEF RealmFacts


LEMMA AddStays ==
  ASSUME Instance, DInv, IInv', NEW n \in Notifiers, addCallback(n)
  PROVE  DInv'
<1>0. PICK new \in Tokens : new = notifier[n].next
  BY DEF addCallback
<1>1. /\ UNCHANGED <<latest, writer, version, skipVersion, workerAt, heard, worker, call>>
      /\ RunsApp(Owner[n]) /\ Live(n)
      /\ notifier[n].haveCallbacks \/ ~notifier[n].hasRun
      /\ callbacks' = [callbacks EXCEPT ![n][new].present = TRUE]
      /\ \/ /\ notifier[n].index = npos
            /\ notifier' = [notifier EXCEPT ![n].next = new + 1, ![n].haveCallbacks = TRUE]
         \/ /\ notifier[n].index # npos
            /\ notifier' = [notifier EXCEPT ![n].next = new + 1]
  BY <1>0 DEF addCallback, fileVars, coordinatorVars, Instance
<1>2. /\ ListInv(n) /\ RunInv(n) /\ RowsInv(n) /\ \A t \in Tokens : Account(n, t)
      /\ RealmFacts /\ NotifierFacts(n) /\ \A t \in Tokens : CallbackFacts(n, t)
      /\ notifier \in [Notifiers -> NotifierRec(latest)]
      /\ callbacks \in [Notifiers -> [Tokens -> Change]] /\ CallInv
  BY Facts DEF DInv, IInv, Types
<1>3. /\ ~callbacks[n][new].present /\ callbacks[n][new] = NoCallback
      /\ \A u \in Present(n) : u < new
  BY <1>0, <1>1, <1>2 DEF ListInv, NotifierFacts, Present
<1>4. /\ callbacks'[n][new].present /\ ~callbacks'[n][new].initialDelivered
      /\ ~callbacks'[n][new].skipNext
      /\ \A t \in Tokens \ {new} : callbacks'[n][t] = callbacks[n][t]
      /\ \A m \in Notifiers \ {n} : callbacks'[m] = callbacks[m]
  <2>1. /\ callbacks'[n][new] = [callbacks[n][new] EXCEPT !.present = TRUE]
        /\ \A t \in Tokens \ {new} : callbacks'[n][t] = callbacks[n][t]
        /\ \A m \in Notifiers \ {n} : callbacks'[m] = callbacks[m]
    BY <1>1, <1>2
  <2> QED
    BY <1>3, <2>1 DEF NoCallback
<1>5. Present(n)' = Present(n) \cup {new}
  BY <1>1, <1>2, <1>4 DEF Present
<1>6. /\ Cardinality(Present(n)') = Cardinality(Present(n)) + 1
      /\ IndexOf(n, new)' = Cardinality(Present(n))
      /\ \A t \in Present(n) : IndexOf(n, t)' = IndexOf(n, t)
  <2>1. \A t : IndexOf(n, t)' = Below(Present(n)', t) /\ IndexOf(n, t) = Below(Present(n), t)
    BY DEF IndexOf, Below
  <2>2. Present(n) \in SUBSET Tokens /\ new \in Tokens /\ \A u \in Present(n) : u < new
    BY <1>1, <1>2, <1>3 DEF NotifierFacts
  <2>3. /\ Cardinality(Present(n) \cup {new}) = Cardinality(Present(n)) + 1
        /\ Below(Present(n) \cup {new}, new) = Cardinality(Present(n))
        /\ \A u \in Present(n) : Below(Present(n) \cup {new}, u) = Below(Present(n), u)
    BY <2>2, BelowAdd
  <2> QED
    BY <1>5, <2>1, <2>3
<1>7. Cardinality(Present(n)) \in Nat /\ (Present(n) = {} => Cardinality(Present(n)) = 0)
  BY Indices, FS_EmptySet
<1>8. notifier[n].index # npos => Present(n) # {}
  BY <1>2, <1>7 DEF ListInv, NotifierFacts
<1>9. /\ notifier'[n].list = notifier[n].list /\ notifier'[n].version = notifier[n].version
      /\ notifier'[n].hasRun = notifier[n].hasRun /\ notifier'[n].rowsAt = notifier[n].rowsAt
      /\ notifier'[n].change = notifier[n].change /\ notifier'[n].next = new + 1
      /\ notifier'[n].haveCallbacks
      /\ notifier'[n].index = notifier[n].index /\ notifier'[n].count = notifier[n].count
      /\ notifier'[n].alive = notifier[n].alive
      /\ \A m \in Notifiers \ {n} : notifier'[m] = notifier[m]
  <2>1. notifier[n].index # npos => notifier[n].haveCallbacks
    BY <1>2, <1>8 DEF ListInv
  <2>2. notifier[n] \in NotifierRec(latest) /\ \A m \in Notifiers \ {n} : notifier'[m] = notifier[m]
    BY <1>1, <1>2
  <2>3. \/ notifier'[n] = [notifier[n] EXCEPT !.next = new + 1, !.haveCallbacks = TRUE]
        \/ /\ notifier'[n] = [notifier[n] EXCEPT !.next = new + 1]
           /\ notifier[n].haveCallbacks
    BY <1>1, <1>2, <2>1
  <2>4. PICK f \in NotifierRec(latest) : f = notifier[n]
    BY <2>2
  <2>5. CASE notifier'[n] = [notifier[n] EXCEPT !.next = new + 1, !.haveCallbacks = TRUE]
    <3>1. notifier'[n] = [f EXCEPT !.next = new + 1, !.haveCallbacks = TRUE]
      BY <2>4, <2>5
    <3> QED
      BY <2>2, <2>4, <3>1 DEF NotifierRec
  <2>6. CASE notifier'[n] = [notifier[n] EXCEPT !.next = new + 1] /\ notifier[n].haveCallbacks
    <3>1. notifier'[n] = [f EXCEPT !.next = new + 1] /\ f.haveCallbacks
      BY <2>4, <2>6
    <3> QED
      BY <2>2, <2>4, <3>1 DEF NotifierRec
  <2> QED
    BY <2>3, <2>5, <2>6
<1>10. /\ (Live(n)' <=> Live(n)) /\ C' = C /\ Shown' = Shown /\ (Delivering' <=> Delivering)
       /\ Target' = Target /\ (InDelivery(n)' <=> InDelivery(n)) /\ (InPhase' <=> InPhase)
       /\ RanAt(n)' = RanAt(n)
  BY <1>1, <1>9 DEF Live, C, Shown, Delivering, Target, InDelivery, InPhase, RanAt
<1>11. ListInv(n)'
  <2>1. ASSUME NEW t \in Tokens
        PROVE  /\ ~callbacks'[n][t].present => callbacks'[n][t] = NoCallback
               /\ ~callbacks'[n][t].initialDelivered => heard'[n][t].told = {}
               /\ callbacks'[n][t].present => t < notifier'[n].next
    <3>1. CASE t = new
      <4>1. new < new + 1
        BY <1>0, <1>2 DEF NotifierFacts
      <4>2. heard[n][t].told = {}
        <5>1. ~callbacks[n][t].initialDelivered
          BY <1>3, <3>1 DEF NoCallback
        <5> QED
          BY <1>2, <5>1 DEF ListInv
      <4> QED
        BY <1>1, <1>4, <1>9, <3>1, <4>1, <4>2
    <3>2. CASE t # new
      <4>1. t \in Nat /\ new \in Nat
        BY <1>0, <1>2 DEF NotifierFacts, Tokens
      <4>2. t < new => t < new + 1
        BY <4>1
      <4> QED
        BY <1>0, <1>1, <1>2, <1>4, <1>9, <3>2, <4>2 DEF ListInv
    <3> QED
      BY <3>1, <3>2
  <2>2. notifier'[n].haveCallbacks <=> Present(n)' # {}
    BY <1>5, <1>9
  <2>3. notifier'[n].index # npos => notifier'[n].index < Cardinality(Present(n)') /\ C'.at = n
    BY <1>2, <1>6, <1>7, <1>9, <1>10 DEF ListInv, NotifierFacts
  <2>4. InDelivery(n)' => notifier'[n].count =< Cardinality(Present(n)')
    BY <1>2, <1>6, <1>7, <1>9, <1>10 DEF ListInv, NotifierFacts
  <2> QED
    BY <2>1, <2>2, <2>3, <2>4 DEF ListInv
<1>12. RunInv(n)'
  BY <1>1, <1>2, <1>4, <1>9, <1>10 DEF RunInv
<1>13. RowsInv(n)'
  <2>1. notifier[n].hasRun => Present(n) # {}
    BY <1>1, <1>2 DEF ListInv
  <2> QED
    BY <1>1, <1>2, <1>9, <1>10, <2>1 DEF RowsInv
<1>14. ASSUME NEW t \in Tokens PROVE Account(n, t)'
  <2>1. WorkerSame /\ CallSame(n)
    BY <1>1, <1>10 DEF WorkerSame, CallSame
  <2>2. Asked(n, t)'
    BY <1>1, <1>2, <1>10 DEF Account, Asked
  <2>3. CASE t = new
    <3>1. ~Hearing(n, t)'
      BY <1>4, <2>3 DEF Hearing
    <3>2. Left(n, t)'
      <4>1. InDelivery(n)' => notifier'[n].count =< Cardinality(Present(n))
        BY <1>2, <1>9, <1>10 DEF ListInv
      <4>2. IndexOf(n, t)' = Cardinality(Present(n)) /\ notifier'[n].count \in Nat
        BY <1>2, <1>6, <1>9, <2>3 DEF NotifierFacts
      <4>3. InDelivery(n)' => ~(IndexOf(n, t)' < notifier'[n].count)
        BY <1>7, <4>1, <4>2
      <4> QED
        BY <4>3 DEF Left
    <3> QED
      BY <1>4, <2>2, <2>3, <3>1, <3>2 DEF Account, Kept, Called, Skips, NextOnes
  <2>4. CASE t # new /\ callbacks[n][t].present
    <3>1. CallbackSame(n, t)
      BY <1>1, <1>4, <1>6, <1>9, <1>10, <2>4 DEF CallbackSame, Present
    <3> QED
      BY <1>2, <2>1, <3>1, AccountStays
  <2>5. CASE t # new /\ ~callbacks[n][t].present
    <3>1. ~callbacks'[n][t].present
      BY <1>4, <2>5
    <3> QED
      BY <2>2, <3>1 DEF Account, Kept, Left, Called, Skips, NextOnes, Hearing
  <2> QED
    BY <2>3, <2>4, <2>5
<1>15. RunsApp(Here) /\ \A m \in Notifiers \ {n} : heard'[m] = heard[m]
  BY <1>1, <1>2 DEF RealmFacts
<1> QED
  BY <1>1, <1>4, <1>9, <1>11, <1>12, <1>13, <1>14, <1>15, AppStays

(* The arithmetic of the list.                                              *)
LEMMA StepBack ==
  \A i \in Nat : i =< npos =>
    /\ i = 0 => Minus1(i) = npos
    /\ i # 0 => Minus1(i) = i - 1 /\ Minus1(i) \in Nat /\ Minus1(i) # npos
  BY Numbers DEF Minus1

LEMMA RemoveStays ==
  ASSUME Instance, DInv, IInv', NEW n \in Notifiers, NEW gone \in Tokens, removeCallback(n, gone)
  PROVE  DInv'
<1> DEFINE i == IndexOf(n, gone)
           f == notifier[n]
           k == Cardinality(Present(n))
<1>1. /\ UNCHANGED <<latest, writer, version, skipVersion, workerAt, worker, call>>
      /\ gone \in Present(n) /\ (n \notin Packaged \/ i < f.count)
      /\ callbacks' = [callbacks EXCEPT ![n][gone] = NoCallback]
      /\ notifier' = [notifier EXCEPT
           ![n].index = IF @ # npos /\ @ >= i THEN Minus1(@) ELSE @,
           ![n].count = Minus1(@),
           ![n].haveCallbacks = Present(n) # {gone}]
      /\ heard' = [heard EXCEPT ![n][gone] = NotHeard]
  BY DEF removeCallback, fileVars, coordinatorVars, Instance
<1>2. /\ ListInv(n) /\ RunInv(n) /\ RowsInv(n) /\ \A t \in Tokens : Account(n, t)
      /\ RealmFacts /\ NotifierFacts(n) /\ \A t \in Tokens : CallbackFacts(n, t)
      /\ notifier \in [Notifiers -> NotifierRec(latest)]
      /\ callbacks \in [Notifiers -> [Tokens -> Change]]
      /\ heard \in [Notifiers -> [Tokens -> HeardRec(latest)]] /\ CallInv
  BY Facts DEF DInv, IInv, Types
<1>3. /\ callbacks'[n][gone] = NoCallback /\ heard'[n][gone] = NotHeard
      /\ \A t \in Tokens \ {gone} : callbacks'[n][t] = callbacks[n][t] /\ heard'[n][t] = heard[n][t]
      /\ \A m \in Notifiers \ {n} : callbacks'[m] = callbacks[m] /\ heard'[m] = heard[m]
  BY <1>1, <1>2
<1>4. Present(n)' = Present(n) \ {gone}
  BY <1>1, <1>2, <1>3 DEF Present, NoCallback
<1>5. /\ Cardinality(Present(n)') = k - 1 /\ k \in Nat /\ i \in Nat /\ i < k
      /\ \A t \in Present(n) \ {gone} :
           \/ IndexOf(n, t) < i /\ IndexOf(n, t)' = IndexOf(n, t)
           \/ i < IndexOf(n, t) /\ IndexOf(n, t)' = IndexOf(n, t) - 1
  <2>1. \A t : IndexOf(n, t)' = Below(Present(n)', t) /\ IndexOf(n, t) = Below(Present(n), t)
    BY DEF IndexOf, Below
  <2>2. Present(n) \in SUBSET Tokens /\ gone \in Present(n)
    BY <1>1, <1>2 DEF NotifierFacts
  <2>3. /\ Cardinality(Present(n) \ {gone}) = k - 1
        /\ \A t \in Present(n) \ {gone} :
             Below(Present(n) \ {gone}, t) = IF t < gone THEN Below(Present(n), t)
                                             ELSE Below(Present(n), t) - 1
    BY <2>2, BelowRemove
  <2>4. k \in Nat /\ i \in Nat /\ i < k
    BY <2>2, Indices
  <2>5. ASSUME NEW t \in Present(n) \ {gone}
        PROVE  \/ t < gone /\ IndexOf(n, t) < i
               \/ ~(t < gone) /\ i < IndexOf(n, t)
    <3>1. t \in Present(n) /\ t \in Nat /\ gone \in Nat /\ t # gone
      BY <2>2 DEF Tokens
    <3>2. t < gone => Below(Present(n), t) < Below(Present(n), gone)
      BY <2>2, <3>1, BelowLess
    <3>3. gone < t => Below(Present(n), gone) < Below(Present(n), t)
      BY <2>2, <3>1, BelowLess
    <3> QED
      BY <2>1, <3>1, <3>2, <3>3
  <2> QED
    BY <1>4, <2>1, <2>3, <2>4, <2>5
<1>6. /\ notifier'[n].list = f.list /\ notifier'[n].version = f.version
      /\ notifier'[n].hasRun = f.hasRun /\ notifier'[n].rowsAt = f.rowsAt
      /\ notifier'[n].change = f.change /\ notifier'[n].next = f.next
      /\ notifier'[n].haveCallbacks = (Present(n) # {gone})
      /\ notifier'[n].index = (IF f.index # npos /\ f.index >= i THEN Minus1(f.index) ELSE f.index)
      /\ notifier'[n].count = Minus1(f.count) /\ notifier'[n].alive = f.alive
      /\ \A m \in Notifiers \ {n} : notifier'[m] = notifier[m]
  <2>1. PICK j : j = IF f.index # npos /\ f.index >= i THEN Minus1(f.index) ELSE f.index
    OBVIOUS
  <2>2. PICK c : c = Minus1(f.count)
    OBVIOUS
  <2>3. PICK h : h = (Present(n) # {gone})
    OBVIOUS
  <2>4. notifier'[n] = [notifier[n] EXCEPT !.index = j, !.count = c, !.haveCallbacks = h]
        /\ \A m \in Notifiers \ {n} : notifier'[m] = notifier[m]
    BY <1>1, <1>2, <2>1, <2>2, <2>3
  <2>5. PICK g \in NotifierRec(latest) : g = notifier[n]
    BY <1>2
  <2>6. notifier'[n] = [g EXCEPT !.index = j, !.count = c, !.haveCallbacks = h]
    BY <2>4, <2>5
  <2>7. /\ notifier'[n].list = g.list /\ notifier'[n].version = g.version
        /\ notifier'[n].hasRun = g.hasRun /\ notifier'[n].rowsAt = g.rowsAt
        /\ notifier'[n].change = g.change /\ notifier'[n].next = g.next
        /\ notifier'[n].haveCallbacks = h /\ notifier'[n].index = j
        /\ notifier'[n].count = c /\ notifier'[n].alive = g.alive
    BY <2>6 DEF NotifierRec
  <2> QED
    BY <2>1, <2>2, <2>3, <2>4, <2>5, <2>7
<1>7. /\ (Live(n)' <=> Live(n)) /\ C' = C /\ Shown' = Shown /\ (Delivering' <=> Delivering)
      /\ Target' = Target /\ (InDelivery(n)' <=> InDelivery(n)) /\ (InPhase' <=> InPhase)
      /\ RanAt(n)' = RanAt(n)
  BY <1>1, <1>6 DEF Live, C, Shown, Delivering, Target, InDelivery, InPhase, RanAt
<1>8. /\ f.index \in Nat /\ f.index =< npos /\ f.count \in Nat /\ npos \in Nat
      /\ f.count =< npos
  <2>1. f.count =< npos
    BY <1>2 DEF NotifierFacts, NotifierRec
  <2> QED
    BY <1>2, <2>1 DEF NotifierFacts, RealmFacts
<1>9. \/ notifier'[n].index = npos /\ (f.index # npos => f.index = 0 /\ i = 0)
      \/ f.index # npos /\ f.index >= i /\ f.index # 0 /\ notifier'[n].index = f.index - 1
      \/ f.index # npos /\ f.index < i /\ notifier'[n].index = f.index
  <2>1. (f.index = 0 => Minus1(f.index) = npos) /\ (f.index # 0 => Minus1(f.index) = f.index - 1)
    BY <1>8, StepBack
  <2> HIDE DEF f, i
  <2> QED
    BY <1>5, <1>6, <1>8, <2>1
<1>10. InDelivery(n) => i < f.count /\ notifier'[n].count = f.count - 1
  <2> SUFFICES ASSUME InDelivery(n) PROVE i < f.count /\ notifier'[n].count = f.count - 1
    OBVIOUS
  <2>1. n \in Packaged
    BY <1>2 DEF InDelivery, Packaged, RealmFacts, C
  <2>2. i < f.count /\ f.count # 0
    BY <1>1, <1>5, <1>8, <2>1
  <2>3. Minus1(f.count) = f.count - 1
    BY <1>8, <2>2, StepBack
  <2> QED
    BY <1>6, <2>2, <2>3
<1>11. ListInv(n)'
  <2>1. ASSUME NEW t \in Tokens
        PROVE  /\ ~callbacks'[n][t].present => callbacks'[n][t] = NoCallback
               /\ ~callbacks'[n][t].initialDelivered => heard'[n][t].told = {}
               /\ callbacks'[n][t].present => t < notifier'[n].next
    BY <1>2, <1>3, <1>6 DEF ListInv, NoCallback, NotHeard
  <2>2. notifier'[n].haveCallbacks <=> Present(n)' # {}
    BY <1>1, <1>4, <1>6
  <2>3. notifier'[n].index # npos => notifier'[n].index < Cardinality(Present(n)') /\ C'.at = n
    <3>1. f.index # npos => f.index < k /\ C.at = n
      BY <1>2 DEF ListInv
    <3> HIDE DEF f, i, k
    <3> QED
      BY <1>5, <1>7, <1>8, <1>9, <3>1
  <2>4. InDelivery(n)' => notifier'[n].count =< Cardinality(Present(n)')
    <3>1. InDelivery(n) => f.count =< k
      BY <1>2 DEF ListInv
    <3> HIDE DEF f, i, k
    <3> QED
      BY <1>5, <1>7, <1>8, <1>10, <3>1
  <2> QED
    BY <2>1, <2>2, <2>3, <2>4 DEF ListInv
<1>12. RunInv(n)'
  <2>1. /\ notifier'[n].list = notifier[n].list /\ notifier'[n].alive = notifier[n].alive
        /\ notifier'[n].version = notifier[n].version
        /\ notifier'[n].hasRun = notifier[n].hasRun /\ notifier'[n].change = notifier[n].change
    BY <1>6
  <2>2. ASSUME NEW t \in Tokens, ~callbacks[n][t].initialDelivered
        PROVE  ~callbacks'[n][t].initialDelivered
    BY <1>3, <2>2 DEF NoCallback
  <2> QED
    BY <1>1, <1>2, <1>7, <2>1, <2>2 DEF RunInv
<1>13. RowsInv(n)'
  BY <1>1, <1>2, <1>4, <1>6, <1>7 DEF RowsInv
<1>14. ASSUME NEW t \in Tokens PROVE Account(n, t)'
  <2>1. Asked(n, t)'
    BY <1>1, <1>2, <1>3, <1>7 DEF Account, Asked, NotHeard
  <2>2. CASE ~callbacks'[n][t].present
    BY <2>1, <2>2 DEF Account, Kept, Left, Called, Skips, NextOnes, Hearing
  <2>3. CASE callbacks'[n][t].present
    <3>1. /\ t # gone /\ t \in Present(n) /\ callbacks[n][t].present
          /\ callbacks'[n][t] = callbacks[n][t] /\ heard'[n][t] = heard[n][t]
      BY <1>3, <2>3 DEF NoCallback, Present
    <3>2. \/ IndexOf(n, t) < i /\ IndexOf(n, t)' = IndexOf(n, t)
          \/ i < IndexOf(n, t) /\ IndexOf(n, t)' = IndexOf(n, t) - 1
      BY <1>5, <3>1
    <3>3. IndexOf(n, t) \in Nat
      BY Indices
    <3>4. (Hearing(n, t)' <=> Hearing(n, t)) /\ Account(n, t)
      BY <1>2, <3>1 DEF Hearing
    <3>5. Kept(n, t)' /\ Skips(n, t)' /\ NextOnes(n, t)'
      <4>1. notifier'[n].hasRun = notifier[n].hasRun
        BY <1>6
      <4>2. Kept(n, t)'
        BY <1>1, <1>7, <3>1, <3>4 DEF Account, Kept
      <4>3. Skips(n, t)'
        BY <1>1, <1>7, <3>1, <3>4, <4>1 DEF Account, Skips
      <4>4. NextOnes(n, t)'
        BY <1>1, <1>7, <3>1, <3>4 DEF Account, NextOnes
      <4> QED
        BY <4>2, <4>3, <4>4
    <3>6. InDelivery(n) => (IndexOf(n, t)' < notifier'[n].count <=> IndexOf(n, t) < f.count)
      <4> HIDE DEF f, i
      <4> QED
        BY <1>5, <1>8, <1>10, <3>2, <3>3
    <3>7. Left(n, t)'
      BY <1>1, <1>7, <3>1, <3>4, <3>6 DEF Account, Left
    <3>8. f.index = npos \/ f.index < IndexOf(n, t) =>
            notifier'[n].index = npos \/ notifier'[n].index < IndexOf(n, t)'
      <4> HIDE DEF f, i
      <4> QED
        BY <1>5, <1>8, <1>9, <3>2, <3>3
    <3>9. Called(n, t)'
      BY <1>7, <3>1, <3>4, <3>6, <3>8 DEF Account, Called
    <3> QED
      BY <2>1, <3>5, <3>7, <3>9 DEF Account
  <2> QED
    BY <2>2, <2>3
<1>15. Of(Here)' \subseteq Of(Here)
  <2>1. \A m \in Notifiers : Live(m)' <=> Live(m)
    BY <1>6 DEF Live
  <2> QED
    BY <2>1 DEF Of
<1> QED
  BY <1>1, <1>3, <1>6, <1>11, <1>12, <1>13, <1>14, <1>15, AppStays
------------------------------------------------------------------------------
(* A callback of a live notifier that had its initial call: the notifier    *)
(* has run, and reads the version the worker does.                          *)
LEMMA HearingRuns ==
  ASSUME IInv, NEW n \in Notifiers, NEW t \in Tokens, RunInv(n), Live(n),
         notifier[n].hasRun \/ Hearing(n, t)
  PROVE  /\ notifier[n].hasRun /\ notifier[n].list = "main" /\ notifier[n].alive
         /\ n \in In("main") /\ workerAt # 0 /\ notifier[n].version = workerAt
         /\ InPhase => n \in worker.old /\ n \notin worker.new
<1>1. notifier[n].hasRun
  BY DEF RunInv, Hearing
<1>2. notifier[n].list = "main" /\ notifier[n].alive
  BY <1>1 DEF RunInv, Live
<1>3. n \in In("main")
  BY <1>2 DEF In
<1>4. workerAt # 0
  BY <1>3 DEF IInv, Work, WorkerAssertions
<1> QED
  BY <1>1, <1>2, <1>3, <1>4 DEF RunInv

(* The versions the worker has before it.                                   *)
LEMMA AheadOfWorker ==
  ASSUME Instance, IInv
  PROVE  /\ workerAt =< latest /\ worker.to =< latest /\ worker.skip =< latest
         /\ skipVersion =< latest /\ Shown =< latest /\ C.to =< latest /\ Target =< latest
         /\ skipVersion # 0 => workerAt < skipVersion
         /\ worker.pc = "skipping" => workerAt < worker.skip /\ worker.skip =< worker.to
         /\ InPhase => workerAt =< worker.to /\ (skipVersion # 0 => worker.to < skipVersion)
         /\ InPhase => workerAt # 0
<1>1. RealmFacts
  BY FactsOfRealm
<1>2. /\ workerAt =< latest /\ skipVersion =< latest /\ worker \in WorkerRec(latest)
  BY <1>1 DEF IInv, Types, RealmFacts
<1>3. worker.to =< latest /\ worker.skip =< latest
  BY <1>1, <1>2 DEF WorkerRec, RealmFacts
<1>4. Shown =< latest /\ C.to =< latest /\ Target =< latest
  BY <1>1 DEF RealmFacts, Target
<1>5. skipVersion # 0 => workerAt < skipVersion
  BY DEF IInv, Work, WorkerAssertions
<1>6. worker.pc = "skipping" => workerAt < worker.skip /\ worker.skip =< worker.to
  BY DEF IInv, Work, WorkerAssertions
<1>7. InPhase => workerAt =< worker.to /\ (skipVersion # 0 => worker.to < skipVersion)
  BY DEF IInv, Work, During, InPhase
<1>8. InPhase => workerAt # 0
  BY DEF IInv, Work, During, InPhase, WorkerAssertions
<1> QED
  BY <1>2, <1>3, <1>4, <1>5, <1>6, <1>7, <1>8

(* Nothing is left of what is there when a write transaction has begun.     *)
LEMMA NothingLeft ==
  ASSUME Instance, IInv, NEW n \in Notifiers, NEW t \in Tokens, CallInv,
         Account(n, t), RunInv(n), Live(n), Hearing(n, t), InDelivery(n), writer = Here
  PROVE  workerAt = latest /\ callbacks[n][t].accumulated = {}
<1>1. RealmFacts /\ Delivering
  BY FactsOfRealm DEF InDelivery
<1>2. workerAt # 0 /\ workerAt =< latest
  BY HearingRuns, AheadOfWorker
<1>3. Target = latest /\ Target =< workerAt
  BY <1>1, <1>2 DEF CallInv
<1>4. workerAt = latest
  BY <1>1, <1>2, <1>3 DEF RealmFacts
<1>5. callbacks[n][t].accumulated = Between(Target, workerAt)
  BY DEF Account, Called, Left, Hearing
<1>6. Between(latest, latest) = {}
  BY <1>1 DEF Between, RealmFacts
<1> QED
  BY <1>3, <1>4, <1>5, <1>6

(* No notifier was ready.                                                   *)
LEMMA AloneStays ==
  ASSUME Instance, DInv, IInv', NEW r \in Realms, advanceAlone(r)
  PROVE  DInv'
<1>1. /\ UNCHANGED <<latest, writer, skipVersion, workerAt, notifier, callbacks, heard, worker>>
      /\ call[r].pc = "advancing"
      /\ version' = [version EXCEPT ![r] = latest] /\ call' = [call EXCEPT ![r] = Idle]
  BY DEF advanceAlone, fileVars, coordinatorVars
<1>2. /\ RealmFacts /\ r = Here /\ CallInv /\ TodoInv
      /\ \A n \in Notifiers : ListInv(n) /\ RunInv(n) /\ RowsInv(n)
      /\ \A n \in Notifiers, t \in Tokens : Account(n, t) /\ CallbackFacts(n, t)
      /\ call \in [Realms -> CallRec(latest)] /\ version \in [Realms -> 1 .. latest]
  BY Facts DEF DInv, RealmFacts, IInv, Types
<1>3. /\ C.pc = "advancing" /\ C' = Idle /\ Shown' = latest /\ Shown =< latest
      /\ workerAt =< latest
  BY <1>1, <1>2, AheadOfWorker DEF C, Shown, DInv
<1>4. ~Delivering /\ ~Delivering' /\ C.at = None
  BY <1>2, <1>3 DEF Delivering, CallInv, Idle
<1>5. \A n : /\ Live(n)' <=> Live(n)
             /\ Present(n)' = Present(n) /\ \A t : IndexOf(n, t)' = IndexOf(n, t)
             /\ ~InDelivery(n) /\ ~InDelivery(n)'
  BY <1>1, <1>4 DEF Live, Present, IndexOf, InDelivery
<1>6. CallInv' /\ TodoInv'
  BY <1>1, <1>2, <1>3, <1>4 DEF CallInv, TodoInv, Idle
<1>7. ASSUME NEW n \in Notifiers PROVE ListInv(n)' /\ RunInv(n)' /\ RowsInv(n)'
  <2>1. notifier[n].index = npos
    BY <1>2, <1>4 DEF ListInv, RealmFacts
  <2> QED
    BY <1>1, <1>2, <1>5, <2>1, NotifierStays
<1>8. ASSUME NEW n \in Notifiers, NEW t \in Tokens PROVE Account(n, t)'
  <2>1. ~(Live(n) /\ Hearing(n, t))
    BY <1>2, <1>3 DEF Account, NextOnes
  <2>2. ~(Live(n)' /\ Hearing(n, t)')
    BY <1>1, <1>5, <2>1 DEF Hearing
  <2>3. Asked(n, t)'
    <3>1. \A v \in heard[n][t].asked : v \in Nat /\ v =< Shown
      BY <1>2 DEF Account, Asked, CallbackFacts
    <3>2. \A v \in heard[n][t].asked : v =< latest
      BY <1>2, <1>3, <3>1 DEF RealmFacts
    <3> QED
      BY <1>1, <1>3, <3>2 DEF Asked
  <2>4. Skips(n, t)'
    <3>1. Shown =< Shown'
      BY <1>3
    <3>2. workerAt < Shown => workerAt < Shown'
      BY <1>2, <1>3 DEF RealmFacts
    <3> QED
      BY <1>1, <1>2, <1>5, <2>1, <3>2 DEF Account, Skips, Hearing
  <2> QED
    BY <1>5, <2>2, <2>3, <2>4 DEF Account, Kept, Left, Called, NextOnes
<1> QED
  BY <1>6, <1>7, <1>8 DEF DInv

(* All have been called: before the advance, and after it.                  *)
LEMMA AdvancesStay ==
  ASSUME Instance, DInv, IInv', NEW r \in Realms, delivered(r), call[r].kind = "before"
  PROVE  DInv'
<1>1. /\ UNCHANGED <<latest, writer, skipVersion, workerAt, notifier, callbacks, heard, worker>>
      /\ call[r].pc = "calling" /\ call[r].todo = {}
      /\ version' = [version EXCEPT ![r] = IF writer = r THEN latest ELSE call[r].to]
      /\ call' = [call EXCEPT ![r] = Deliver("after", call[r].package, 0)]
  BY DEF delivered, fileVars, coordinatorVars
<1>2. /\ RealmFacts /\ r = Here /\ CallInv /\ TodoInv
      /\ \A n \in Notifiers : ListInv(n) /\ RunInv(n) /\ RowsInv(n)
      /\ \A n \in Notifiers, t \in Tokens : Account(n, t) /\ CallbackFacts(n, t)
      /\ call \in [Realms -> CallRec(latest)] /\ version \in [Realms -> 1 .. latest]
  BY Facts DEF DInv, RealmFacts, IInv, Types
<1>3. /\ C.pc = "calling" /\ C.todo = {} /\ C.kind = "before"
      /\ C' = Deliver("after", C.package, 0)
      /\ Shown' = (IF writer = Here THEN latest ELSE C.to)
  BY <1>1, <1>2 DEF C, Shown
<1>4. /\ C'.pc = "calling" /\ C'.kind = "after" /\ C'.package = C.package
      /\ C'.todo = C.package /\ C'.at = None
  BY <1>3 DEF Deliver, Idle
<1>5. /\ Delivering /\ Delivering' /\ C.at = None
      /\ \A n : InDelivery(n)' <=> InDelivery(n)
  BY <1>2, <1>3, <1>4 DEF Delivering, InDelivery, CallInv
<1>6. Target = Shown' /\ Target' = Shown' /\ Shown =< Shown'
  <2>1. Target = C.to /\ Shown =< Target /\ (writer = Here => Target = latest)
    BY <1>2, <1>3, <1>5 DEF Target, CallInv
  <2> QED
    BY <1>3, <1>4, <2>1 DEF Target
<1>7. Shown \in Nat /\ Shown' \in Nat /\ workerAt \in Nat /\ (workerAt # 0 => Shown' =< workerAt)
  BY <1>2, <1>5, <1>6 DEF RealmFacts, CallInv
<1>8. \A n : /\ Live(n)' <=> Live(n)
             /\ Present(n)' = Present(n) /\ \A t : IndexOf(n, t)' = IndexOf(n, t)
  BY <1>1 DEF Live, Present, IndexOf
<1>9. CallInv' /\ TodoInv'
  BY <1>1, <1>2, <1>4, <1>5, <1>6, <1>7 DEF CallInv, TodoInv
<1>10. ASSUME NEW n \in Notifiers
       PROVE  ListInv(n)' /\ RunInv(n)' /\ RowsInv(n)' /\ notifier[n].index = npos
  <2>1. notifier[n].index = npos
    BY <1>2, <1>5 DEF ListInv, RealmFacts
  <2> QED
    BY <1>1, <1>2, <1>5, <2>1, NotifierStays
<1>11. ASSUME NEW n \in Notifiers, NEW t \in Tokens PROVE Account(n, t)'
  <2>1. Account(n, t) /\ (Hearing(n, t)' <=> Hearing(n, t)) /\ CallbackFacts(n, t)
    BY <1>1, <1>2 DEF Hearing
  <2>2. Asked(n, t)'
    <3>1. \A v \in heard[n][t].asked : v \in Nat /\ v =< Shown
      BY <2>1 DEF Account, Asked, CallbackFacts
    <3>2. \A v \in heard[n][t].asked : v =< Shown'
      BY <1>6, <1>7, <3>1
    <3> QED
      BY <1>1, <3>2 DEF Asked
  <2>3. Live(n) /\ Hearing(n, t) => workerAt # 0 /\ Shown' =< workerAt
    BY <1>2, <1>7, HearingRuns DEF DInv
  <2>4. Kept(n, t)'
    BY <1>1, <1>5, <1>8, <2>1, <2>3 DEF Account, Kept
  <2>5. Left(n, t)'
    BY <1>1, <1>5, <1>6, <1>8, <2>1 DEF Account, Left
  <2>6. Called(n, t)'
    <3>1. InDelivery(n)' => n \in C'.todo /\ notifier'[n].index = npos
      BY <1>1, <1>4, <1>10 DEF InDelivery
    <3> QED
      BY <1>1, <1>5, <1>6, <1>8, <2>1, <3>1 DEF Account, Called
  <2>7. Skips(n, t)'
    <3>1. workerAt < Shown => workerAt < Shown'
      BY <1>6, <1>7
    <3> QED
      BY <1>1, <1>8, <2>1, <3>1 DEF Account, Skips
  <2>8. NextOnes(n, t)'
    <3>1. Live(n) /\ Hearing(n, t) =>
            /\ skipVersion # 0 => Shown' =< skipVersion
            /\ worker.pc = "skipping" => Shown' =< worker.skip
            /\ worker.pc = "running" /\ workerAt < worker.to => Shown' =< worker.to
      <4>1. /\ skipVersion # 0 => workerAt < skipVersion
            /\ worker.pc = "skipping" => workerAt < worker.skip
        BY AheadOfWorker DEF DInv
      <4>2. skipVersion \in Nat /\ worker.skip \in Nat /\ worker.to \in Nat
        BY <1>2 DEF RealmFacts
      <4> QED
        BY <1>7, <2>3, <4>1, <4>2
    <3>2. Live(n) /\ Hearing(n, t) /\ writer = Here => n \in C.package
      BY <1>5, <2>1 DEF Account, NextOnes
    <3> QED
      BY <1>1, <1>4, <1>8, <2>1, <3>1, <3>2 DEF NextOnes
  <2> QED
    BY <2>2, <2>4, <2>5, <2>6, <2>7, <2>8 DEF Account
<1> QED
  BY <1>9, <1>10, <1>11 DEF DInv

LEMMA EndsStay ==
  ASSUME Instance, DInv, IInv', NEW r \in Realms, delivered(r), call[r].kind # "before"
  PROVE  DInv'
<1>1. /\ UNCHANGED <<latest, writer, version, skipVersion, workerAt, notifier, callbacks, heard, worker>>
      /\ call[r].pc = "calling" /\ call[r].todo = {}
      /\ call' = [call EXCEPT ![r] = Idle]
  BY DEF delivered, fileVars, coordinatorVars
<1>2. /\ RealmFacts /\ r = Here /\ CallInv /\ TodoInv
      /\ \A n \in Notifiers : ListInv(n) /\ RunInv(n) /\ RowsInv(n)
      /\ \A n \in Notifiers, t \in Tokens : Account(n, t) /\ CallbackFacts(n, t)
      /\ call \in [Realms -> CallRec(latest)]
  BY Facts DEF DInv, RealmFacts, IInv, Types
<1>3. /\ C.pc = "calling" /\ C.todo = {} /\ C.kind = "after" /\ C' = Idle /\ Shown' = Shown
  BY <1>1, <1>2 DEF C, Shown, CallInv, Delivering
<1>4. /\ Delivering /\ ~Delivering' /\ C.at = None /\ Target = Shown
      /\ C'.pc = "idle" /\ C'.todo = {} /\ C'.at = None /\ C'.package = {}
      /\ \A n : ~InDelivery(n)'
  BY <1>2, <1>3 DEF Delivering, InDelivery, CallInv, Idle, Target
<1>5. \A n : /\ Live(n)' <=> Live(n)
             /\ Present(n)' = Present(n) /\ \A t : IndexOf(n, t)' = IndexOf(n, t)
  BY <1>1 DEF Live, Present, IndexOf
<1>6. CallInv' /\ TodoInv'
  BY <1>1, <1>2, <1>3, <1>4 DEF CallInv, TodoInv
<1>7. ASSUME NEW n \in Notifiers PROVE ListInv(n)' /\ RunInv(n)' /\ RowsInv(n)'
  <2>1. notifier[n].index = npos
    BY <1>2, <1>4 DEF ListInv, RealmFacts
  <2> QED
    BY <1>1, <1>2, <1>4, <2>1, NotifierStays
<1>8. ASSUME NEW n \in Notifiers, NEW t \in Tokens PROVE Account(n, t)'
  <2>1. Account(n, t) /\ (Hearing(n, t)' <=> Hearing(n, t))
    BY <1>1, <1>2 DEF Hearing
  <2>2. Live(n) /\ Hearing(n, t) => callbacks[n][t].toDeliver = {}
    BY <1>3, <2>1 DEF Account, Kept, Called
  <2>3. Kept(n, t)'
    BY <1>1, <1>3, <1>5, <2>1, <2>2 DEF Account, Kept
  <2>4. NextOnes(n, t)'
    <3>1. Live(n) /\ Hearing(n, t) /\ writer = Here =>
            workerAt = latest /\ callbacks[n][t].accumulated = {}
      <4> SUFFICES ASSUME Live(n), Hearing(n, t), writer = Here
                   PROVE  workerAt = latest /\ callbacks[n][t].accumulated = {}
        OBVIOUS
      <4>1. InDelivery(n)
        BY <1>4, <2>1 DEF Account, NextOnes, InDelivery
      <4> QED
        BY <1>2, <2>1, <4>1, NothingLeft DEF DInv
    <3> QED
      BY <1>1, <1>3, <1>4, <1>5, <2>1, <3>1 DEF Account, NextOnes
  <2>5. Asked(n, t)' /\ Skips(n, t)'
    BY <1>1, <1>3, <1>5, <2>1 DEF Account, Asked, Skips
  <2> QED
    BY <1>4, <2>3, <2>4, <2>5 DEF Account, Left, Called
<1> QED
  BY <1>6, <1>7, <1>8 DEF DInv
------------------------------------------------------------------------------
(* What package_and_wait packages: of live notifiers, at the worker's       *)
(* version.                                                                 *)
LEMMA Packages ==
  ASSUME Instance, DInv, C.pc \in {"packaging", "waiting"}, NEW n \in ToPackage(Here)
  PROVE  /\ n \in Notifiers /\ n \in C.package /\ Live(n) /\ notifier[n].hasRun
         /\ notifier[n].version = workerAt /\ workerAt # 0
         /\ C.kind = "available" => workerAt = Shown
<1>1. RealmFacts /\ \A m \in Notifiers : RunInv(m)
  BY FactsOfRealm DEF DInv
<1>2. /\ n \in C.package /\ notifier[n].hasRun /\ notifier[n].alive
      /\ C.kind = "available" => notifier[n].version = Shown
  BY DEF ToPackage, C, Shown
<1>3. n \in Notifiers
  BY <1>1, <1>2 DEF RealmFacts
<1>4. Live(n)
  BY <1>1, <1>2, <1>3 DEF RunInv, Live
<1>5. notifier[n].version = workerAt /\ workerAt # 0
  <2>1. notifier[n].list = "main"
    BY <1>1, <1>2, <1>3, <1>4 DEF RunInv, Live
  <2>2. n \in In("main")
    BY <1>3, <2>1 DEF In
  <2> QED
    BY <1>1, <1>2, <1>3, <2>1, <2>2 DEF RunInv, DInv, IInv, Work, WorkerAssertions
<1> QED
  BY <1>2, <1>3, <1>4, <1>5

(* Whoever hears is packaged, unless only the version it shows is wanted.   *)
LEMMA HearersArePackaged ==
  ASSUME Instance, DInv, C.pc \in {"packaging", "waiting"}, C.kind # "available",
         NEW n \in Notifiers, NEW t \in Tokens, Live(n), Hearing(n, t)
  PROVE  n \in ToPackage(Here)
<1>1. RealmFacts /\ CallInv /\ RunInv(n)
  BY FactsOfRealm DEF DInv
<1>2. n \in C.package
  BY <1>1 DEF RealmFacts, CallInv
<1>3. notifier[n].hasRun /\ notifier[n].alive
  BY <1>1 DEF RunInv, Hearing, Live
<1> QED
  BY <1>2, <1>3 DEF ToPackage, C

(* The callbacks and the notifiers after it.                                *)
LEMMA AfterPackaging ==
  ASSUME Instance, IInv, NEW P \in SUBSET Notifiers, packageForDelivery(P), NEW n \in Notifiers
  PROVE  /\ notifier'[n].list = notifier[n].list /\ notifier'[n].alive = notifier[n].alive
         /\ notifier'[n].version = notifier[n].version /\ notifier'[n].hasRun = notifier[n].hasRun
         /\ notifier'[n].rowsAt = notifier[n].rowsAt /\ notifier'[n].change = notifier[n].change
         /\ notifier'[n].haveCallbacks = notifier[n].haveCallbacks
         /\ notifier'[n].next = notifier[n].next /\ notifier'[n].index = notifier[n].index
         /\ notifier'[n].count = (IF n \in P THEN Cardinality(Present(n)) ELSE notifier[n].count)
         /\ \A t \in Tokens :
              LET c == callbacks[n][t]
                  d == callbacks'[n][t]
              IN /\ d.present = c.present /\ d.initialDelivered = c.initialDelivered
                 /\ d.skipNext = c.skipNext
                 /\ n \notin P => d = c
                 /\ n \in P => d.toDeliver = c.accumulated /\ d.accumulated = {}
                 /\ c = NoCallback => d = NoCallback
         /\ Present(n)' = Present(n) /\ \A t : IndexOf(n, t)' = IndexOf(n, t)
         /\ Live(n)' <=> Live(n)
<1>1. /\ notifier \in [Notifiers -> NotifierRec(latest)]
      /\ callbacks \in [Notifiers -> [Tokens -> Change]]
  BY DEF IInv, Types
<1>2. /\ notifier'[n].list = notifier[n].list /\ notifier'[n].alive = notifier[n].alive
      /\ notifier'[n].version = notifier[n].version /\ notifier'[n].hasRun = notifier[n].hasRun
      /\ notifier'[n].rowsAt = notifier[n].rowsAt /\ notifier'[n].change = notifier[n].change
      /\ notifier'[n].haveCallbacks = notifier[n].haveCallbacks
      /\ notifier'[n].next = notifier[n].next /\ notifier'[n].index = notifier[n].index
      /\ notifier'[n].count = (IF n \in P THEN Cardinality(Present(n)) ELSE notifier[n].count)
  <2>1. CASE n \notin P
    BY <2>1 DEF packageForDelivery
  <2>2. CASE n \in P
    <3>1. PICK f \in NotifierRec(latest) : f = notifier[n]
      BY <1>1
    <3>2. PICK k : k = Cardinality(Present(n))
      OBVIOUS
    <3>3. notifier'[n] = [f EXCEPT !.count = k]
      BY <2>2, <3>1, <3>2 DEF packageForDelivery
    <3>4. /\ notifier'[n].list = f.list /\ notifier'[n].alive = f.alive
          /\ notifier'[n].version = f.version /\ notifier'[n].hasRun = f.hasRun
          /\ notifier'[n].rowsAt = f.rowsAt /\ notifier'[n].change = f.change
          /\ notifier'[n].haveCallbacks = f.haveCallbacks
          /\ notifier'[n].next = f.next /\ notifier'[n].index = f.index
          /\ notifier'[n].count = k
      BY <3>3 DEF NotifierRec
    <3> QED
      BY <2>2, <3>1, <3>2, <3>4
  <2> QED
    BY <2>1, <2>2
<1>3. ASSUME NEW t \in Tokens
      PROVE  LET c == callbacks[n][t]
                 d == callbacks'[n][t]
             IN /\ d.present = c.present /\ d.initialDelivered = c.initialDelivered
                /\ d.skipNext = c.skipNext
                /\ n \notin P => d = c
                /\ n \in P => d.toDeliver = c.accumulated /\ d.accumulated = {}
                /\ c = NoCallback => d = NoCallback
  <2>1. CASE n \notin P
    <3>1. callbacks'[n][t] = callbacks[n][t]
      BY <2>1 DEF packageForDelivery
    <3> QED
      BY <2>1, <3>1
  <2>2. CASE n \in P
    <3>1. PICK c \in Change : c = callbacks[n][t]
      BY <1>1
    <3>2. callbacks'[n][t] = [c EXCEPT !.toDeliver = c.accumulated, !.accumulated = {}]
      BY <2>2, <3>1 DEF packageForDelivery
    <3>3. /\ callbacks'[n][t].present = c.present
          /\ callbacks'[n][t].initialDelivered = c.initialDelivered
          /\ callbacks'[n][t].skipNext = c.skipNext
          /\ callbacks'[n][t].toDeliver = c.accumulated /\ callbacks'[n][t].accumulated = {}
      BY <3>2 DEF Change
    <3>4. c = NoCallback => callbacks'[n][t] = NoCallback
      <4>1. /\ NoCallback.accumulated = {}
            /\ [NoCallback EXCEPT !.toDeliver = {}, !.accumulated = {}] = NoCallback
        <5>1. NoCallback \in Change /\ NoCallback.accumulated = {} /\ NoCallback.toDeliver = {}
          BY DEF NoCallback, Change
        <5>2. \A d \in Change : d.toDeliver = {} /\ d.accumulated = {} =>
                [d EXCEPT !.toDeliver = {}, !.accumulated = {}] = d
          BY DEF Change
        <5> QED
          BY <5>1, <5>2
      <4> QED
        BY <3>2, <4>1
    <3> QED
      BY <2>2, <3>1, <3>3, <3>4
  <2> QED
    BY <2>1, <2>2
<1>4. Present(n)' = Present(n)
  BY <1>3 DEF Present
<1>5. \A t : IndexOf(n, t)' = IndexOf(n, t)
  BY <1>4 DEF IndexOf
<1>6. Live(n)' <=> Live(n)
  BY <1>2 DEF Live
<1> QED
  BY <1>2, <1>3, <1>4, <1>5, <1>6

(* What comes out of it: nothing, an advance alone, or a delivery.          *)
Nothing == C' = Idle /\ C.kind # "write"
Alone == C' = [Idle EXCEPT !.pc = "advancing"] /\ C.kind # "available"
Delivery(P) ==
  /\ P # {} /\ Shown =< workerAt
  /\ \/ C' = Deliver("after", P, 0) /\ Shown = workerAt
     \/ C' = Deliver("before", P, workerAt)
  /\ writer = Here => workerAt = latest /\ C.kind # "available"

LEMMA Outcomes ==
  ASSUME Instance, DInv, packageAndWait(Here)
  PROVE  \/ Nothing /\ (ToPackage(Here) = {} \/ workerAt < Shown)
         \/ Alone /\ \A n \in Notifiers, t \in Tokens : ~(Live(n) /\ Hearing(n, t))
         \/ Delivery(ToPackage(Here))
<1> DEFINE P == ToPackage(Here)
           v == IF P = {} THEN 0 ELSE notifier[CHOOSE n \in P : TRUE].version
<1>1. /\ C.pc \in {"packaging", "waiting"} /\ IsReady(Here)
      /\ call' = [call EXCEPT ![Here] =
           IF C.kind = "available"
           THEN IF P = {} THEN Idle ELSE Deliver("after", P, 0)
           ELSE IF P = {} \/ (C.kind # "ready" /\ v < C.to)
           THEN [Idle EXCEPT !.pc = "advancing"]
           ELSE IF C.kind = "ready" /\ v < Shown THEN Idle
           ELSE IF v = Shown /\ C.kind # "latest" THEN Deliver("after", P, 0)
           ELSE Deliver("before", P, v)]
  BY Zenon DEF packageAndWait, C, Shown
<1>2. /\ RealmFacts /\ CallInv /\ call \in [Realms -> CallRec(latest)]
      /\ \A n \in Notifiers : ListInv(n) /\ RunInv(n)
  BY FactsOfRealm DEF DInv, IInv, Types
<1>3. \A n \in P : /\ n \in Notifiers /\ Live(n) /\ notifier[n].version = workerAt
                   /\ C.kind = "available" => workerAt = Shown
  BY <1>1, Packages
<1>4. P # {} => v = workerAt /\ (C.kind = "available" => workerAt = Shown)
  <2> SUFFICES ASSUME P # {}
               PROVE  v = workerAt /\ (C.kind = "available" => workerAt = Shown)
    OBVIOUS
  <2>1. PICK n \in P : n = CHOOSE m \in P : TRUE
    OBVIOUS
  <2>2. v = notifier[n].version
    BY <2>1
  <2> QED
    BY <1>3, <2>1, <2>2
<1>5. C' = IF C.kind = "available"
           THEN IF P = {} THEN Idle ELSE Deliver("after", P, 0)
           ELSE IF P = {} \/ (C.kind # "ready" /\ v < C.to)
           THEN [Idle EXCEPT !.pc = "advancing"]
           ELSE IF C.kind = "ready" /\ v < Shown THEN Idle
           ELSE IF v = Shown /\ C.kind # "latest" THEN Deliver("after", P, 0)
           ELSE Deliver("before", P, v)
  BY <1>1, <1>2, Zenon DEF C, RealmFacts
<1>6. /\ C.kind \in {"available", "ready", "latest", "write"}
      /\ C.kind \in {"latest", "write"} => Shown =< C.to
      /\ writer = Here => C.kind = "write" /\ C.to = latest
      /\ Shown \in Nat /\ C.to \in Nat /\ workerAt \in Nat /\ latest \in Nat /\ workerAt =< latest
  BY <1>1, <1>2, AheadOfWorker DEF CallInv, RealmFacts, DInv
<1>7. P = {} \/ (C.kind # "ready" /\ v < C.to) => C.kind = "available" \/
        \A n \in Notifiers, t \in Tokens : ~(Live(n) /\ Hearing(n, t))
  <2> SUFFICES ASSUME P = {} \/ (C.kind # "ready" /\ v < C.to), C.kind # "available",
                      NEW n \in Notifiers, NEW t \in Tokens, Live(n), Hearing(n, t)
               PROVE  FALSE
    OBVIOUS
  <2>1. n \in P
    BY <1>1, HearersArePackaged
  <2>2. C.kind # "ready" /\ v < C.to /\ v = workerAt
    BY <1>4, <2>1
  <2>3. n \in C.package /\ notifier[n].version = workerAt
    BY <1>1, <2>1, Packages
  <2>4. notifier[n].haveCallbacks
    BY <1>2 DEF ListInv, Present, Hearing
  <2>5. notifier[n].version >= C.to
    BY <1>1, <2>2, <2>3, <2>4 DEF IsReady, C
  <2> QED
    BY <1>6, <2>2, <2>3, <2>5
<1> HIDE DEF P, v
<1>8. CASE C.kind = "available" /\ P = {}
  BY <1>5, <1>8 DEF Nothing, P
<1>9. CASE C.kind = "available" /\ P # {}
  <2>1. C' = Deliver("after", P, 0) /\ workerAt = Shown /\ writer # Here
    BY <1>4, <1>5, <1>6, <1>9
  <2> QED
    BY <1>6, <1>9, <2>1 DEF Delivery, P
<1>10. CASE C.kind # "available" /\ (P = {} \/ (C.kind # "ready" /\ v < C.to))
  BY <1>5, <1>7, <1>10 DEF Alone
<1>11. CASE C.kind # "available" /\ ~(P = {} \/ (C.kind # "ready" /\ v < C.to))
  <2>1. P # {} /\ v = workerAt /\ (C.kind # "ready" => C.to =< workerAt)
    BY <1>4, <1>6, <1>11
  <2>2. CASE C.kind = "ready" /\ v < Shown
    <3>1. C' = Idle
      BY <1>5, <1>11, <2>2
    <3> QED
      BY <2>1, <2>2, <3>1 DEF Nothing
  <2>3. CASE ~(C.kind = "ready" /\ v < Shown)
    <3>1. \/ C' = Deliver("after", P, 0) /\ workerAt = Shown
          \/ C' = Deliver("before", P, workerAt)
      BY <1>5, <1>11, <2>1, <2>3
    <3>2. Shown =< workerAt
      BY <1>6, <1>11, <2>1, <2>3
    <3>3. writer = Here => workerAt = latest
      BY <1>6, <2>1
    <3> QED
      BY <1>11, <2>1, <3>1, <3>2, <3>3 DEF Delivery, P
  <2> QED
    BY <2>2, <2>3
<1> QED
  BY <1>8, <1>9, <1>10, <1>11

LEMMA PackageStays ==
  ASSUME Instance, DInv, IInv', NEW r \in Realms, packageAndWait(r)
  PROVE  DInv'
<1> DEFINE P == ToPackage(Here)
<1>1. /\ UNCHANGED <<latest, writer, version, skipVersion, workerAt, heard, worker>>
      /\ packageForDelivery(ToPackage(r)) /\ call[r].pc \in {"packaging", "waiting"}
  BY DEF packageAndWait, fileVars, coordinatorVars
<1>2. /\ RealmFacts /\ r = Here /\ CallInv /\ TodoInv
      /\ \A n \in Notifiers : ListInv(n) /\ RunInv(n) /\ RowsInv(n)
      /\ \A n \in Notifiers, t \in Tokens : Account(n, t) /\ CallbackFacts(n, t)
  BY Facts DEF DInv, RealmFacts
<1>3. C.pc \in {"packaging", "waiting"} /\ packageForDelivery(P) /\ Shown' = Shown
  BY <1>1, <1>2 DEF C, Shown
<1>4. \A n \in P : /\ n \in Notifiers /\ n \in C.package /\ Live(n) /\ notifier[n].hasRun
                   /\ notifier[n].version = workerAt /\ workerAt # 0
  BY <1>3, Packages
<1>5. PICK Q \in SUBSET Notifiers : Q = P /\ packageForDelivery(Q)
  BY <1>3, <1>4
<1> HIDE DEF P
<1>6. ~Delivering /\ C.at = None
  BY <1>2, <1>3 DEF Delivering, CallInv
<1>7. \/ Nothing /\ (Q = {} \/ workerAt < Shown)
      \/ Alone /\ \A n \in Notifiers, t \in Tokens : ~(Live(n) /\ Hearing(n, t))
      \/ Delivery(Q)
  BY <1>2, <1>5, Outcomes DEF P
<1>8. /\ Nothing => C'.pc = "idle" /\ C'.todo = {} /\ C'.at = None
      /\ Alone => C'.pc = "advancing" /\ C'.todo = {} /\ C'.at = None
      /\ Delivery(Q) =>
           /\ C'.pc = "calling" /\ C'.package = Q /\ C'.todo = Q /\ C'.at = None
           /\ C'.kind \in {"before", "after"} /\ Target' = workerAt
           /\ Q # {} /\ Shown =< workerAt
           /\ writer = Here => workerAt = latest /\ C.kind # "available"
  <2>1. Nothing => C'.pc = "idle" /\ C'.todo = {} /\ C'.at = None
    <3>1. Idle.pc = "idle" /\ Idle.todo = {} /\ Idle.at = None
      BY DEF Idle
    <3> QED
      BY <3>1 DEF Nothing
  <2>2. Alone => C'.pc = "advancing" /\ C'.todo = {} /\ C'.at = None
    BY DEF Alone, Idle
  <2>3. ASSUME Delivery(Q)
        PROVE  /\ C'.pc = "calling" /\ C'.package = Q /\ C'.todo = Q /\ C'.at = None
               /\ C'.kind \in {"before", "after"} /\ Target' = workerAt
               /\ Q # {} /\ Shown =< workerAt
               /\ writer = Here => workerAt = latest /\ C.kind # "available"
    <3>1. \A k, to : LET d == Deliver(k, Q, to)
                     IN /\ d.pc = "calling" /\ d.package = Q /\ d.todo = Q /\ d.at = None
                        /\ d.kind = k /\ d.to = to
      BY DEF Deliver, Idle
    <3>2. CASE C' = Deliver("after", Q, 0) /\ Shown = workerAt
      <4>1. C'.kind = "after" /\ Target' = workerAt
        BY <1>3, <3>1, <3>2 DEF Target
      <4> QED
        BY <2>3, <3>1, <3>2, <4>1 DEF Delivery
    <3>3. CASE C' = Deliver("before", Q, workerAt)
      <4>1. C'.kind = "before" /\ Target' = workerAt
        BY <1>3, <3>1, <3>3 DEF Target
      <4> QED
        BY <2>3, <3>1, <3>3, <4>1 DEF Delivery
    <3> QED
      BY <2>3, <3>2, <3>3 DEF Delivery
  <2> QED
    BY <2>1, <2>2, <2>3
<1>9. /\ Delivering' => Delivery(Q)
      /\ Delivery(Q) => Delivering'
      /\ \A n : ~InDelivery(n) /\ (InDelivery(n)' <=> Delivery(Q) /\ n \in Q)
  BY <1>6, <1>7, <1>8 DEF Delivering, InDelivery
<1>10. CallInv'
  <2>1. Nothing => writer # Here
    BY <1>2, <1>3 DEF CallInv, Nothing
  <2>2. \A n \in Q : notifier'[n].hasRun
    BY <1>4, <1>5, AfterPackaging DEF DInv
  <2>3. workerAt \in Nat /\ Shown \in Nat /\ latest \in Nat
    BY <1>2 DEF RealmFacts
  <2>4. CASE Nothing
    <3>1. ~Delivering'
      BY <1>8, <2>4 DEF Delivering
    <3> QED
      BY <1>1, <1>8, <2>1, <2>4, <3>1 DEF CallInv
  <2>5. CASE Alone
    <3>1. ~Delivering'
      BY <1>8, <2>5 DEF Delivering
    <3> QED
      BY <1>8, <2>5, <3>1 DEF CallInv
  <2>6. CASE Delivery(Q)
    BY <1>1, <1>3, <1>8, <1>9, <2>2, <2>3, <2>6 DEF CallInv
  <2> QED
    BY <1>7, <2>4, <2>5, <2>6
<1>11. TodoInv'
  BY <1>1, <1>2 DEF TodoInv
<1>12. ASSUME NEW n \in Notifiers PROVE ListInv(n)' /\ RunInv(n)' /\ RowsInv(n)'
  <2>1. /\ notifier'[n].list = notifier[n].list /\ notifier'[n].alive = notifier[n].alive
        /\ notifier'[n].version = notifier[n].version /\ notifier'[n].hasRun = notifier[n].hasRun
        /\ notifier'[n].rowsAt = notifier[n].rowsAt /\ notifier'[n].change = notifier[n].change
        /\ notifier'[n].haveCallbacks = notifier[n].haveCallbacks
        /\ notifier'[n].next = notifier[n].next /\ notifier'[n].index = notifier[n].index
        /\ n \in Q => notifier'[n].count = Cardinality(Present(n))
        /\ Present(n)' = Present(n) /\ (Live(n)' <=> Live(n))
    BY <1>5, AfterPackaging DEF DInv
  <2>2. \A t \in Tokens :
          /\ callbacks'[n][t].present = callbacks[n][t].present
          /\ callbacks'[n][t].initialDelivered = callbacks[n][t].initialDelivered
          /\ callbacks[n][t] = NoCallback => callbacks'[n][t] = NoCallback
    BY <1>5, AfterPackaging DEF DInv
  <2>3. notifier[n].index = npos
    BY <1>2, <1>6 DEF ListInv, RealmFacts
  <2>4. ListInv(n)'
    <3>1. InDelivery(n)' => notifier'[n].count =< Cardinality(Present(n)')
      <4>1. Cardinality(Present(n)) =< Cardinality(Present(n))
        BY Indices
      <4> QED
        BY <1>9, <2>1, <4>1
    <3> QED
      BY <1>1, <1>2, <2>1, <2>2, <2>3, <3>1 DEF ListInv
  <2>5. (InPhase' <=> InPhase) /\ RanAt(n)' = RanAt(n)
    BY <1>1 DEF InPhase, RanAt
  <2>6. RunInv(n)'
    BY <1>1, <1>2, <2>1, <2>2, <2>5 DEF RunInv
  <2>7. RowsInv(n)'
    BY <1>1, <1>2, <2>1, <2>5 DEF RowsInv
  <2> QED
    BY <2>4, <2>6, <2>7
<1>13. ASSUME NEW n \in Notifiers, NEW t \in Tokens PROVE Account(n, t)'
  <2> DEFINE c == callbacks[n][t]
             d == callbacks'[n][t]
             h == heard[n][t]
  <2>1. /\ d.present = c.present /\ d.initialDelivered = c.initialDelivered
        /\ d.skipNext = c.skipNext
        /\ n \notin Q => d = c
        /\ n \in Q => d.toDeliver = c.accumulated /\ d.accumulated = {}
    BY <1>5, AfterPackaging DEF DInv
  <2>2. /\ IndexOf(n, t)' = IndexOf(n, t) /\ (Live(n)' <=> Live(n))
        /\ notifier'[n].hasRun = notifier[n].hasRun /\ notifier'[n].index = notifier[n].index
        /\ n \in Q => notifier'[n].count = Cardinality(Present(n))
    BY <1>5, AfterPackaging DEF DInv
  <2>3. Account(n, t) /\ CallbackFacts(n, t) /\ heard' = heard
        /\ (Hearing(n, t)' <=> Hearing(n, t))
    BY <1>1, <1>2, <2>1 DEF Hearing
  <2>4. Asked(n, t)'
    BY <1>3, <2>3 DEF Account, Asked
  <2>5. Live(n) /\ Hearing(n, t) =>
          /\ c.toDeliver = {} /\ (c.accumulated # {} => Shown =< workerAt)
          /\ h.since =< workerAt
          /\ h.told \cup c.accumulated \cup {v \in h.asked : v =< workerAt}
               = Between(h.since, workerAt)
    <3>1. Live(n) /\ Hearing(n, t) => c.toDeliver = {}
      BY <1>9, <2>3 DEF Account, Kept
    <3> QED
      BY <2>3, <3>1 DEF Account, Kept
  <2>6. Kept(n, t)'
    <3> SUFFICES ASSUME Live(n), Hearing(n, t)
                 PROVE  /\ h.since =< workerAt
                        /\ h.told \cup d.toDeliver \cup d.accumulated
                             \cup {v \in h.asked : v =< workerAt} = Between(h.since, workerAt)
                        /\ d.accumulated # {} => Shown =< workerAt
                        /\ d.toDeliver # {} => InDelivery(n)'
      BY <1>1, <1>3, <2>2, <2>3 DEF Kept
    <3>1. d.toDeliver \cup d.accumulated = c.accumulated
      BY <2>1, <2>5
    <3>2. d.accumulated # {} => Shown =< workerAt
      BY <2>1, <2>5
    <3>3. d.toDeliver # {} => InDelivery(n)'
      <4> SUFFICES ASSUME d.toDeliver # {} PROVE InDelivery(n)'
        OBVIOUS
      <4>1. n \in Q /\ c.accumulated # {} /\ Shown =< workerAt
        BY <2>1, <2>5
      <4>2. ~(workerAt < Shown)
        BY <1>2, <4>1 DEF RealmFacts
      <4> QED
        BY <1>7, <1>9, <4>1, <4>2
    <3> QED
      BY <2>5, <3>1, <3>2, <3>3
  <2>7. InDelivery(n)' => n \in Q /\ Live(n) /\ Target' = workerAt /\ Shown =< workerAt
    BY <1>4, <1>5, <1>8, <1>9
  <2>8. Left(n, t)'
    <3>1. Between(workerAt, workerAt) = {}
      BY <1>2 DEF RealmFacts, Between
    <3> QED
      BY <1>1, <2>1, <2>7, <3>1 DEF Left
  <2>9. Called(n, t)'
    <3> SUFFICES ASSUME InDelivery(n)', Hearing(n, t)
                 PROVE  /\ IndexOf(n, t) < notifier'[n].count
                        /\ h.told \cup d.toDeliver \cup h.asked = Between(h.since, workerAt)
                        /\ n \in C'.todo /\ notifier'[n].index = npos
      BY <2>2, <2>3, <2>7 DEF Called
    <3>1. IndexOf(n, t) < notifier'[n].count
      <4>1. t \in Present(n) /\ n \in Q
        BY <2>7 DEF Hearing, Present
      <4>2. IndexOf(n, t) < Cardinality(Present(n))
        BY <4>1, Indices
      <4> QED
        BY <2>2, <4>1, <4>2
    <3>2. h.asked = {v \in h.asked : v =< workerAt}
      <4>1. \A v \in h.asked : v \in Nat /\ v =< Shown
        BY <2>3 DEF Account, Asked, CallbackFacts
      <4>2. \A v \in h.asked : v =< workerAt
        BY <1>2, <2>7, <4>1 DEF RealmFacts
      <4> QED
        BY <4>2
    <3>3. h.told \cup d.toDeliver \cup h.asked = Between(h.since, workerAt)
      BY <2>1, <2>5, <2>7, <3>2
    <3>4. n \in C'.todo
      BY <1>8, <1>9, <2>7
    <3>5. notifier[n].index = npos
      BY <1>2, <1>6 DEF ListInv, RealmFacts
    <3> QED
      BY <2>2, <3>1, <3>3, <3>4, <3>5
  <2>10. Skips(n, t)'
    BY <1>1, <1>3, <2>1, <2>2, <2>3 DEF Account, Skips
  <2>11. NextOnes(n, t)'
    <3> SUFFICES ASSUME Live(n), Hearing(n, t)
                 PROVE  /\ C'.pc # "advancing"
                        /\ writer = Here => C'.pc # "idle" /\ (Delivering' => n \in C'.package)
      BY <1>1, <1>3, <2>2, <2>3 DEF Account, NextOnes
    <3>1. ~Alone
      BY <1>7, <1>8
    <3>2. C'.pc # "advancing"
      BY <1>7, <1>8, <3>1
    <3>3. ASSUME writer = Here PROVE C'.pc # "idle" /\ (Delivering' => n \in C'.package)
      <4>1. C.kind = "write"
        BY <1>2, <1>3, <3>3 DEF CallInv
      <4>2. n \in Q
        BY <1>3, <1>5, <4>1, HearersArePackaged DEF P
      <4>3. ~Nothing
        BY <4>1 DEF Nothing
      <4> QED
        BY <1>7, <1>8, <3>1, <4>2, <4>3
    <3> QED
      BY <3>2, <3>3
  <2> QED
    BY <2>4, <2>6, <2>8, <2>9, <2>10, <2>11 DEF Account
<1> QED
  BY <1>10, <1>11, <1>12, <1>13 DEF DInv
------------------------------------------------------------------------------
(* for_each_callback.  A callback in the delivery that has something to be  *)
(* told, and comes after the one called last, is one it would still call.   *)
LEMMA StillToCall ==
  ASSUME Instance, DInv, NEW n \in Notifiers, NEW t \in Tokens, callbacks[n][t].present,
         callbacks[n][t].toDeliver # {}, IndexOf(n, t) < notifier[n].count,
         notifier[n].index = npos \/ notifier[n].index < IndexOf(n, t)
  PROVE  IndexOf(n, t) \in ToCall("after", n)
<1> DEFINE i == IndexOf(n, t)
           k == Cardinality(Present(n))
           x == notifier[n].index
<1>1. NotifierFacts(n) /\ ListInv(n) /\ RealmFacts
  BY Facts DEF DInv
<1>2. t \in Present(n)
  BY DEF Present
<1>3. i \in Nat /\ i < k /\ At(n, i) = t /\ k \in 0 .. MaxToken
  BY <1>2, Indices
<1>4. x \in Nat /\ x =< npos /\ npos \in Nat /\ MaxToken \in Nat
  BY <1>1 DEF NotifierFacts, RealmFacts
<1>5. Plus1(x) =< i
  <2>1. npos % 1 = 0 /\ (npos + 1) % (npos + 1) = 0
    BY <1>4
  <2>2. CASE x = npos
    <3>1. Plus1(x) = 0
      BY <2>1, <2>2 DEF Plus1
    <3> QED
      BY <1>3, <3>1
  <2>3. CASE x # npos
    <3>1. x + 1 \in 0 .. npos /\ x < i
      BY <1>4, <2>3
    <3>2. Plus1(x) = x + 1
      BY <1>4, <3>1 DEF Plus1
    <3> QED
      BY <1>3, <1>4, <3>1, <3>2
  <2> QED
    BY <2>2, <2>3
<1>6. Calls("after", n, At(n, i))
  BY <1>3 DEF Calls
<1>7. i \in 0 .. MaxToken - 1
  BY <1>3, <1>4
<1> QED
  BY <1>3, <1>5, <1>6, <1>7 DEF ToCall

(* The one it calls next.                                                   *)
LEMMA TheNextOne ==
  ASSUME NEW kind, NEW n, ToCall(kind, n) # {}
  PROVE  LET i == Min(ToCall(kind, n))
             t == At(n, i)
         IN /\ i \in Nat /\ i < notifier[n].count /\ i < Cardinality(Present(n))
            /\ t \in Present(n) /\ t \in Tokens /\ IndexOf(n, t) = i
            /\ \A j \in ToCall(kind, n) : i =< j
<1> DEFINE i == Min(ToCall(kind, n))
<1>1. MaxToken \in Nat
  BY Numbers
<1>2. ToCall(kind, n) \in SUBSET Nat
  BY <1>1 DEF ToCall
<1>3. i \in ToCall(kind, n) /\ \A j \in ToCall(kind, n) : i =< j
  BY <1>2, MinIsLeast
<1> HIDE DEF i
<1>4. i \in Nat /\ i < notifier[n].count /\ i < Cardinality(Present(n))
  BY <1>1, <1>3 DEF ToCall
<1>5. Cardinality(Present(n)) \in Nat
  BY <1>1, Indices
<1>6. At(n, i) \in Present(n) /\ IndexOf(n, At(n, i)) = i
  BY <1>4, <1>5, Indices
<1>7. At(n, i) \in Tokens
  BY <1>6 DEF Present
<1> QED
  BY <1>3, <1>4, <1>6, <1>7 DEF i

(* What changes of the call, and of other notifiers.                        *)
LEMMA OtherIndices ==
  ASSUME Instance, DInv, NEW n \in Notifiers, C.at \in {None, n}, NEW m \in Notifiers, m # n
  PROVE  notifier[m].index = npos
<1>1. ListInv(m) /\ RealmFacts
  BY FactsOfRealm DEF DInv
<1> QED
  BY <1>1 DEF ListInv, RealmFacts

LEMMA PassStays ==
  ASSUME Instance, DInv, IInv', NEW r \in Realms, NEW n \in Notifiers, callNext(r, n),
         ToCall(call[r].kind, n) = {}
  PROVE  DInv'
<1>1. /\ UNCHANGED <<latest, writer, version, skipVersion, workerAt, worker, callbacks, heard>>
      /\ call[r].pc = "calling" /\ n \in call[r].todo /\ call[r].at \in {None, n}
      /\ notifier' = [notifier EXCEPT ![n].index = npos]
      /\ call' = [call EXCEPT ![r].todo = @ \ {n}, ![r].at = None]
  BY DEF callNext, fileVars, coordinatorVars
<1>2. /\ RealmFacts /\ r = Here /\ CallInv /\ TodoInv
      /\ \A m \in Notifiers : ListInv(m) /\ RunInv(m) /\ RowsInv(m)
      /\ \A m \in Notifiers, t \in Tokens : Account(m, t)
      /\ notifier \in [Notifiers -> NotifierRec(latest)]
      /\ call \in [Realms -> CallRec(latest)]
  BY Facts DEF DInv, RealmFacts, IInv, Types
<1>3. /\ C.pc = "calling" /\ n \in C.todo /\ C.at \in {None, n} /\ Shown' = Shown
      /\ C' = [C EXCEPT !.todo = C.todo \ {n}, !.at = None]
  BY <1>1, <1>2 DEF C, Shown
<1>4. /\ C'.pc = "calling" /\ C'.kind = C.kind /\ C'.package = C.package
      /\ C'.todo = C.todo \ {n} /\ C'.at = None /\ C'.to = C.to
  <2>1. \A S : \A g \in CallRec(latest) :
          LET e == [g EXCEPT !.todo = S, !.at = None]
          IN /\ e.pc = g.pc /\ e.kind = g.kind /\ e.package = g.package
             /\ e.todo = S /\ e.at = None /\ e.to = g.to
    BY DEF CallRec
  <2> QED
    BY <1>2, <1>3, <2>1 DEF RealmFacts
<1>5. Delivering /\ Delivering' /\ Target' = Target /\ \A m : InDelivery(m)' <=> InDelivery(m)
  BY <1>3, <1>4 DEF Delivering, Target, InDelivery
<1>6. /\ notifier'[n].list = notifier[n].list /\ notifier'[n].version = notifier[n].version
      /\ notifier'[n].hasRun = notifier[n].hasRun /\ notifier'[n].rowsAt = notifier[n].rowsAt
      /\ notifier'[n].change = notifier[n].change /\ notifier'[n].next = notifier[n].next
      /\ notifier'[n].haveCallbacks = notifier[n].haveCallbacks
      /\ notifier'[n].index = npos /\ notifier'[n].count = notifier[n].count
      /\ notifier'[n].alive = notifier[n].alive
      /\ \A m \in Notifiers \ {n} : notifier'[m] = notifier[m]
  <2>1. PICK f \in NotifierRec(latest) : f = notifier[n]
    BY <1>2
  <2>2. notifier'[n] = [f EXCEPT !.index = npos]
        /\ \A m \in Notifiers \ {n} : notifier'[m] = notifier[m]
    BY <1>1, <1>2, <2>1
  <2> QED
    BY <2>1, <2>2 DEF NotifierRec
<1>7. CallInv' /\ TodoInv'
  <2>1. \A m \in C.package : notifier'[m].hasRun
    BY <1>2, <1>3, <1>5, <1>6 DEF CallInv, RealmFacts
  <2> QED
    BY <1>1, <1>2, <1>3, <1>4, <1>5, <2>1 DEF CallInv, TodoInv
<1>8. \A m \in Notifiers \ {n} : notifier[m].index = npos
  BY <1>3, OtherIndices
<1>9. \A m \in Notifiers :
         /\ Live(m)' <=> Live(m)
         /\ Present(m)' = Present(m) /\ \A t : IndexOf(m, t)' = IndexOf(m, t)
  BY <1>1, <1>6 DEF Live, Present, IndexOf
<1>10. ASSUME NEW m \in Notifiers PROVE ListInv(m)' /\ RunInv(m)' /\ RowsInv(m)'
  <2>1. CASE m # n
    BY <1>1, <1>2, <1>5, <1>6, <1>8, <2>1, NotifierStays
  <2>2. CASE m = n
    <3>1. (InPhase' <=> InPhase) /\ RanAt(n)' = RanAt(n)
      BY <1>1 DEF InPhase, RanAt
    <3>2. ListInv(n)'
      BY <1>1, <1>2, <1>5, <1>6, <1>9 DEF ListInv
    <3>3. RunInv(n)'
      BY <1>1, <1>2, <1>6, <3>1 DEF RunInv
    <3>4. RowsInv(n)'
      BY <1>1, <1>2, <1>6, <1>9, <3>1 DEF RowsInv
    <3> QED
      BY <2>2, <3>2, <3>3, <3>4
  <2> QED
    BY <2>1, <2>2
<1>11. ASSUME NEW m \in Notifiers, NEW t \in Tokens PROVE Account(m, t)'
  <2>1. WorkerSame
    BY <1>1 DEF WorkerSame
  <2>2. CASE m # n
    <3>1. CallSame(m)
      BY <1>1, <1>3, <1>4, <1>5, <2>2 DEF CallSame
    <3>2. CallbackSame(m, t)
      BY <1>1, <1>6, <1>9, <2>2 DEF CallbackSame
    <3> QED
      BY <1>2, <2>1, <3>1, <3>2, AccountStays
  <2>3. CASE m = n
    <3>1. Account(n, t) /\ (Hearing(n, t)' <=> Hearing(n, t))
      BY <1>1, <1>2 DEF Hearing
    <3>2. InDelivery(n) /\ Hearing(n, t) /\ C.kind = "after" => callbacks[n][t].toDeliver = {}
      <4> SUFFICES ASSUME InDelivery(n), Hearing(n, t), C.kind = "after",
                          callbacks[n][t].toDeliver # {}
                   PROVE  FALSE
        OBVIOUS
      <4>1. /\ IndexOf(n, t) < notifier[n].count /\ callbacks[n][t].present
            /\ notifier[n].index = npos \/ notifier[n].index < IndexOf(n, t)
        BY <3>1 DEF Account, Called, Hearing
      <4>2. IndexOf(n, t) \in ToCall("after", n)
        BY <4>1, StillToCall
      <4> QED
        BY <1>2, <4>2 DEF C
    <3>3. Called(n, t)'
      BY <1>1, <1>4, <1>5, <1>6, <1>9, <3>1, <3>2 DEF Account, Called
    <3>4. Asked(n, t)' /\ Kept(n, t)' /\ Skips(n, t)'
      BY <1>1, <1>3, <1>5, <1>6, <1>9, <3>1 DEF Account, Asked, Kept, Skips
    <3>5. Left(n, t)'
      BY <1>1, <1>5, <1>6, <1>9, <3>1 DEF Account, Left
    <3>6. NextOnes(n, t)'
      BY <1>1, <1>3, <1>4, <1>5, <1>9, <3>1 DEF Account, NextOnes
    <3> QED
      BY <2>3, <3>3, <3>4, <3>5, <3>6 DEF Account
  <2> QED
    BY <2>2, <2>3
<1> QED
  BY <1>7, <1>10, <1>11 DEF DInv

(* A callback is called: what changes of the call and the notifier, whether *)
(* before or after the advance.                                             *)
CallsOne(n, i) ==
  /\ UNCHANGED <<latest, writer, version, skipVersion, workerAt, worker>>
  /\ Delivering /\ Delivering' /\ C.at \in {None, n} /\ n \in C.todo
  /\ C'.pc = "user" /\ C'.kind = C.kind /\ C'.package = C.package
  /\ C'.todo = C.todo /\ C'.at = n /\ C'.to = C.to
  /\ notifier'[n].list = notifier[n].list /\ notifier'[n].version = notifier[n].version
  /\ notifier'[n].hasRun = notifier[n].hasRun /\ notifier'[n].rowsAt = notifier[n].rowsAt
  /\ notifier'[n].change = notifier[n].change /\ notifier'[n].next = notifier[n].next
  /\ notifier'[n].haveCallbacks = notifier[n].haveCallbacks
  /\ notifier'[n].index = i /\ notifier'[n].count = notifier[n].count
  /\ notifier'[n].alive = notifier[n].alive
  /\ \A m \in Notifiers \ {n} : notifier'[m] = notifier[m]

LEMMA CallsOneOf ==
  ASSUME Instance, DInv, NEW r \in Realms, NEW n \in Notifiers, callNext(r, n),
         NEW i, i = Min(ToCall(call[r].kind, n)), ToCall(call[r].kind, n) # {}
  PROVE  CallsOne(n, i)
<1>1. /\ UNCHANGED <<latest, writer, version, skipVersion, workerAt, worker>>
      /\ call[r].pc = "calling" /\ n \in call[r].todo /\ call[r].at \in {None, n}
      /\ notifier' = [notifier EXCEPT ![n].index = i]
      /\ call' = [call EXCEPT ![r].pc = "user", ![r].at = n]
  BY DEF callNext, fileVars, coordinatorVars
<1>2. /\ RealmFacts /\ r = Here
      /\ notifier \in [Notifiers -> NotifierRec(latest)]
      /\ call \in [Realms -> CallRec(latest)]
  BY Facts DEF DInv, RealmFacts, IInv, Types
<1>3. /\ C.pc = "calling" /\ n \in C.todo /\ C.at \in {None, n}
      /\ C' = [C EXCEPT !.pc = "user", !.at = n]
  BY <1>1, <1>2 DEF C
<1>4. /\ C'.pc = "user" /\ C'.kind = C.kind /\ C'.package = C.package
      /\ C'.todo = C.todo /\ C'.at = n /\ C'.to = C.to
  <2>1. \A g \in CallRec(latest) :
          LET e == [g EXCEPT !.pc = "user", !.at = n]
          IN /\ e.pc = "user" /\ e.kind = g.kind /\ e.package = g.package
             /\ e.todo = g.todo /\ e.at = n /\ e.to = g.to
    BY DEF CallRec
  <2> QED
    BY <1>2, <1>3, <2>1 DEF RealmFacts
<1>5. Delivering /\ Delivering'
  BY <1>3, <1>4 DEF Delivering
<1>6. /\ notifier'[n].list = notifier[n].list /\ notifier'[n].version = notifier[n].version
      /\ notifier'[n].hasRun = notifier[n].hasRun /\ notifier'[n].rowsAt = notifier[n].rowsAt
      /\ notifier'[n].change = notifier[n].change /\ notifier'[n].next = notifier[n].next
      /\ notifier'[n].haveCallbacks = notifier[n].haveCallbacks
      /\ notifier'[n].index = i /\ notifier'[n].count = notifier[n].count
      /\ notifier'[n].alive = notifier[n].alive
      /\ \A m \in Notifiers \ {n} : notifier'[m] = notifier[m]
  <2>1. PICK f \in NotifierRec(latest) : f = notifier[n]
    BY <1>2
  <2>2. notifier'[n] = [f EXCEPT !.index = i]
        /\ \A m \in Notifiers \ {n} : notifier'[m] = notifier[m]
    BY <1>1, <1>2, <2>1
  <2> QED
    BY <2>1, <2>2 DEF NotifierRec
<1> QED
  BY <1>1, <1>3, <1>4, <1>5, <1>6 DEF CallsOne

(* The rest of the invariant, given what becomes of the one it calls.       *)
LEMMA CallsStay ==
  ASSUME Instance, DInv, IInv', NEW n \in Notifiers, NEW t \in Tokens,
         CallsOne(n, IndexOf(n, t)), callbacks[n][t].present,
         \A m \in Notifiers, u \in Tokens : m # n \/ u # t =>
           callbacks'[m][u] = callbacks[m][u] /\ heard'[m][u] = heard[m][u],
         callbacks'[n][t].present,
         callbacks'[n][t].initialDelivered \/ callbacks'[n][t] = callbacks[n][t],
         heard'[n][t] = heard[n][t] \/ callbacks'[n][t].initialDelivered,
         \A u \in Tokens : u # t /\ callbacks[n][u].present /\ C.kind = "after" /\
                           IndexOf(n, u) \in ToCall("after", n) => IndexOf(n, t) < IndexOf(n, u),
         Account(n, t)'
  PROVE  DInv'
<1>1. /\ RealmFacts /\ CallInv /\ TodoInv
      /\ \A m \in Notifiers : ListInv(m) /\ RunInv(m) /\ RowsInv(m)
      /\ \A m \in Notifiers, u \in Tokens : Account(m, u)
      /\ callbacks' \in [Notifiers -> [Tokens -> Change]]
      /\ callbacks \in [Notifiers -> [Tokens -> Change]]
      /\ heard' \in [Notifiers -> [Tokens -> HeardRec(latest')]]
      /\ heard \in [Notifiers -> [Tokens -> HeardRec(latest)]]
  BY Facts DEF DInv, IInv, Types
<1>2. /\ Shown' = Shown /\ Target' = Target /\ \A m : InDelivery(m)' <=> InDelivery(m)
  BY DEF CallsOne, Shown, Target, InDelivery
<1>3. \A m \in Notifiers \ {n} : notifier[m].index = npos
  BY OtherIndices DEF CallsOne
<1>4. \A m \in Notifiers :
        /\ Live(m)' <=> Live(m)
        /\ Present(m)' = Present(m) /\ \A u : IndexOf(m, u)' = IndexOf(m, u)
  <2> SUFFICES ASSUME NEW m \in Notifiers
               PROVE  /\ Live(m)' <=> Live(m)
                      /\ Present(m)' = Present(m) /\ \A u : IndexOf(m, u)' = IndexOf(m, u)
    OBVIOUS
  <2>1. Live(m)' <=> Live(m)
    BY DEF CallsOne, Live
  <2>2. Present(m)' = Present(m)
    BY DEF Present
  <2>3. \A u : IndexOf(m, u)' = IndexOf(m, u)
    BY <2>2 DEF IndexOf
  <2> QED
    BY <2>1, <2>2, <2>3
<1>5. n \in C.package /\ notifier[n].hasRun
  BY <1>1 DEF CallInv, CallsOne
<1>6. CallInv' /\ TodoInv'
  <2>1. \A m \in C.package : notifier'[m].hasRun
    BY <1>1 DEF CallInv, CallsOne, RealmFacts
  <2> QED
    BY <1>1, <1>2, <2>1 DEF CallInv, TodoInv, CallsOne
<1>7. /\ t \in Present(n) /\ IndexOf(n, t) < Cardinality(Present(n))
      /\ \A u \in Tokens : IndexOf(n, u) \in Nat
      /\ \A u \in Tokens : callbacks[n][u].present /\ u # t => IndexOf(n, u) # IndexOf(n, t)
  BY Indices DEF Present
<1>8. ASSUME NEW m \in Notifiers PROVE ListInv(m)' /\ RunInv(m)' /\ RowsInv(m)'
  <2>1. CASE m # n
    <3>1. callbacks'[m] = callbacks[m] /\ heard'[m] = heard[m]
      BY <1>1, <2>1
    <3> QED
      BY <1>1, <1>2, <1>3, <2>1, <3>1, NotifierStays DEF CallsOne
  <2>2. CASE m = n
    <3>1. (InPhase' <=> InPhase) /\ RanAt(n)' = RanAt(n)
      BY DEF InPhase, RanAt, CallsOne
    <3>2. ASSUME NEW u \in Tokens
          PROVE  /\ ~callbacks'[n][u].present => callbacks'[n][u] = NoCallback
                 /\ ~callbacks'[n][u].initialDelivered => heard'[n][u].told = {}
                 /\ callbacks'[n][u].present => u < notifier'[n].next
      <4>1. /\ ~callbacks[n][u].present => callbacks[n][u] = NoCallback
            /\ ~callbacks[n][u].initialDelivered => heard[n][u].told = {}
            /\ callbacks[n][u].present => u < notifier[n].next
            /\ notifier'[n].next = notifier[n].next
        BY <1>1 DEF ListInv, CallsOne
      <4>2. CASE u = t
        BY <4>1, <4>2
      <4>3. CASE u # t
        <5>1. callbacks'[n][u] = callbacks[n][u] /\ heard'[n][u] = heard[n][u]
          BY <4>3
        <5> QED
          BY <4>1, <5>1
      <4> QED
        BY <4>2, <4>3
    <3>3. ListInv(n)'
      BY <1>1, <1>2, <1>4, <1>7, <3>2 DEF ListInv, CallsOne
    <3>4. RunInv(n)'
      BY <1>1, <1>5, <3>1 DEF RunInv, CallsOne
    <3>5. RowsInv(n)'
      BY <1>1, <1>4, <3>1 DEF RowsInv, CallsOne
    <3> QED
      BY <2>2, <3>3, <3>4, <3>5
  <2> QED
    BY <2>1, <2>2
<1>9. ASSUME NEW m \in Notifiers, NEW u \in Tokens PROVE Account(m, u)'
  <2>1. WorkerSame
    BY DEF WorkerSame, CallsOne
  <2>2. CASE m # n
    <3>1. CallSame(m)
      BY <1>2, <2>2 DEF CallSame, CallsOne
    <3>2. CallbackSame(m, u)
      BY <1>4, <2>2 DEF CallbackSame, CallsOne
    <3> QED
      BY <1>1, <2>1, <3>1, <3>2, AccountStays
  <2>3. CASE m = n /\ u # t
    <3>1. Account(n, u) /\ callbacks'[n][u] = callbacks[n][u] /\ heard'[n][u] = heard[n][u]
          /\ (Hearing(n, u)' <=> Hearing(n, u))
      BY <1>1, <2>3 DEF Hearing
    <3>2. InDelivery(n) /\ Hearing(n, u) /\ callbacks[n][u].toDeliver # {} /\ C.kind = "after" =>
            IndexOf(n, t) < IndexOf(n, u)
      <4> SUFFICES ASSUME InDelivery(n), Hearing(n, u), callbacks[n][u].toDeliver # {},
                          C.kind = "after"
                   PROVE  IndexOf(n, t) < IndexOf(n, u)
        OBVIOUS
      <4>1. /\ IndexOf(n, u) < notifier[n].count /\ callbacks[n][u].present
            /\ notifier[n].index = npos \/ notifier[n].index < IndexOf(n, u)
        BY <3>1 DEF Account, Called, Hearing
      <4>2. IndexOf(n, u) \in ToCall("after", n)
        BY <4>1, StillToCall
      <4> QED
        BY <2>3, <4>1, <4>2
    <3>3. Called(n, u)'
      BY <1>2, <1>4, <3>1, <3>2 DEF Account, Called, CallsOne
    <3>4. Asked(n, u)' /\ Kept(n, u)' /\ Skips(n, u)'
      BY <1>2, <1>4, <3>1 DEF Account, Asked, Kept, Skips, CallsOne
    <3>5. Left(n, u)'
      BY <1>2, <1>4, <3>1 DEF Account, Left, CallsOne
    <3>6. NextOnes(n, u)'
      BY <1>2, <1>4, <3>1 DEF Account, NextOnes, CallsOne
    <3> QED
      BY <2>3, <3>3, <3>4, <3>5, <3>6 DEF Account
  <2> QED
    BY <2>2, <2>3
<1> QED
  BY <1>6, <1>8, <1>9 DEF DInv

(* The account of the one that is called.                                   *)
LEMMA CalledAccount ==
  ASSUME Instance, DInv, IInv', NEW n \in Notifiers, NEW t \in Tokens,
         CallsOne(n, IndexOf(n, t)), callbacks[n][t].present, Present(n)' = Present(n),
         IndexOf(n, t) < notifier[n].count, C.kind = "after",
         callbacks'[n][t] = [callbacks[n][t] EXCEPT !.initialDelivered = TRUE, !.toDeliver = {}],
         heard'[n][t] = Hears(Here, n, t)
  PROVE  Account(n, t)'
<1> DEFINE c == callbacks[n][t]
           h == heard[n][t]
           d == callbacks'[n][t]
           e == heard'[n][t]
<1>1. /\ RealmFacts /\ CallInv /\ ListInv(n) /\ RunInv(n) /\ Account(n, t) /\ CallbackFacts(n, t)
      /\ RealmFacts'
  BY Facts, FactsAfter DEF DInv
<1>2. /\ Shown' = Shown /\ Target = Shown /\ Target' = Shown
      /\ (InDelivery(n)' <=> InDelivery(n)) /\ (Live(n)' <=> Live(n))
      /\ IndexOf(n, t)' = IndexOf(n, t)
  BY DEF CallsOne, Shown, Target, InDelivery, Live, IndexOf
<1>3. InDelivery(n) /\ Delivering
  BY <1>1 DEF InDelivery, CallInv, CallsOne
<1>4. /\ d.present /\ d.initialDelivered /\ d.skipNext = c.skipNext
      /\ d.accumulated = c.accumulated /\ d.toDeliver = {}
  BY <1>1 DEF CallbackFacts, Change
<1>5. Hearing(n, t)'
  BY <1>4 DEF Hearing
<1>6. Live(n) => workerAt # 0 /\ Shown =< workerAt
  <2>1. notifier[n].hasRun
    BY <1>1, <1>3 DEF CallInv, InDelivery
  <2>2. Live(n) => workerAt # 0
    BY <1>1, <2>1, HearingRuns DEF DInv
  <2> QED
    BY <1>1, <1>2, <1>3, <2>2 DEF CallInv
<1>7. Live(n) => c.accumulated = Between(Shown, workerAt)
  BY <1>1, <1>2, <1>3 DEF Account, Left
<1>8. CASE c.initialDelivered
  <2>1. /\ e.since = h.since /\ e.told = h.told \cup c.toDeliver /\ e.asked = h.asked
    <3>1. e = [h EXCEPT !.told = h.told \cup c.toDeliver]
      BY <1>8 DEF Hears
    <3> QED
      BY <1>1, <3>1 DEF CallbackFacts, HeardRec
  <2>2. Hearing(n, t)
    BY <1>8 DEF Hearing
  <2>3. e.told \cup d.toDeliver = h.told \cup c.toDeliver
    BY <1>4, <2>1
  <2>4. Asked(n, t)'
    BY <1>1, <1>2, <2>1 DEF Account, Asked
  <2>5. Kept(n, t)'
    <3>1. workerAt' = workerAt
      BY DEF CallsOne
    <3> QED
      BY <1>1, <1>2, <1>4, <2>1, <2>2, <2>3, <3>1 DEF Account, Kept
  <2>6. Left(n, t)'
    BY <1>2, <1>4, <1>7 DEF Left, CallsOne
  <2>7. Called(n, t)'
    BY <1>1, <1>2, <1>4, <2>1, <2>2, <2>3 DEF Account, Called, CallsOne
  <2>8. Skips(n, t)'
    BY <1>1, <1>2, <1>4, <1>8, <2>1 DEF Account, Skips, CallsOne
  <2>9. NextOnes(n, t)'
    BY <1>1, <1>2, <1>4, <2>2 DEF Account, NextOnes, CallsOne
  <2> QED
    BY <2>4, <2>5, <2>6, <2>7, <2>8, <2>9 DEF Account
<1>9. CASE ~c.initialDelivered
  <2>1. e.since = Shown /\ e.told = {} /\ e.asked = {}
    <3>1. e = [NotHeard EXCEPT !.since = Shown]
      BY <1>9 DEF Hears, Shown
    <3> QED
      BY <3>1 DEF NotHeard
  <2>2. Between(Shown, Shown) = {}
    BY <1>1 DEF RealmFacts, Between
  <2>3. Asked(n, t)' /\ Left(n, t)'
    BY <1>2, <1>4, <1>7, <2>1 DEF Asked, Left, CallsOne
  <2>4. Kept(n, t)'
    <3>1. workerAt' = workerAt
      BY DEF CallsOne
    <3> QED
      BY <1>2, <1>4, <1>6, <1>7, <2>1, <3>1 DEF Kept
  <2>5. Called(n, t)'
    BY <1>2, <1>4, <2>1, <2>2 DEF Called, CallsOne
  <2>6. Skips(n, t)'
    <3>1. Live(n) => ~(workerAt < Shown)
      BY <1>1, <1>6 DEF RealmFacts
    <3> QED
      BY <1>1, <1>2, <1>4, <3>1 DEF Account, Skips, CallsOne
  <2>7. NextOnes(n, t)'
    <3>1. Live(n) => /\ skipVersion # 0 => Shown =< skipVersion
                     /\ worker.pc = "skipping" => Shown =< worker.skip
                     /\ worker.pc = "running" /\ workerAt < worker.to => Shown =< worker.to
      <4>1. /\ skipVersion # 0 => workerAt < skipVersion
            /\ worker.pc = "skipping" => workerAt < worker.skip
        BY AheadOfWorker DEF DInv
      <4>2. Shown \in Nat /\ workerAt \in Nat
            /\ skipVersion \in Nat /\ worker.skip \in Nat /\ worker.to \in Nat
        BY <1>1 DEF RealmFacts
      <4> QED
        BY <1>6, <4>1, <4>2
    <3>2. n \in C'.package /\ C'.pc = "user"
      BY <1>3 DEF InDelivery, CallsOne
    <3> QED
      BY <1>2, <3>1, <3>2 DEF NextOnes, CallsOne
  <2> QED
    BY <2>3, <2>4, <2>5, <2>6, <2>7 DEF Account
<1> QED
  BY <1>1, <1>8, <1>9 DEF CallbackFacts

LEMMA CallStays ==
  ASSUME Instance, DInv, IInv', NEW r \in Realms, NEW n \in Notifiers, callNext(r, n)
  PROVE  DInv'
<1>1. /\ RealmFacts /\ r = Here /\ CallInv
      /\ callbacks \in [Notifiers -> [Tokens -> Change]]
      /\ heard \in [Notifiers -> [Tokens -> HeardRec(latest)]]
  BY FactsOfRealm DEF DInv, RealmFacts, IInv, Types
<1>2. CASE ToCall(C.kind, n) = {}
  BY <1>1, <1>2, PassStays DEF C
<1>3. CASE ToCall(C.kind, n) # {}
  <2>1. PICK i : i = Min(ToCall(C.kind, n))
    OBVIOUS
  <2>2. PICK t : t = At(n, i)
    OBVIOUS
  <2>3. /\ i \in Nat /\ i < notifier[n].count /\ t \in Present(n) /\ t \in Tokens
        /\ IndexOf(n, t) = i /\ \A j \in ToCall(C.kind, n) : i =< j
    BY <1>3, <2>1, <2>2, TheNextOne
  <2>4. CallsOne(n, IndexOf(n, t))
    BY <1>1, <1>3, <2>1, <2>3, CallsOneOf DEF C
  <2>5. callbacks[n][t].present
    BY <2>3 DEF Present
  <2>6. \A u \in Tokens : u # t /\ callbacks[n][u].present /\ C.kind = "after" /\
                          IndexOf(n, u) \in ToCall("after", n) => IndexOf(n, t) < IndexOf(n, u)
    <3> SUFFICES ASSUME NEW u \in Tokens, u # t, callbacks[n][u].present, C.kind = "after",
                        IndexOf(n, u) \in ToCall("after", n)
                 PROVE  IndexOf(n, t) < IndexOf(n, u)
      OBVIOUS
    <3>1. i =< IndexOf(n, u)
      BY <2>3
    <3>2. IndexOf(n, u) # i /\ IndexOf(n, u) \in Nat
      <4>1. u \in Present(n)
        BY DEF Present
      <4> QED
        BY <2>3, <4>1, Indices
    <3> QED
      BY <2>3, <3>1, <3>2
  <2>7. CASE C.kind = "before"
    <3>1. callbacks' = callbacks /\ heard' = heard
      BY <1>1, <1>3, <2>7 DEF callNext, C
    <3>2. Account(n, t)'
      <4>1. Account(n, t)
        BY <2>3 DEF DInv
      <4>2. /\ Shown' = Shown /\ Target' = Target /\ (InDelivery(n)' <=> InDelivery(n))
            /\ (Live(n)' <=> Live(n)) /\ IndexOf(n, t)' = IndexOf(n, t)
            /\ (Hearing(n, t)' <=> Hearing(n, t))
        BY <2>4, <3>1 DEF CallsOne, Shown, Target, InDelivery, Live, IndexOf, Present, Hearing
      <4>3. Called(n, t)'
        BY <2>4, <2>7, <3>1, <4>1, <4>2 DEF Account, Called, CallsOne
      <4>4. Asked(n, t)' /\ Kept(n, t)' /\ Skips(n, t)'
        BY <2>4, <3>1, <4>1, <4>2 DEF Account, Asked, Kept, Skips, CallsOne
      <4>5. Left(n, t)'
        BY <2>4, <3>1, <4>1, <4>2 DEF Account, Left, CallsOne
      <4>6. NextOnes(n, t)'
        BY <2>4, <3>1, <4>1, <4>2 DEF Account, NextOnes, CallsOne
      <4> QED
        BY <4>3, <4>4, <4>5, <4>6 DEF Account
    <3> QED
      BY <2>3, <2>4, <2>5, <2>6, <3>1, <3>2, CallsStay
  <2>8. CASE C.kind # "before"
    <3>1. C.kind = "after"
      BY <1>1, <2>4, <2>8 DEF CallInv, CallsOne
    <3>2. /\ callbacks' = [callbacks EXCEPT ![n][t].initialDelivered = TRUE, ![n][t].toDeliver = {}]
          /\ heard' = [heard EXCEPT ![n][t] = Hears(Here, n, t)]
      BY <1>1, <1>3, <2>1, <2>2, <2>8 DEF callNext, C
    <3>3. /\ callbacks'[n][t] = [callbacks[n][t] EXCEPT !.initialDelivered = TRUE, !.toDeliver = {}]
          /\ heard'[n][t] = Hears(Here, n, t)
          /\ \A m \in Notifiers, u \in Tokens : m # n \/ u # t =>
               callbacks'[m][u] = callbacks[m][u] /\ heard'[m][u] = heard[m][u]
      BY <1>1, <2>3, <3>2
    <3>4. callbacks'[n][t].present /\ callbacks'[n][t].initialDelivered
      <4>1. callbacks[n][t] \in Change
        BY <1>1, <2>3
      <4> QED
        BY <2>5, <3>3, <4>1 DEF Change
    <3>5. Present(n)' = Present(n)
      <4>1. \A u \in Tokens : callbacks'[n][u].present <=> callbacks[n][u].present
        BY <2>5, <3>3, <3>4
      <4> QED
        BY <4>1 DEF Present
    <3>6. Account(n, t)'
      BY <2>3, <2>4, <2>5, <3>1, <3>3, <3>5, CalledAccount
    <3> QED
      BY <2>3, <2>4, <2>5, <2>6, <3>3, <3>4, <3>6, CallsStay
  <2> QED
    BY <2>7, <2>8
<1> QED
  BY <1>2, <1>3
------------------------------------------------------------------------------
(* A commit of the Realm.                                                   *)
LEMMA CommitStays ==
  ASSUME Instance, DInv, IInv', NEW r \in Realms, NEW S \in SUBSET OwnCallbacks(r),
         commitTransaction(r, S)
  PROVE  DInv'
<1> DEFINE v == latest + 1
<1>1. /\ call[r].pc = "idle" /\ writer = r /\ latest' = v /\ writer' = Nobody
      /\ suppressNext(r, v, S) /\ version' = [version EXCEPT ![r] = v] /\ setSkipVersion(r, v)
      /\ UNCHANGED <<workerAt, notifier, worker, call>>
  BY DEF commitTransaction, committed
<1>2. /\ RealmFacts /\ r = Here /\ CallInv /\ TodoInv
      /\ \A n \in Notifiers : ListInv(n) /\ RunInv(n) /\ RowsInv(n)
      /\ \A n \in Notifiers, t \in Tokens : Account(n, t) /\ CallbackFacts(n, t)
      /\ version \in [Realms -> 1 .. latest]
      /\ callbacks \in [Notifiers -> [Tokens -> Change]]
      /\ heard \in [Notifiers -> [Tokens -> HeardRec(latest)]]
  BY Facts DEF DInv, RealmFacts, IInv, Types
<1>3. /\ C.pc = "idle" /\ C' = C /\ Shown' = v /\ Shown = latest /\ C.at = None
      /\ ~Delivering /\ ~Delivering'
  BY <1>1, <1>2 DEF C, Shown, CallInv, Delivering
<1>4. /\ workerAt \in Nat /\ latest \in Nat /\ workerAt =< latest /\ workerAt < v
  BY <1>2, AheadOfWorker DEF RealmFacts, DInv
<1>5. ASSUME NEW n \in Notifiers, NEW t \in Tokens
      PROVE  /\ callbacks'[n][t].present = callbacks[n][t].present
             /\ callbacks'[n][t].initialDelivered = callbacks[n][t].initialDelivered
             /\ callbacks'[n][t].accumulated = callbacks[n][t].accumulated
             /\ callbacks'[n][t].toDeliver = callbacks[n][t].toDeliver
             /\ heard'[n][t].since = heard[n][t].since
             /\ heard'[n][t].told = heard[n][t].told
             /\ ~callbacks[n][t].present => callbacks'[n][t] = callbacks[n][t]
             /\ \/ /\ callbacks'[n][t].skipNext /\ heard'[n][t].asked = heard[n][t].asked \cup {v}
                \/ callbacks'[n][t] = callbacks[n][t] /\ heard'[n][t] = heard[n][t]
  <2>1. CASE <<n, t>> \in S
    <3>1. /\ callbacks'[n][t] = [callbacks[n][t] EXCEPT !.skipNext = TRUE]
          /\ heard'[n][t] = [heard[n][t] EXCEPT !.asked = heard[n][t].asked \cup {v}]
      BY <1>1, <2>1 DEF suppressNext
    <3>2. callbacks[n][t].present
      <4>1. t \in Present(n)
        BY <2>1 DEF OwnCallbacks
      <4> QED
        BY <4>1 DEF Present
    <3>3. PICK c \in Change, h \in HeardRec(latest) : c = callbacks[n][t] /\ h = heard[n][t]
      BY <1>2
    <3>4. callbacks'[n][t] = [c EXCEPT !.skipNext = TRUE]
      BY <3>1, <3>3
    <3>5. PICK a : a = heard[n][t].asked \cup {v}
      OBVIOUS
    <3>6. heard'[n][t] = [h EXCEPT !.asked = a]
      BY <3>1, <3>3, <3>5
    <3>7. /\ callbacks'[n][t].present = c.present
          /\ callbacks'[n][t].initialDelivered = c.initialDelivered
          /\ callbacks'[n][t].accumulated = c.accumulated
          /\ callbacks'[n][t].toDeliver = c.toDeliver
          /\ callbacks'[n][t].skipNext
      BY <3>4 DEF Change
    <3>8. heard'[n][t].since = h.since /\ heard'[n][t].told = h.told /\ heard'[n][t].asked = a
      BY <3>6 DEF HeardRec
    <3> QED
      BY <3>2, <3>3, <3>5, <3>7, <3>8
  <2>2. CASE <<n, t>> \notin S
    <3>1. callbacks'[n][t] = callbacks[n][t] /\ heard'[n][t] = heard[n][t]
      BY <1>1, <2>2 DEF suppressNext
    <3> QED
      BY <3>1
  <2> QED
    BY <2>1, <2>2
<1>6. \A n \in Notifiers :
        /\ Live(n)' <=> Live(n)
        /\ Present(n)' = Present(n)
        /\ ~InDelivery(n) /\ ~InDelivery(n)'
        /\ RanAt(n)' = RanAt(n)
  <2> SUFFICES ASSUME NEW n \in Notifiers
               PROVE  /\ Live(n)' <=> Live(n)
                      /\ Present(n)' = Present(n)
                      /\ ~InDelivery(n) /\ ~InDelivery(n)'
                      /\ RanAt(n)' = RanAt(n)
    OBVIOUS
  <2>1. Present(n)' = Present(n)
    BY <1>5 DEF Present
  <2> QED
    BY <1>1, <1>3, <2>1 DEF Live, InDelivery, RanAt
<1>7. CallInv' /\ TodoInv'
  BY <1>1, <1>2, <1>3 DEF CallInv, TodoInv, RealmFacts
<1>8. ASSUME NEW n \in Notifiers PROVE ListInv(n)' /\ RunInv(n)' /\ RowsInv(n)'
  <2>1. ASSUME NEW t \in Tokens
        PROVE  /\ ~callbacks'[n][t].present => callbacks'[n][t] = NoCallback
               /\ ~callbacks'[n][t].initialDelivered => heard'[n][t].told = {}
               /\ callbacks'[n][t].present => t < notifier'[n].next
    <3>1. /\ ~callbacks[n][t].present => callbacks[n][t] = NoCallback
          /\ ~callbacks[n][t].initialDelivered => heard[n][t].told = {}
          /\ callbacks[n][t].present => t < notifier[n].next
      BY <1>2 DEF ListInv
    <3>2. notifier'[n].next = notifier[n].next
      BY <1>1
    <3> QED
      BY <1>5, <3>1, <3>2
  <2>2. ListInv(n)'
    BY <1>1, <1>2, <1>3, <1>6, <2>1 DEF ListInv
  <2>3. RunInv(n)'
    BY <1>1, <1>2, <1>5 DEF RunInv, InPhase
  <2>4. RowsInv(n)'
    BY <1>1, <1>2, <1>6 DEF RowsInv
  <2> QED
    BY <2>2, <2>3, <2>4
<1>9. ASSUME NEW n \in Notifiers, NEW t \in Tokens PROVE Account(n, t)'
  <2> DEFINE c == callbacks[n][t]
             h == heard[n][t]
             d == callbacks'[n][t]
             e == heard'[n][t]
  <2>1. /\ Account(n, t) /\ (Hearing(n, t)' <=> Hearing(n, t))
        /\ d.present = c.present /\ d.initialDelivered = c.initialDelivered
        /\ d.accumulated = c.accumulated /\ d.toDeliver = c.toDeliver
        /\ e.since = h.since /\ e.told = h.told
        /\ (d.skipNext /\ e.asked = h.asked \cup {v}) \/ (d = c /\ e = h)
        /\ RunInv(n) /\ CallbackFacts(n, t)
    BY <1>2, <1>5 DEF Hearing
  <2>2. Live(n) /\ Hearing(n, t) =>
          /\ workerAt = latest /\ c.accumulated = {}
          /\ skipVersion' = v /\ notifier[n].hasRun
    <3> SUFFICES ASSUME Live(n), Hearing(n, t)
                 PROVE  /\ workerAt = latest /\ c.accumulated = {}
                        /\ skipVersion' = v /\ notifier[n].hasRun
      OBVIOUS
    <3>1. workerAt = latest /\ c.accumulated = {}
      BY <1>1, <1>2, <1>3, <2>1 DEF Account, NextOnes
    <3>2. notifier[n].hasRun /\ notifier[n].list = "main"
      BY <2>1, HearingRuns DEF DInv
    <3>3. n \in Of(r)
      BY <1>2 DEF RealmFacts
    <3> QED
      BY <1>1, <3>1, <3>2, <3>3 DEF setSkipVersion
  <2>3. Asked(n, t)'
    <3>1. \A w \in h.asked : w \in Nat /\ w =< latest
      BY <1>3, <2>1 DEF Account, Asked, CallbackFacts
    <3>2. \A w \in e.asked : w =< v
      BY <1>4, <2>1, <3>1
    <3> QED
      BY <1>3, <3>2 DEF Asked
  <2>4. Kept(n, t)'
    <3>1. {w \in e.asked : w =< workerAt} = {w \in h.asked : w =< workerAt}
      <4>1. ~(v =< workerAt)
        BY <1>4
      <4> QED
        BY <2>1, <4>1
    <3> QED
      BY <1>1, <1>6, <2>1, <2>2, <3>1 DEF Account, Kept
  <2>5. Left(n, t)' /\ Called(n, t)'
    BY <1>6 DEF Left, Called
  <2>6. Skips(n, t)'
    <3> SUFFICES ASSUME Live(n), notifier[n].hasRun, c.present, d.skipNext
                 PROVE  /\ workerAt < v
                        /\ c.initialDelivered => /\ workerAt + 1 \in e.asked
                                                 /\ skipVersion' = workerAt + 1
      BY <1>1, <1>3, <1>6, <2>1 DEF Skips
    <3>1. ASSUME c.initialDelivered PROVE workerAt + 1 \in e.asked /\ skipVersion' = workerAt + 1
      <4>1. workerAt = latest /\ skipVersion' = v
        BY <2>2, <3>1 DEF Hearing
      <4>2. ~(c.skipNext /\ d = c)
        <5>1. c.skipNext => workerAt < Shown
          BY <2>1 DEF Account, Skips
        <5> QED
          BY <1>3, <1>4, <4>1, <5>1
      <4>3. e.asked = h.asked \cup {v}
        BY <2>1, <4>2
      <4> QED
        BY <4>1, <4>3
    <3> QED
      BY <1>4, <3>1
  <2>7. NextOnes(n, t)'
    <3> SUFFICES ASSUME Live(n), Hearing(n, t)
                 PROVE  /\ v =< skipVersion' /\ worker.pc # "skipping"
                        /\ ~(worker.pc = "running" /\ workerAt < worker.to)
      BY <1>1, <1>2, <1>3, <1>6, <2>1 DEF NextOnes, RealmFacts
    <3>1. workerAt = latest /\ skipVersion' = v
      BY <2>2
    <3>2. /\ worker.to =< latest /\ worker.skip =< latest
          /\ worker.pc = "skipping" => workerAt < worker.skip
          /\ worker.to \in Nat /\ worker.skip \in Nat
      BY <1>2, AheadOfWorker DEF DInv, RealmFacts
    <3> QED
      BY <1>4, <3>1, <3>2
  <2> QED
    BY <2>3, <2>4, <2>5, <2>6, <2>7 DEF Account
<1> QED
  BY <1>7, <1>8, <1>9 DEF DInv
------------------------------------------------------------------------------
(* The steps of the worker: the notifiers it takes up.                      *)
LEMMA StartStays ==
  ASSUME Instance, DInv, IInv', startNotifiers
  PROVE  DInv'
<1> DEFINE old == In("main") \ Dead("main")
           new == In("new") \ Dead("new")
           skip == IF EmptiedBy("main") THEN 0 ELSE skipVersion
           at == IF EmptiedBy("main") THEN 0 ELSE workerAt
<1>1. /\ UNCHANGED <<latest, writer, version, callbacks, call, heard>>
      /\ worker.pc = "idle"
      /\ notifier' = [n \in Notifiers |->
           IF n \in Dead("main") \cup Dead("new") THEN [notifier[n] EXCEPT !.list = "gone"]
           ELSE IF n \in new THEN [notifier[n] EXCEPT !.list = "main"]
           ELSE notifier[n]]
      /\ \/ /\ old \cup new = {} /\ skipVersion' = skip /\ workerAt' = at
            /\ worker' = [worker EXCEPT !.pc = "signal"]
         \/ /\ old \cup new # {} /\ skipVersion' = 0
            /\ workerAt' = (IF at = 0 THEN latest ELSE at)
            /\ worker' = [pc |-> IF skip = 0 THEN "running" ELSE "skipping",
                          skip |-> skip, to |-> latest, old |-> old, new |-> new,
                          todo |-> IF skip = 0 THEN old \cup new ELSE old]
  BY Zenon DEF startNotifiers, fileVars
<1>2. /\ RealmFacts /\ RealmFacts' /\ CallInv /\ TodoInv
      /\ \A n \in Notifiers : ListInv(n) /\ RunInv(n) /\ RowsInv(n)
      /\ \A n \in Notifiers, t \in Tokens : Account(n, t)
      /\ notifier \in [Notifiers -> NotifierRec(latest)] /\ worker \in WorkerRec(latest)
  BY Facts, FactsAfter DEF DInv, IInv, Types
<1>3. /\ C' = C /\ Shown' = Shown /\ (Delivering' <=> Delivering) /\ Target' = Target
      /\ \A n : (InDelivery(n)' <=> InDelivery(n))
      /\ \A n : Present(n)' = Present(n) /\ \A t : IndexOf(n, t)' = IndexOf(n, t)
      /\ ~InPhase
  BY <1>1 DEF C, Shown, Delivering, Target, InDelivery, Present, IndexOf, InPhase
<1>4. ASSUME NEW n \in Notifiers
      PROVE  /\ notifier'[n].alive = notifier[n].alive
             /\ notifier'[n].version = notifier[n].version
             /\ notifier'[n].hasRun = notifier[n].hasRun
             /\ notifier'[n].rowsAt = notifier[n].rowsAt
             /\ notifier'[n].change = notifier[n].change
             /\ notifier'[n].haveCallbacks = notifier[n].haveCallbacks
             /\ notifier'[n].next = notifier[n].next
             /\ notifier'[n].index = notifier[n].index /\ notifier'[n].count = notifier[n].count
             /\ notifier'[n].list = (IF notifier[n].list \notin {"main", "new"}
                                     THEN notifier[n].list
                                     ELSE IF notifier[n].alive THEN "main" ELSE "gone")
  <2>1. PICK f \in NotifierRec(latest) : f = notifier[n]
    BY <1>2
  <2>2. ASSUME NEW l
        PROVE  LET g == [f EXCEPT !.list = l]
               IN /\ g.alive = f.alive /\ g.version = f.version /\ g.hasRun = f.hasRun
                  /\ g.rowsAt = f.rowsAt /\ g.change = f.change /\ g.next = f.next
                  /\ g.haveCallbacks = f.haveCallbacks /\ g.index = f.index /\ g.count = f.count
                  /\ g.list = l
    BY DEF NotifierRec
  <2>3. \/ f.list \in {"main", "new"} /\ ~f.alive /\ notifier'[n] = [f EXCEPT !.list = "gone"]
        \/ f.list = "new" /\ f.alive /\ notifier'[n] = [f EXCEPT !.list = "main"]
        \/ f.list = "main" /\ f.alive /\ notifier'[n] = f
        \/ f.list \notin {"main", "new"} /\ notifier'[n] = f
    <3>1. CASE n \in Dead("main") \cup Dead("new")
      BY <1>1, <2>1, <3>1 DEF Dead, In
    <3>2. CASE n \in new
      <4>1. n \notin Dead("main") \cup Dead("new") /\ f.list = "new" /\ f.alive
        BY <2>1, <3>2 DEF Dead, In
      <4>2. notifier'[n] = [f EXCEPT !.list = "main"]
        BY <1>1, <2>1, <3>2, <4>1
      <4> QED
        BY <4>1, <4>2
    <3>3. CASE n \notin Dead("main") \cup Dead("new") /\ n \notin new
      <4>1. (f.list = "main" => f.alive) /\ f.list # "new"
        BY <2>1, <3>3 DEF Dead, In
      <4>2. notifier'[n] = f
        BY <1>1, <2>1, <3>3
      <4> QED
        BY <4>1, <4>2
    <3> QED
      BY <3>1, <3>2, <3>3
  <2>4. CASE notifier'[n] = f /\ ((f.list = "main" /\ f.alive) \/ f.list \notin {"main", "new"})
    BY <2>1, <2>4
  <2>5. CASE f.list \in {"main", "new"} /\ ~f.alive /\ notifier'[n] = [f EXCEPT !.list = "gone"]
    <3>1. PICK g : g = [f EXCEPT !.list = "gone"]
      OBVIOUS
    <3>2. /\ g.alive = f.alive /\ g.version = f.version /\ g.hasRun = f.hasRun
          /\ g.rowsAt = f.rowsAt /\ g.change = f.change /\ g.next = f.next
          /\ g.haveCallbacks = f.haveCallbacks /\ g.index = f.index /\ g.count = f.count
          /\ g.list = "gone"
      BY <2>2, <3>1
    <3> QED
      BY <2>1, <2>5, <3>1, <3>2
  <2>6. CASE f.list = "new" /\ f.alive /\ notifier'[n] = [f EXCEPT !.list = "main"]
    <3>1. PICK g : g = [f EXCEPT !.list = "main"]
      OBVIOUS
    <3>2. /\ g.alive = f.alive /\ g.version = f.version /\ g.hasRun = f.hasRun
          /\ g.rowsAt = f.rowsAt /\ g.change = f.change /\ g.next = f.next
          /\ g.haveCallbacks = f.haveCallbacks /\ g.index = f.index /\ g.count = f.count
          /\ g.list = "main"
      BY <2>2, <3>1
    <3> QED
      BY <2>1, <2>6, <3>1, <3>2
  <2> QED
    BY <2>3, <2>4, <2>5, <2>6
<1>5. ASSUME NEW n \in Notifiers
      PROVE  /\ Live(n)' <=> Live(n)
             /\ n \in old <=> Live(n) /\ notifier[n].list = "main"
             /\ n \in new <=> Live(n) /\ notifier[n].list = "new"
             /\ Live(n) => notifier'[n].list = "main"
  BY <1>4 DEF Live, In, Dead
<1>6. old \in SUBSET Notifiers /\ new \in SUBSET Notifiers
  BY DEF In
<1>7. /\ EmptiedBy("main") => old = {}
      /\ old = {} => EmptiedBy("main") \/ In("main") = {}
      /\ old # {} => workerAt # 0 /\ ~EmptiedBy("main")
      /\ old = {} => at = 0 /\ skip = 0
  <2>1. EmptiedBy("main") => old = {}
    BY DEF EmptiedBy
  <2>2. old = {} => EmptiedBy("main") \/ In("main") = {}
    BY DEF EmptiedBy, Dead
  <2>3. In("main") = {} => workerAt = 0 /\ skipVersion = 0
    BY DEF DInv, IInv, Work, WorkerAssertions
  <2>4. old # {} => workerAt # 0
    BY DEF DInv, IInv, Work, WorkerAssertions
  <2> QED
    BY <2>1, <2>2, <2>3, <2>4
<1> HIDE DEF old, new
<1>8. CASE old \cup new = {}
  <2>1. /\ skipVersion' = 0 /\ workerAt' = 0 /\ worker'.pc = "signal"
    BY <1>1, <1>2, <1>7, <1>8 DEF WorkerRec
  <2>2. \A n \in Notifiers : ~Live(n) /\ ~Live(n)'
    BY <1>5, <1>8 DEF Live
  <2>3. CallInv'
    <3>1. \A n \in C.package : notifier'[n].hasRun = notifier[n].hasRun
      BY <1>2, <1>4 DEF RealmFacts
    <3>2. Of(Here)' \subseteq Of(Here)
      BY <2>2 DEF Of
    <3> QED
      BY <1>1, <1>2, <1>3, <2>1, <3>1, <3>2 DEF CallInv
  <2>4. TodoInv'
    BY <2>1 DEF TodoInv
  <2>5. ASSUME NEW n \in Notifiers PROVE ListInv(n)' /\ RunInv(n)' /\ RowsInv(n)'
    <3>1. ListInv(n)'
      BY <1>1, <1>2, <1>3, <1>4 DEF ListInv
    <3>2. notifier[n].alive => Live(n)
      BY <1>2 DEF RunInv, Live
    <3>3. ~notifier[n].alive /\ notifier'[n].list # "main"
      BY <1>4, <2>2, <3>2
    <3>4. RunInv(n)'
      BY <1>1, <1>2, <1>4, <2>2, <3>3 DEF RunInv
    <3>5. RowsInv(n)'
      BY <2>2 DEF RowsInv
    <3> QED
      BY <3>1, <3>4, <3>5
  <2>6. ASSUME NEW n \in Notifiers, NEW t \in Tokens PROVE Account(n, t)'
    <3>1. Account(n, t) /\ (Hearing(n, t)' <=> Hearing(n, t))
      BY <1>1, <1>2 DEF Hearing
    <3>2. Asked(n, t)'
      BY <1>1, <1>3, <3>1 DEF Account, Asked
    <3>3. Called(n, t)'
      BY <1>1, <1>3, <1>4, <3>1 DEF Account, Called
    <3> QED
      BY <2>2, <3>2, <3>3 DEF Account, Kept, Left, Skips, NextOnes
  <2> QED
    BY <2>3, <2>4, <2>5, <2>6 DEF DInv
<1>9. CASE old \cup new # {}
  <2>1. /\ skipVersion' = 0 /\ workerAt' = (IF at = 0 THEN latest ELSE at)
        /\ worker'.pc = (IF skip = 0 THEN "running" ELSE "skipping")
        /\ worker'.skip = skip /\ worker'.to = latest
        /\ worker'.old = old /\ worker'.new = new
        /\ worker'.todo = (IF skip = 0 THEN old \cup new ELSE old)
    <3> HIDE DEF skip, at
    <3>1. PICK pc, todo : pc = (IF skip = 0 THEN "running" ELSE "skipping")
                          /\ todo = (IF skip = 0 THEN old \cup new ELSE old)
      OBVIOUS
    <3>2. /\ skipVersion' = 0 /\ workerAt' = (IF at = 0 THEN latest ELSE at)
          /\ worker' = [pc |-> pc, skip |-> skip, to |-> latest, old |-> old, new |-> new,
                        todo |-> todo]
      BY <1>1, <1>9, <3>1
    <3> QED
      BY <3>1, <3>2
  <2>2. /\ old # {} => workerAt' = workerAt /\ skip = skipVersion
        /\ old = {} => workerAt' = latest /\ skip = 0
    BY <1>7, <2>1
  <2>3. InPhase' /\ (worker'.pc = "skipping" => skip # 0)
    BY <2>1 DEF InPhase
  <2>4. CallInv'
    <3>1. \A n \in C.package : notifier'[n].hasRun = notifier[n].hasRun
      BY <1>2, <1>4 DEF RealmFacts
    <3>2. Of(Here)' = Of(Here)
      BY <1>5 DEF Of
    <3>3. Delivering => workerAt' = 0 \/ Target =< workerAt'
      <4>1. Target =< latest
        BY AheadOfWorker DEF DInv
      <4> QED
        BY <1>2, <1>7, <2>2, <4>1 DEF CallInv
    <3> QED
      BY <1>1, <1>2, <1>3, <3>1, <3>2, <3>3 DEF CallInv
  <2>5. TodoInv'
    BY <2>1 DEF TodoInv
  <2>6. ASSUME NEW n \in Notifiers, Live(n), notifier[n].hasRun
        PROVE  n \in old /\ n \notin new /\ workerAt' = workerAt /\ skip = skipVersion
               /\ notifier[n].version = workerAt
    <3>1. notifier[n].list = "main" /\ notifier[n].version = workerAt
      BY <1>2, <2>6, HearingRuns DEF DInv, RunInv, Live
    <3> QED
      BY <1>5, <2>2, <2>6, <3>1
  <2>7. ASSUME NEW n \in Notifiers PROVE ListInv(n)' /\ RunInv(n)' /\ RowsInv(n)'
    <3>1. ListInv(n)'
      BY <1>1, <1>2, <1>3, <1>4 DEF ListInv
    <3>2. RunInv(n)'
      <4>1. notifier'[n].alive => notifier'[n].list \in {"new", "main"}
        BY <1>2, <1>4 DEF RunInv
      <4>2. notifier'[n].list \in {"none", "new"} => ~notifier'[n].hasRun
        BY <1>2, <1>4 DEF RunInv
      <4>3. notifier'[n].list = "main" => Live(n)
        BY <1>4, <1>2 DEF Live, NotifierRec
      <4>4. notifier'[n].list = "main" /\ ~notifier'[n].hasRun =>
              InPhase' /\ n \in new /\ n \notin old
        <5>1. notifier[n].list = "main" => notifier[n].hasRun
          BY <1>2, <1>3 DEF RunInv
        <5> QED
          BY <1>4, <1>5, <2>3, <4>3, <5>1 DEF Live
      <4>5. notifier'[n].list = "main" /\ notifier'[n].hasRun =>
              notifier'[n].version = workerAt' /\ n \in old /\ n \notin new
        BY <1>4, <2>6, <4>3
      <4>6. ~notifier'[n].hasRun =>
              notifier'[n].change = {} /\ \A t \in Tokens : ~callbacks'[n][t].initialDelivered
        BY <1>1, <1>2, <1>4 DEF RunInv
      <4> QED
        BY <2>1, <4>1, <4>2, <4>4, <4>5, <4>6 DEF RunInv
    <3>3. RowsInv(n)'
      <4> SUFFICES ASSUME Live(n)
                   PROVE  /\ notifier[n].hasRun /\ Present(n) # {} =>
                               /\ notifier[n].rowsAt = RanAt(n)'
                               /\ notifier[n].change = Between(workerAt', RanAt(n)')
                          /\ ~notifier[n].hasRun /\ worker'.pc = "running" /\ n \in new =>
                               n \in worker'.todo
        BY <1>3, <1>4, <1>5, <2>1 DEF RowsInv
      <4>1. ASSUME notifier[n].hasRun
            PROVE  RanAt(n)' = RanAt(n) /\ workerAt' = workerAt
        <5>1. n \in worker'.todo /\ workerAt' = workerAt
          BY <2>1, <2>6, <4>1
        <5> QED
          BY <1>1, <5>1 DEF RanAt
      <4>2. worker'.pc = "running" /\ n \in new => n \in worker'.todo
        BY <2>1
      <4> QED
        BY <1>2, <4>1, <4>2 DEF RowsInv
    <3> QED
      BY <3>1, <3>2, <3>3
  <2>8. ASSUME NEW n \in Notifiers, NEW t \in Tokens PROVE Account(n, t)'
    <3>1. Account(n, t) /\ (Hearing(n, t)' <=> Hearing(n, t)) /\ RunInv(n)
      BY <1>1, <1>2 DEF Hearing
    <3>2. Live(n) /\ Hearing(n, t) => notifier[n].hasRun
      BY <3>1 DEF RunInv, Hearing
    <3>3. Live(n) /\ notifier[n].hasRun => workerAt' = workerAt /\ skip = skipVersion
      BY <2>6
    <3>4. Asked(n, t)'
      BY <1>1, <1>3, <3>1 DEF Account, Asked
    <3>5. Called(n, t)'
      BY <1>1, <1>3, <1>4, <3>1 DEF Account, Called
    <3>6. Kept(n, t)'
      BY <1>1, <1>3, <1>5, <3>1, <3>2, <3>3 DEF Account, Kept
    <3>7. Left(n, t)'
      <4>1. InDelivery(n) => notifier[n].hasRun
        BY <1>2 DEF InDelivery, CallInv
      <4> QED
        BY <1>1, <1>3, <1>4, <1>5, <3>1, <3>3, <4>1 DEF Account, Left
    <3>8. Skips(n, t)'
      <4> SUFFICES ASSUME Live(n), notifier[n].hasRun, callbacks[n][t].present,
                          callbacks[n][t].skipNext
                   PROVE  /\ workerAt < Shown
                          /\ callbacks[n][t].initialDelivered =>
                               /\ workerAt + 1 \in heard[n][t].asked
                               /\ worker'.pc = "skipping" /\ worker'.skip = workerAt + 1
        BY <1>1, <1>3, <1>4, <1>5, <3>3 DEF Skips
      <4>1. /\ workerAt < Shown
            /\ callbacks[n][t].initialDelivered =>
                 workerAt + 1 \in heard[n][t].asked /\ skipVersion = workerAt + 1
        BY <1>1, <3>1 DEF Account, Skips
      <4>2. workerAt + 1 # 0
        BY <1>2 DEF RealmFacts
      <4> QED
        BY <2>1, <3>3, <4>1, <4>2
    <3>9. NextOnes(n, t)'
      <4> SUFFICES ASSUME Live(n), Hearing(n, t)
                   PROVE  /\ worker'.pc = "skipping" => Shown =< skip
                          /\ Shown =< latest
                          /\ C.pc # "advancing"
                          /\ writer = Here =>
                               /\ C.pc = "idle" => workerAt = latest /\
                                                   callbacks[n][t].accumulated = {}
                               /\ Delivering => n \in C.package
        BY <1>1, <1>3, <1>5, <2>1, <3>1, <3>2, <3>3 DEF NextOnes
      <4>1. Shown =< latest
        BY AheadOfWorker DEF DInv
      <4>2. skip = skipVersion
        BY <3>2, <3>3
      <4>3. worker'.pc = "skipping" => Shown =< skip
        BY <2>3, <3>1, <4>2 DEF Account, NextOnes
      <4> QED
        BY <3>1, <4>1, <4>3 DEF Account, NextOnes
    <3> QED
      BY <3>4, <3>5, <3>6, <3>7, <3>8, <3>9 DEF Account
  <2> QED
    BY <2>4, <2>5, <2>7, <2>8 DEF DInv
<1> QED
  BY <1>8, <1>9
------------------------------------------------------------------------------
(* A notifier runs: the rows of one that has callbacks are those of the     *)
(* version run to, and its change set tells of what lies between.           *)
LEMMA RunStays ==
  ASSUME Instance, DInv, IInv', NEW n \in Notifiers, NEW wasUsed \in BOOLEAN,
         runNotifier(n, wasUsed)
  PROVE  DInv'
<1> DEFINE v == IF worker.pc = "skipping" THEN worker.skip ELSE worker.to
<1>1. /\ InPhase /\ n \in worker.todo /\ run(n, v, wasUsed)
      /\ worker' = [worker EXCEPT !.todo = @ \ {n}]
      /\ UNCHANGED <<latest, writer, version, skipVersion, workerAt, callbacks, call, heard>>
  BY DEF runNotifier, InPhase, fileVars, coordinatorVars
<1>2. /\ RealmFacts /\ CallInv /\ TodoInv
      /\ \A m \in Notifiers : ListInv(m) /\ RunInv(m) /\ RowsInv(m) /\ NotifierFacts(m)
      /\ \A m \in Notifiers, t \in Tokens : Account(m, t)
      /\ notifier \in [Notifiers -> NotifierRec(latest)] /\ worker \in WorkerRec(latest)
  BY Facts DEF DInv, IInv, Types
<1>3. /\ worker'.pc = worker.pc /\ worker'.skip = worker.skip /\ worker'.to = worker.to
      /\ worker'.old = worker.old /\ worker'.new = worker.new
      /\ worker'.todo = worker.todo \ {n}
  BY <1>1, <1>2 DEF WorkerRec
<1>4. PICK f \in NotifierRec(latest) : f = notifier[n]
  BY <1>2
<1>5. v \in Nat /\ workerAt \in Nat /\ workerAt =< v
  BY <1>1, <1>2, AheadOfWorker DEF DInv, InPhase, RealmFacts
<1> HIDE DEF v
<1>6. \A m \in Notifiers : m # n => notifier'[m] = notifier[m]
  BY <1>1, <1>2 DEF run
<1>7. \/ /\ notifier'[n] = f
         /\ \/ ~f.alive
            \/ f.hasRun /\ (f.haveCallbacks => f.rowsAt # 0 /\ Between(f.rowsAt, v) = {})
      \/ \E c : /\ notifier'[n] = [f EXCEPT !.rowsAt = v, !.change = c]
                /\ c = IF f.hasRun /\ f.haveCallbacks THEN Between(f.rowsAt, v) ELSE f.change
  <2>1. PICK c : c = IF f.hasRun /\ f.haveCallbacks THEN Between(f.rowsAt, v) ELSE f.change
    OBVIOUS
  <2>2. notifier'[n] =
          IF ~f.alive \/ (f.hasRun /\ ~f.haveCallbacks /\ ~wasUsed)
             \/ (f.hasRun /\ f.rowsAt # 0 /\ Between(f.rowsAt, v) = {}) THEN f
          ELSE [f EXCEPT !.rowsAt = v, !.change = c]
    BY <1>1, <1>2, <1>4, <2>1 DEF run
  <2>3. CASE ~f.alive \/ (f.hasRun /\ ~f.haveCallbacks /\ ~wasUsed)
             \/ (f.hasRun /\ f.rowsAt # 0 /\ Between(f.rowsAt, v) = {})
    BY <2>2, <2>3
  <2>4. CASE ~(~f.alive \/ (f.hasRun /\ ~f.haveCallbacks /\ ~wasUsed)
               \/ (f.hasRun /\ f.rowsAt # 0 /\ Between(f.rowsAt, v) = {}))
    BY <2>1, <2>2, <2>4
  <2> QED
    BY <2>3, <2>4
<1>8. ASSUME NEW c
      PROVE  LET g == [f EXCEPT !.rowsAt = v, !.change = c]
             IN /\ g.list = f.list /\ g.alive = f.alive /\ g.version = f.version
                /\ g.hasRun = f.hasRun /\ g.haveCallbacks = f.haveCallbacks /\ g.next = f.next
                /\ g.index = f.index /\ g.count = f.count /\ g.rowsAt = v /\ g.change = c
  BY DEF NotifierRec
<1>9. LET g == notifier'[n]
      IN /\ g.list = f.list /\ g.alive = f.alive /\ g.version = f.version
         /\ g.hasRun = f.hasRun /\ g.haveCallbacks = f.haveCallbacks /\ g.next = f.next
         /\ g.index = f.index /\ g.count = f.count
         /\ ~f.hasRun => g.change = f.change
         /\ f.alive /\ ~f.hasRun => g.rowsAt = v
         /\ f.alive /\ f.hasRun /\ f.haveCallbacks =>
              \/ g.rowsAt = v /\ g.change = Between(f.rowsAt, v)
              \/ Between(f.rowsAt, v) = {} /\ g.rowsAt = f.rowsAt /\ g.change = f.change
  <2>1. PICK g : g = notifier'[n]
    OBVIOUS
  <2>2. CASE g = f /\ (~f.alive \/ (f.hasRun /\ (f.haveCallbacks => Between(f.rowsAt, v) = {})))
    BY <2>1, <2>2
  <2>3. ASSUME NEW c, g = [f EXCEPT !.rowsAt = v, !.change = c],
               c = IF f.hasRun /\ f.haveCallbacks THEN Between(f.rowsAt, v) ELSE f.change
        PROVE  /\ g.list = f.list /\ g.alive = f.alive /\ g.version = f.version
               /\ g.hasRun = f.hasRun /\ g.haveCallbacks = f.haveCallbacks /\ g.next = f.next
               /\ g.index = f.index /\ g.count = f.count /\ g.rowsAt = v
               /\ ~f.hasRun => g.change = f.change
               /\ f.hasRun /\ f.haveCallbacks => g.change = Between(f.rowsAt, v)
    BY <1>8, <2>3
  <2>4. CASE ~(g = f /\ (~f.alive \/ (f.hasRun /\ (f.haveCallbacks => Between(f.rowsAt, v) = {}))))
    <3>1. PICK c : /\ g = [f EXCEPT !.rowsAt = v, !.change = c]
                   /\ c = IF f.hasRun /\ f.haveCallbacks THEN Between(f.rowsAt, v) ELSE f.change
      BY <1>7, <2>1, <2>4
    <3> QED
      BY <2>1, <2>3, <3>1
  <2> QED
    BY <2>2, <2>4
<1>10. ASSUME NEW m \in Notifiers
       PROVE  LET g == notifier'[m]
                  e == notifier[m]
              IN /\ g.list = e.list /\ g.alive = e.alive /\ g.version = e.version
                 /\ g.hasRun = e.hasRun /\ g.haveCallbacks = e.haveCallbacks /\ g.next = e.next
                 /\ g.index = e.index /\ g.count = e.count
                 /\ ~e.hasRun => g.change = e.change
  BY <1>4, <1>6, <1>9
<1>11. \A m : Present(m)' = Present(m) /\ \A t : IndexOf(m, t)' = IndexOf(m, t)
  BY <1>1 DEF Present, IndexOf
<1>12. \A m \in Notifiers : Live(m)' <=> Live(m)
  BY <1>10 DEF Live
<1>13. C' = C /\ Shown' = Shown /\ Target' = Target /\ (Delivering' <=> Delivering)
       /\ \A m : InDelivery(m)' <=> InDelivery(m)
  BY <1>1 DEF C, Shown, Target, Delivering, InDelivery
<1>14. CallInv' /\ TodoInv'
  <2>1. \A m \in C.package : notifier'[m].hasRun = notifier[m].hasRun
    BY <1>2, <1>10 DEF RealmFacts
  <2>2. Of(Here)' = Of(Here)
    BY <1>12 DEF Of
  <2>3. CallInv'
    BY <1>1, <1>2, <1>13, <2>1, <2>2 DEF CallInv
  <2>4. TodoInv'
    BY <1>2, <1>3 DEF TodoInv
  <2> QED
    BY <2>3, <2>4
<1>15. ASSUME NEW m \in Notifiers PROVE ListInv(m)' /\ RunInv(m)' /\ RowsInv(m)'
  <2>1. ListInv(m)'
    BY <1>1, <1>2, <1>10, <1>11, <1>13 DEF ListInv
  <2>2. InPhase' <=> InPhase
    BY <1>3 DEF InPhase
  <2>3. RunInv(m)'
    BY <1>1, <1>2, <1>3, <1>10, <2>2 DEF RunInv
  <2>4. CASE m # n
    <3>1. (m \in worker'.todo <=> m \in worker.todo) /\ notifier'[m] = notifier[m]
      BY <1>3, <1>6, <2>4
    <3>2. RanAt(m)' = RanAt(m)
      BY <1>1, <1>3, <3>1 DEF RanAt
    <3>3. RowsInv(m)'
      BY <1>1, <1>2, <1>3, <1>11, <1>12, <3>1, <3>2 DEF RowsInv
    <3> QED
      BY <2>1, <2>3, <3>3
  <2>5. CASE m = n
    <3>1. RanAt(n)' = v /\ RanAt(n) = workerAt
      BY <1>1, <1>3 DEF RanAt, v, InPhase
    <3>2. ASSUME Live(n), f.hasRun, Present(n) # {}
          PROVE  notifier'[n].rowsAt = v /\ notifier'[n].change = Between(workerAt, v)
      <4>1. f.rowsAt = workerAt /\ f.change = Between(workerAt, workerAt)
        BY <1>2, <1>4, <3>1, <3>2 DEF RowsInv
      <4>2. f.alive /\ f.haveCallbacks
        BY <1>2, <1>4, <3>2 DEF ListInv, Live
      <4>3. Between(workerAt, v) = {} => v = workerAt
        BY <1>5 DEF Between
      <4> QED
        BY <1>9, <3>2, <4>1, <4>2, <4>3
    <3>3. Live(n) /\ ~f.hasRun /\ worker.pc = "running" => notifier'[n].rowsAt = worker.to
      BY <1>4, <1>9 DEF v, Live
    <3>4. RowsInv(n)'
      BY <1>1, <1>3, <1>4, <1>9, <1>11, <1>12, <3>1, <3>2, <3>3 DEF RowsInv
    <3> QED
      BY <2>1, <2>3, <2>5, <3>4
  <2> QED
    BY <2>4, <2>5
<1>16. ASSUME NEW m \in Notifiers, NEW t \in Tokens PROVE Account(m, t)'
  <2>1. WorkerSame
    BY <1>1, <1>3 DEF WorkerSame
  <2>2. CallSame(m)
    BY <1>1, <1>13 DEF CallSame
  <2>3. CallbackSame(m, t)
    BY <1>1, <1>10, <1>11, <1>12 DEF CallbackSame
  <2> QED
    BY <1>2, <2>1, <2>2, <2>3, AccountStays
<1> QED
  BY <1>14, <1>15, <1>16 DEF DInv
------------------------------------------------------------------------------
(* The worker hands over: to a callback, and to a notifier.                 *)
LEMMA AddedChanges ==
  ASSUME Instance, IInv, NEW n \in Notifiers, NEW t \in Tokens
  PROVE  LET c == callbacks[n][t]
             d == addChanges(n, c)
         IN /\ d.present = c.present /\ d.initialDelivered = c.initialDelivered
            /\ d.toDeliver = c.toDeliver
            /\ ~c.present => d = c
            /\ c.present =>
                 /\ ~d.skipNext
                 /\ c.skipNext => d.accumulated = c.accumulated
                 /\ ~c.skipNext => d.accumulated = c.accumulated \cup notifier[n].change
<1>1. PICK c \in Change : c = callbacks[n][t]
  BY DEF IInv, Types
<1>2. PICK a : a = c.accumulated \cup notifier[n].change
  OBVIOUS
<1>3. LET d == [c EXCEPT !.skipNext = FALSE]
      IN /\ d.present = c.present /\ d.initialDelivered = c.initialDelivered
         /\ d.toDeliver = c.toDeliver /\ ~d.skipNext /\ d.accumulated = c.accumulated
  BY DEF Change
<1>4. LET d == [c EXCEPT !.accumulated = a]
      IN /\ d.present = c.present /\ d.initialDelivered = c.initialDelivered
         /\ d.toDeliver = c.toDeliver /\ d.skipNext = c.skipNext /\ d.accumulated = a
  BY DEF Change
<1>5. CASE ~c.present
  BY <1>1, <1>5 DEF addChanges
<1>6. CASE c.present /\ c.skipNext
  BY <1>1, <1>3, <1>6 DEF addChanges
<1>7. CASE c.present /\ ~c.skipNext
  <2>1. addChanges(n, c) = [c EXCEPT !.accumulated = a]
    BY <1>2, <1>7 DEF addChanges
  <2> QED
    BY <1>1, <1>2, <1>4, <1>7, <2>1
<1> QED
  BY <1>5, <1>6, <1>7

LEMMA HandedOverFields ==
  ASSUME IInv, NEW n \in Notifiers, NEW v
  PROVE  LET f == notifier[n]
             g == HandedOver(n, v)
         IN /\ g.list = f.list /\ g.alive = f.alive /\ g.rowsAt = f.rowsAt
            /\ g.haveCallbacks = f.haveCallbacks /\ g.next = f.next
            /\ g.index = f.index /\ g.count = f.count
            /\ g.version = v /\ g.hasRun /\ g.change = {}
<1>1. PICK f \in NotifierRec(latest) : f = notifier[n]
  BY DEF IInv, Types
<1>2. LET g == [f EXCEPT !.version = v, !.hasRun = TRUE, !.change = {}]
      IN /\ g.list = f.list /\ g.alive = f.alive /\ g.rowsAt = f.rowsAt
         /\ g.haveCallbacks = f.haveCallbacks /\ g.next = f.next
         /\ g.index = f.index /\ g.count = f.count
         /\ g.version = v /\ g.hasRun /\ g.change = {}
  BY DEF NotifierRec
<1> QED
  BY <1>1, <1>2 DEF HandedOver

(* What a live notifier that has run hands over is what changed up to the   *)
(* version the worker goes to, and whoever skips it asked to.               *)
LEMMA WhatIsHandedOver ==
  ASSUME Instance, DInv, NEW n \in Notifiers, NEW t \in Tokens, NEW V,
         InPhase, worker.todo = {}, V = IF worker.pc = "skipping" THEN worker.skip ELSE worker.to,
         Live(n), notifier[n].hasRun, callbacks[n][t].present
  PROVE  /\ workerAt \in Nat /\ V \in Nat /\ workerAt =< V /\ workerAt # 0 /\ V =< latest
         /\ notifier[n].change = Between(workerAt, V)
         /\ callbacks[n][t].skipNext =>
              /\ workerAt < Shown
              /\ callbacks[n][t].initialDelivered =>
                   Between(workerAt, V) = {} \/ Between(workerAt, V) = {workerAt + 1}
              /\ callbacks[n][t].initialDelivered /\ Between(workerAt, V) # {} =>
                   workerAt + 1 \in heard[n][t].asked
<1>1. IInv /\ RealmFacts /\ RowsInv(n) /\ Account(n, t) /\ ListInv(n)
  BY Facts DEF DInv
<1>2. /\ workerAt \in Nat /\ V \in Nat /\ workerAt =< V /\ workerAt # 0 /\ V =< latest
      /\ V =< worker.to /\ worker.to \in Nat /\ skipVersion \in Nat
  BY <1>1, AheadOfWorker DEF RealmFacts, InPhase
<1>3. Present(n) # {}
  BY DEF Present
<1>4. RanAt(n) = V
  BY DEF RanAt, InPhase
<1>5. notifier[n].change = Between(workerAt, V)
  BY <1>1, <1>3, <1>4 DEF RowsInv
<1>6. ASSUME callbacks[n][t].skipNext, callbacks[n][t].initialDelivered
      PROVE  workerAt + 1 \in heard[n][t].asked /\ (V = workerAt \/ V = workerAt + 1)
  <2>1. /\ workerAt + 1 \in heard[n][t].asked
        /\ skipVersion = workerAt + 1 \/ (worker.pc = "skipping" /\ worker.skip = workerAt + 1)
    BY <1>1, <1>6 DEF Account, Skips
  <2>2. CASE skipVersion = workerAt + 1
    <3>1. worker.to < workerAt + 1
      BY <1>1, <1>2, <2>2, AheadOfWorker
    <3> QED
      BY <1>2, <2>1, <3>1
  <2>3. CASE worker.pc = "skipping" /\ worker.skip = workerAt + 1
    BY <2>1, <2>3
  <2> QED
    BY <2>1, <2>2, <2>3
<1>7. callbacks[n][t].skipNext => workerAt < Shown
  BY <1>1 DEF Account, Skips
<1>8. Between(workerAt, workerAt) = {} /\ Between(workerAt, workerAt + 1) = {workerAt + 1}
  BY <1>2 DEF Between
<1> QED
  BY <1>2, <1>5, <1>6, <1>7, <1>8

(* Handing over keeps the accounts.                                         *)
LEMMA HandedOverAccount ==
  ASSUME Instance, DInv, NEW n \in Notifiers, NEW t \in Tokens, NEW V,
         InPhase, worker.todo = {}, V = IF worker.pc = "skipping" THEN worker.skip ELSE worker.to,
         UNCHANGED <<latest, writer, version, call, heard>>, IndexOf(n, t)' = IndexOf(n, t),
         notifier'[n].index = notifier[n].index, notifier'[n].count = notifier[n].count,
         callbacks'[n][t] \in {callbacks[n][t], addChanges(n, callbacks[n][t])},
         Live(n)' =>
           /\ Live(n)
           /\ \/ ~notifier[n].hasRun /\ ~notifier'[n].hasRun
              \/ /\ callbacks'[n][t] = addChanges(n, callbacks[n][t])
                 /\ workerAt' = V /\ skipVersion' = skipVersion,
         \/ worker'.pc = "signal"
         \/ worker.pc = "skipping" /\ worker'.pc = "running" /\ worker'.to = worker.to
  PROVE  Account(n, t)'
<1> DEFINE c == callbacks[n][t]
           h == heard[n][t]
           d == callbacks'[n][t]
<1>1. /\ RealmFacts /\ CallInv /\ RunInv(n) /\ Account(n, t) /\ CallbackFacts(n, t) /\ IInv
      /\ heard' = heard
  BY Facts DEF DInv
<1>2. /\ C' = C /\ Shown' = Shown /\ Target' = Target /\ latest' = latest /\ writer' = writer
      /\ (Delivering' <=> Delivering) /\ (InDelivery(n)' <=> InDelivery(n))
  BY DEF C, Shown, Target, Delivering, InDelivery
<1>3. /\ d.present = c.present /\ d.initialDelivered = c.initialDelivered
      /\ d.toDeliver = c.toDeliver
      /\ (Hearing(n, t)' <=> Hearing(n, t))
  BY <1>1, AddedChanges DEF Hearing
<1>4. ASSUME Live(n)', notifier[n].hasRun \/ notifier'[n].hasRun, c.present
      PROVE  /\ ~d.skipNext
             /\ c.skipNext => d.accumulated = c.accumulated
             /\ ~c.skipNext => d.accumulated = c.accumulated \cup notifier[n].change
  BY <1>1, <1>4, AddedChanges
<1>5. ASSUME Live(n)', notifier[n].hasRun, c.present
      PROVE  /\ workerAt \in Nat /\ V \in Nat /\ workerAt =< V /\ workerAt # 0 /\ V =< latest
             /\ Live(n) /\ workerAt' = V
             /\ c.skipNext =>
                  /\ workerAt < Shown /\ d.accumulated = c.accumulated
                  /\ c.initialDelivered =>
                       Between(workerAt, V) = {} \/ Between(workerAt, V) = {workerAt + 1}
                  /\ c.initialDelivered /\ Between(workerAt, V) # {} =>
                       workerAt + 1 \in h.asked
             /\ ~c.skipNext => d.accumulated = c.accumulated \cup Between(workerAt, V)
  BY <1>4, <1>5, WhatIsHandedOver
<1>6. Live(n) /\ Hearing(n, t) => notifier[n].hasRun /\ c.present /\ c.initialDelivered
  BY <1>1, HearingRuns DEF Hearing
<1>7. Asked(n, t)' /\ Called(n, t)'
  BY <1>1, <1>2, <1>3 DEF Account, Asked, Called
<1>8. ASSUME Live(n)', Hearing(n, t), Between(workerAt, V) # {} PROVE Shown =< V
  <2>1. workerAt < V
    BY <1>5, <1>6, <1>8 DEF Between
  <2> QED
    BY <1>1, <1>8, <2>1 DEF Account, NextOnes, InPhase
<1>9. Kept(n, t)'
  <2> SUFFICES ASSUME Live(n)', Hearing(n, t)
               PROVE  /\ h.since =< V
                      /\ h.told \cup c.toDeliver \cup d.accumulated \cup {v \in h.asked : v =< V}
                           = Between(h.since, V)
                      /\ d.accumulated # {} => Shown =< V
                      /\ c.toDeliver # {} => InDelivery(n)
    BY <1>1, <1>2, <1>3, <1>6 DEF Kept
  <2>1. /\ h.since =< workerAt
        /\ h.told \cup c.toDeliver \cup c.accumulated \cup {v \in h.asked : v =< workerAt}
             = Between(h.since, workerAt)
        /\ c.accumulated # {} => Shown =< workerAt
        /\ c.toDeliver # {} => InDelivery(n)
    BY <1>1 DEF Account, Kept
  <2>2. /\ workerAt \in Nat /\ V \in Nat /\ workerAt =< V /\ h.since \in Nat /\ Shown \in Nat
        /\ h.asked \in SUBSET Nat
    BY <1>1, <1>5, <1>6 DEF CallbackFacts, RealmFacts
  <2>3. Between(h.since, V) = Between(h.since, workerAt) \cup Between(workerAt, V)
    BY <2>1, <2>2 DEF Between
  <2>4. {v \in h.asked : v =< V} =
          {v \in h.asked : v =< workerAt} \cup (h.asked \cap Between(workerAt, V))
    <3>1. \A v \in h.asked : v =< V <=> v =< workerAt \/ v \in Between(workerAt, V)
      BY <2>2 DEF Between
    <3> QED
      BY <3>1
  <2>5. /\ d.accumulated \subseteq c.accumulated \cup Between(workerAt, V)
        /\ c.accumulated \subseteq d.accumulated
        /\ Between(workerAt, V) \subseteq d.accumulated \cup h.asked
    <3>1. CASE c.skipNext
      BY <1>5, <1>6, <3>1
    <3>2. CASE ~c.skipNext
      BY <1>5, <1>6, <3>2
    <3> QED
      BY <3>1, <3>2
  <2>6. h.told \cup c.toDeliver \cup d.accumulated \cup {v \in h.asked : v =< V}
          = Between(h.since, V)
    <3> HIDE DEF d, c, h
    <3>1. PICK A, B, K, N : /\ A = {v \in h.asked : v =< workerAt}
                            /\ B = {v \in h.asked : v =< V}
                            /\ K = Between(h.since, workerAt) /\ N = Between(workerAt, V)
      OBVIOUS
    <3>2. h.told \cup c.toDeliver \cup c.accumulated \cup A = K
      BY <2>1, <3>1
    <3>3. B = A \cup (h.asked \cap N) /\ Between(h.since, V) = K \cup N
      BY <2>3, <2>4, <3>1
    <3>4. /\ d.accumulated \subseteq c.accumulated \cup N
          /\ c.accumulated \subseteq d.accumulated /\ N \subseteq d.accumulated \cup h.asked
      BY <2>5, <3>1
    <3>5. h.told \cup c.toDeliver \cup d.accumulated \cup B = K \cup N
      BY <3>2, <3>3, <3>4
    <3> QED
      BY <3>1, <3>3, <3>5
  <2>7. d.accumulated # {} => Shown =< V
    <3>1. CASE c.accumulated # {}
      BY <2>1, <2>2, <3>1
    <3>2. CASE Between(workerAt, V) # {}
      BY <1>8, <3>2
    <3> QED
      BY <2>5, <3>1, <3>2
  <2>8. h.since =< V
    BY <2>1, <2>2
  <2> QED
    BY <2>1, <2>6, <2>7, <2>8
<1>10. Left(n, t)'
  <2> SUFFICES ASSUME InDelivery(n), Live(n)', c.present, IndexOf(n, t) < notifier[n].count
               PROVE  d.accumulated = Between(Target, V)
    <3>1. InDelivery(n) => notifier[n].hasRun
      BY <1>1 DEF CallInv, InDelivery
    <3> QED
      BY <1>2, <1>3, <3>1 DEF Left
  <2>1. notifier[n].hasRun /\ Shown =< Target /\ (workerAt = 0 \/ Target =< workerAt)
    BY <1>1 DEF CallInv, InDelivery
  <2>2. c.accumulated = Between(Target, workerAt)
    BY <1>1 DEF Account, Left
  <2>3. /\ Target =< workerAt /\ workerAt =< V /\ workerAt \in Nat /\ V \in Nat
        /\ Target \in Nat /\ Shown \in Nat
    BY <1>1, <1>5, <2>1 DEF RealmFacts
  <2>4. ~c.skipNext
    <3>1. ~(workerAt < Shown)
      BY <2>1, <2>3
    <3> QED
      BY <1>5, <2>1, <3>1
  <2>5. d.accumulated = c.accumulated \cup Between(workerAt, V)
    BY <1>5, <2>1, <2>4
  <2>6. Between(Target, V) = Between(Target, workerAt) \cup Between(workerAt, V)
    BY <2>3 DEF Between
  <2> QED
    BY <2>2, <2>5, <2>6
<1>11. Skips(n, t)'
  <2>1. Live(n)' /\ notifier'[n].hasRun /\ c.present => ~d.skipNext
    BY <1>4
  <2> QED
    BY <1>3, <2>1 DEF Skips
<1>12. NextOnes(n, t)'
  <2> SUFFICES ASSUME Live(n)', Hearing(n, t)
               PROVE  /\ skipVersion # 0 => Shown =< skipVersion
                      /\ worker'.pc # "skipping"
                      /\ worker'.pc = "running" => Shown =< worker.to
                      /\ C.pc # "advancing"
                      /\ writer = Here =>
                           /\ C.pc = "idle" => V = latest /\ d.accumulated = {}
                           /\ Delivering => n \in C.package
    BY <1>2, <1>3, <1>6 DEF NextOnes
  <2>1. /\ skipVersion # 0 => Shown =< skipVersion
        /\ worker.pc = "skipping" => Shown =< worker.skip
        /\ C.pc # "advancing"
        /\ writer = Here =>
             /\ C.pc = "idle" => workerAt = latest /\ c.accumulated = {}
             /\ Delivering => n \in C.package
    BY <1>1 DEF Account, NextOnes
  <2>2. worker'.pc = "running" => Shown =< worker.to
    <3>1. worker.pc = "skipping" => worker.skip =< worker.to
      BY <1>1, AheadOfWorker
    <3> QED
      BY <1>1, <2>1, <3>1 DEF RealmFacts
  <2>3. ASSUME writer = Here, C.pc = "idle" PROVE V = latest /\ d.accumulated = {}
    <3>1. V = latest
      BY <1>1, <1>5, <1>6, <2>1, <2>3 DEF RealmFacts
    <3>2. Between(workerAt, V) = {}
      BY <1>5, <1>6, <2>1, <2>3, <3>1 DEF Between
    <3> QED
      BY <1>5, <1>6, <2>1, <2>3, <3>1, <3>2
  <2> QED
    BY <2>1, <2>2, <2>3
<1> QED
  BY <1>7, <1>9, <1>10, <1>11, <1>12 DEF Account

LEMMA HandOverSkippedStays ==
  ASSUME Instance, DInv, IInv', handOverSkipped
  PROVE  DInv'
<1> DEFINE V == worker.skip
<1>1. /\ UNCHANGED <<latest, writer, version, call, heard, skipVersion>>
      /\ workerAt' = V /\ worker.pc = "skipping" /\ worker.todo = {}
      /\ prepareHandover(worker.old)
      /\ notifier' = [n \in Notifiers |->
           IF n \in worker.old THEN HandedOver(n, V) ELSE notifier[n]]
      /\ worker' = [worker EXCEPT !.pc = "running", !.todo = worker.old \cup worker.new]
  BY DEF handOverSkipped, fileVars
<1>2. /\ RealmFacts /\ CallInv /\ TodoInv /\ IInv
      /\ \A n \in Notifiers : ListInv(n) /\ RunInv(n) /\ RowsInv(n)
      /\ worker \in WorkerRec(latest)
  BY Facts DEF DInv, IInv, Types
<1>3. /\ worker'.pc = "running" /\ worker'.to = worker.to
      /\ worker'.old = worker.old /\ worker'.new = worker.new
      /\ worker'.todo = worker.old \cup worker.new
  BY <1>1, <1>2 DEF WorkerRec
<1>4. InPhase /\ InPhase' /\ worker.old \cup worker.new = In("main")
  BY <1>1, <1>2, <1>3 DEF InPhase, IInv, Work, During
<1>5. V \in Nat /\ workerAt \in Nat /\ workerAt < V /\ workerAt # 0
  BY <1>1, <1>2, <1>4, AheadOfWorker DEF RealmFacts
<1>6. \A n \in Notifiers, t \in Tokens :
        callbacks'[n][t] = IF n \in worker.old THEN addChanges(n, callbacks[n][t])
                           ELSE callbacks[n][t]
  BY <1>1 DEF prepareHandover
<1>7. ASSUME NEW n \in Notifiers, NEW t \in Tokens
      PROVE  LET c == callbacks[n][t]
                 d == callbacks'[n][t]
             IN /\ d.present = c.present /\ d.initialDelivered = c.initialDelivered
                /\ ~c.present => d = c
  <2>1. CASE n \in worker.old
    BY <1>2, <1>6, <2>1, AddedChanges
  <2>2. CASE n \notin worker.old
    BY <1>6, <2>2
  <2> QED
    BY <2>1, <2>2
<1>8. \A n \in Notifiers :
        Present(n)' = Present(n) /\ \A t : IndexOf(n, t)' = IndexOf(n, t)
  <2> SUFFICES ASSUME NEW n \in Notifiers
               PROVE  Present(n)' = Present(n) /\ \A t : IndexOf(n, t)' = IndexOf(n, t)
    OBVIOUS
  <2>1. Present(n)' = Present(n)
    BY <1>7 DEF Present
  <2> QED
    BY <2>1 DEF IndexOf
<1>9. ASSUME NEW n \in Notifiers
      PROVE  LET f == notifier[n]
                 g == notifier'[n]
             IN /\ g.list = f.list /\ g.alive = f.alive /\ g.rowsAt = f.rowsAt
                /\ g.haveCallbacks = f.haveCallbacks /\ g.next = f.next
                /\ g.index = f.index /\ g.count = f.count
                /\ n \in worker.old => g.version = V /\ g.hasRun /\ g.change = {}
                /\ n \notin worker.old => g = f
                /\ f.hasRun => g.hasRun
  <2>1. CASE n \in worker.old
    BY <1>1, <1>2, <2>1, HandedOverFields
  <2>2. CASE n \notin worker.old
    BY <1>1, <2>2
  <2> QED
    BY <2>1, <2>2
<1>10. \A n \in Notifiers : Live(n)' <=> Live(n)
  BY <1>9 DEF Live
<1>11. /\ C' = C /\ Shown' = Shown /\ Target' = Target /\ (Delivering' <=> Delivering)
       /\ \A n : InDelivery(n)' <=> InDelivery(n)
  BY <1>1 DEF C, Shown, Target, Delivering, InDelivery
<1>12. CallInv'
  <2>1. \A n \in C.package : notifier[n].hasRun => notifier'[n].hasRun
    BY <1>2, <1>9 DEF RealmFacts
  <2>2. Of(Here)' = Of(Here)
    BY <1>10 DEF Of
  <2>3. Delivering => Target =< workerAt'
    BY <1>1, <1>2, <1>5 DEF CallInv, RealmFacts
  <2> QED
    BY <1>1, <1>2, <1>11, <2>1, <2>2, <2>3 DEF CallInv
<1>13. TodoInv'
  BY <1>3 DEF TodoInv
<1>14. ASSUME NEW n \in Notifiers PROVE ListInv(n)' /\ RunInv(n)' /\ RowsInv(n)'
  <2>1. ListInv(n)'
    BY <1>1, <1>2, <1>7, <1>8, <1>9, <1>11 DEF ListInv
  <2>2. notifier[n].list = "main" <=> n \in In("main")
    BY DEF In
  <2>3. RunInv(n)'
    <3>1. CASE n \in worker.old
      <4>1. notifier[n].list = "main" /\ n \notin worker.new
        BY <1>2, <1>4, <2>2, <3>1 DEF RunInv
      <4> QED
        BY <1>1, <1>2, <1>3, <1>9, <3>1, <4>1 DEF RunInv
    <3>2. CASE n \notin worker.old
      <4>1. notifier'[n] = notifier[n] /\ ~(notifier[n].list = "main" /\ notifier[n].hasRun)
        BY <1>2, <1>4, <1>9, <3>2 DEF RunInv
      <4> QED
        BY <1>2, <1>3, <1>4, <1>7, <4>1 DEF RunInv
    <3> QED
      BY <3>1, <3>2
  <2>4. RowsInv(n)'
    <3> SUFFICES ASSUME Live(n), notifier'[n].hasRun, Present(n) # {}
                 PROVE  /\ notifier[n].rowsAt = RanAt(n)'
                        /\ notifier'[n].change = Between(V, RanAt(n)')
      <4>1. n \in worker.new => n \in worker'.todo
        BY <1>3
      <4> QED
        BY <1>1, <1>3, <1>8, <1>9, <1>10, <4>1 DEF RowsInv
    <3>1. n \in worker.old
      BY <1>2, <1>4, <1>9 DEF RunInv, Live
    <3>2. RanAt(n)' = V
      BY <1>1, <1>3, <3>1 DEF RanAt
    <3>3. notifier'[n].change = {} /\ Between(V, V) = {}
      BY <1>5, <1>9, <3>1 DEF Between
    <3>4. notifier[n].rowsAt = V
      <4>1. notifier[n].hasRun
        <5>1. n \notin worker.new \/ notifier[n].hasRun
          BY <1>2, <1>4, <2>2, <3>1 DEF RunInv
        <5> QED
          BY <1>2, <1>4, <2>2, <3>1 DEF RunInv
      <4>2. RanAt(n) = V
        BY <1>1 DEF RanAt
      <4> QED
        BY <1>2, <4>1, <4>2 DEF RowsInv
    <3> QED
      BY <3>2, <3>3, <3>4
  <2> QED
    BY <2>1, <2>3, <2>4
<1>15. ASSUME NEW n \in Notifiers, NEW t \in Tokens PROVE Account(n, t)'
  <2>1. V = IF worker.pc = "skipping" THEN worker.skip ELSE worker.to
    BY <1>1
  <2>2. callbacks'[n][t] \in {callbacks[n][t], addChanges(n, callbacks[n][t])}
    BY <1>6
  <2>3. Live(n) => \/ callbacks'[n][t] = addChanges(n, callbacks[n][t])
                   \/ ~notifier[n].hasRun /\ ~notifier'[n].hasRun
    <3>1. n \notin worker.old => ~(notifier[n].list = "main" /\ notifier[n].hasRun)
      BY <1>2, <1>4 DEF RunInv
    <3>2. Live(n) /\ n \notin worker.old => ~notifier[n].hasRun
      BY <1>2, <3>1 DEF RunInv, Live
    <3> QED
      BY <1>6, <1>9, <3>2
  <2> HIDE DEF V
  <2> QED
    BY <1>1, <1>3, <1>4, <1>8, <1>9, <1>10, <2>1, <2>2, <2>3, HandedOverAccount
<1> QED
  BY <1>12, <1>13, <1>14, <1>15 DEF DInv

LEMMA HandOverStays ==
  ASSUME Instance, DInv, IInv', handOver
  PROVE  DInv'
<1> DEFINE V == worker.to
           ran == worker.old \cup worker.new
           dead == Dead("main") \cup Dead("new")
<1>1. /\ UNCHANGED <<latest, writer, version, call, heard>>
      /\ worker.pc = "running" /\ worker.todo = {}
      /\ prepareHandover(ran)
      /\ notifier' = [n \in Notifiers |->
           IF n \in dead
           THEN [(IF n \in ran THEN HandedOver(n, V) ELSE notifier[n]) EXCEPT !.list = "gone"]
           ELSE IF n \in ran THEN HandedOver(n, V) ELSE notifier[n]]
      /\ workerAt' = (IF EmptiedBy("main") THEN 0 ELSE V)
      /\ skipVersion' = (IF EmptiedBy("main") THEN 0 ELSE skipVersion)
      /\ worker' = [Resting EXCEPT !.pc = "signal"]
  BY Zenon DEF handOver, fileVars
<1>2. /\ RealmFacts /\ CallInv /\ TodoInv /\ IInv
      /\ \A n \in Notifiers : ListInv(n) /\ RunInv(n) /\ RowsInv(n)
      /\ notifier \in [Notifiers -> NotifierRec(latest)]
  BY Facts DEF DInv, IInv, Types
<1>3. worker'.pc = "signal" /\ worker'.todo = {}
  BY <1>1 DEF Resting
<1>4. InPhase /\ ~InPhase' /\ ran = In("main") /\ ran \in SUBSET Notifiers
  BY <1>1, <1>2, <1>3 DEF InPhase, IInv, Work, During, RealmFacts
<1>5. V \in Nat /\ workerAt \in Nat /\ workerAt =< V /\ workerAt # 0
  BY <1>1, <1>2, <1>4, AheadOfWorker DEF RealmFacts
<1>6. \A n \in Notifiers, t \in Tokens :
        callbacks'[n][t] = IF n \in ran THEN addChanges(n, callbacks[n][t])
                           ELSE callbacks[n][t]
  BY <1>1 DEF prepareHandover
<1>7. ASSUME NEW n \in Notifiers, NEW t \in Tokens
      PROVE  LET c == callbacks[n][t]
                 d == callbacks'[n][t]
             IN /\ d.present = c.present /\ d.initialDelivered = c.initialDelivered
                /\ ~c.present => d = c
  <2>1. CASE n \in ran
    BY <1>2, <1>6, <2>1, AddedChanges
  <2>2. CASE n \notin ran
    BY <1>6, <2>2
  <2> QED
    BY <2>1, <2>2
<1>8. \A n \in Notifiers :
        Present(n)' = Present(n) /\ \A t : IndexOf(n, t)' = IndexOf(n, t)
  <2> SUFFICES ASSUME NEW n \in Notifiers
               PROVE  Present(n)' = Present(n) /\ \A t : IndexOf(n, t)' = IndexOf(n, t)
    OBVIOUS
  <2>1. Present(n)' = Present(n)
    BY <1>7 DEF Present
  <2> QED
    BY <2>1 DEF IndexOf
<1>9. ASSUME NEW n \in Notifiers
      PROVE  LET f == notifier[n]
                 g == notifier'[n]
             IN /\ g.alive = f.alive /\ g.rowsAt = f.rowsAt
                /\ g.haveCallbacks = f.haveCallbacks /\ g.next = f.next
                /\ g.index = f.index /\ g.count = f.count
                /\ g.list = (IF n \in dead THEN "gone" ELSE f.list)
                /\ n \in ran => g.version = V /\ g.hasRun /\ g.change = {}
                /\ n \notin ran => g.hasRun = f.hasRun /\ g.change = f.change
                /\ f.hasRun => g.hasRun
  <2>1. PICK f \in NotifierRec(latest) : f = notifier[n]
    BY <1>2
  <2>2. V \in 1 .. latest
    BY <1>2, <1>5, AheadOfWorker DEF RealmFacts
  <2>3. PICK h : h = IF n \in ran THEN HandedOver(n, V) ELSE notifier[n]
    OBVIOUS
  <2>4. /\ h \in NotifierRec(latest) /\ h.list = f.list
        /\ h.alive = f.alive /\ h.rowsAt = f.rowsAt
        /\ h.haveCallbacks = f.haveCallbacks /\ h.next = f.next
        /\ h.index = f.index /\ h.count = f.count
        /\ n \in ran => h.version = V /\ h.hasRun /\ h.change = {}
        /\ n \notin ran => h = f
    <3>1. CASE n \in ran
      BY <1>2, <2>1, <2>2, <2>3, <3>1, HandedOverFields, HandedOverRecord
    <3>2. CASE n \notin ran
      BY <2>1, <2>3, <3>2
    <3> QED
      BY <3>1, <3>2
  <2>5. LET g == [h EXCEPT !.list = "gone"]
        IN /\ g.alive = h.alive /\ g.rowsAt = h.rowsAt
           /\ g.haveCallbacks = h.haveCallbacks /\ g.next = h.next
           /\ g.index = h.index /\ g.count = h.count /\ g.version = h.version
           /\ g.hasRun = h.hasRun /\ g.change = h.change /\ g.list = "gone"
    BY <2>4 DEF NotifierRec
  <2>6. notifier'[n] = IF n \in dead THEN [h EXCEPT !.list = "gone"] ELSE h
    BY <1>1, <2>3, Zenon
  <2> HIDE DEF dead, ran, V
  <2>7. CASE n \in dead
    BY <2>1, <2>4, <2>5, <2>6, <2>7
  <2>8. CASE n \notin dead
    BY <2>1, <2>4, <2>6, <2>8
  <2> QED
    BY <2>7, <2>8
<1>10. ASSUME NEW n \in Notifiers
       PROVE  /\ n \in dead <=> notifier[n].list \in {"main", "new"} /\ ~notifier[n].alive
              /\ n \in ran <=> notifier[n].list = "main"
              /\ Live(n)' <=> Live(n)
  <2>1. n \in dead <=> notifier[n].list \in {"main", "new"} /\ ~notifier[n].alive
    BY DEF Dead, In
  <2>2. n \in ran <=> notifier[n].list = "main"
    BY <1>4 DEF In
  <2> HIDE DEF ran, dead
  <2>3. Live(n)' <=> Live(n)
    BY <1>9, <2>1 DEF Live
  <2> QED
    BY <2>1, <2>2, <2>3
<1>11. ASSUME NEW n \in Notifiers, notifier[n].list = "main", notifier[n].alive
       PROVE  workerAt' = V /\ skipVersion' = skipVersion
  <2>1. ~EmptiedBy("main")
    BY <1>11 DEF EmptiedBy, In, Dead
  <2> QED
    BY <1>1, <2>1
<1>12. /\ C' = C /\ Shown' = Shown /\ Target' = Target /\ (Delivering' <=> Delivering)
       /\ \A n : InDelivery(n)' <=> InDelivery(n)
  BY <1>1 DEF C, Shown, Target, Delivering, InDelivery
<1> HIDE DEF ran, dead, V
<1>13. CallInv'
  <2>1. \A n \in C.package : notifier[n].hasRun => notifier'[n].hasRun
    BY <1>2, <1>9 DEF RealmFacts
  <2>2. Of(Here)' = Of(Here)
    BY <1>10 DEF Of
  <2>3. Delivering => workerAt' = 0 \/ Target =< workerAt'
    BY <1>1, <1>2, <1>5 DEF CallInv, RealmFacts
  <2> QED
    BY <1>1, <1>2, <1>12, <2>1, <2>2, <2>3 DEF CallInv
<1>14. TodoInv'
  BY <1>3 DEF TodoInv
<1>15. ASSUME NEW n \in Notifiers PROVE ListInv(n)' /\ RunInv(n)' /\ RowsInv(n)'
  <2>1. ListInv(n)'
    BY <1>1, <1>2, <1>7, <1>8, <1>9, <1>12 DEF ListInv
  <2>2. RunInv(n)'
    <3>1. CASE n \in dead
      <4>1. notifier'[n].list = "gone" /\ ~notifier'[n].alive
        BY <1>9, <1>10, <3>1
      <4>2. ~notifier'[n].hasRun => ~notifier[n].hasRun /\ notifier'[n].change = notifier[n].change
        BY <1>9
      <4> QED
        BY <1>2, <1>7, <4>1, <4>2 DEF RunInv
    <3>2. CASE n \notin dead /\ n \in ran
      <4>1. /\ notifier[n].list = "main" /\ notifier[n].alive /\ notifier'[n].list = "main"
            /\ notifier'[n].hasRun /\ notifier'[n].version = V
        BY <1>9, <1>10, <3>2
      <4>2. workerAt' = V
        BY <1>11, <4>1
      <4> QED
        BY <1>4, <4>1, <4>2 DEF RunInv
    <3>3. CASE n \notin dead /\ n \notin ran
      <4>1. /\ notifier'[n].list = notifier[n].list /\ notifier[n].list # "main"
            /\ notifier'[n].alive = notifier[n].alive
            /\ notifier'[n].hasRun = notifier[n].hasRun
            /\ notifier'[n].change = notifier[n].change
        BY <1>9, <1>10, <3>3
      <4> QED
        BY <1>2, <1>7, <4>1 DEF RunInv
    <3> QED
      BY <3>1, <3>2, <3>3
  <2>3. RowsInv(n)'
    <3> SUFFICES ASSUME Live(n), notifier'[n].hasRun, Present(n) # {}
                 PROVE  /\ notifier'[n].rowsAt = RanAt(n)'
                        /\ notifier'[n].change = Between(workerAt', RanAt(n)')
      BY <1>3, <1>8, <1>10 DEF RowsInv
    <3>1. notifier[n].list = "main" /\ notifier[n].alive /\ n \in ran
      BY <1>2, <1>9, <1>10 DEF RunInv, Live
    <3>2. workerAt' = V /\ RanAt(n)' = V
      BY <1>3, <1>11, <3>1 DEF RanAt
    <3>3. notifier'[n].change = {} /\ Between(V, V) = {}
      BY <1>5, <1>9, <3>1 DEF Between
    <3>4. notifier[n].rowsAt = V
      <4>1. CASE notifier[n].hasRun
        <5>1. RanAt(n) = V
          BY <1>1 DEF RanAt, V
        <5> QED
          BY <1>2, <4>1, <5>1 DEF RowsInv
      <4>2. CASE ~notifier[n].hasRun
        <5>1. n \in worker.new
          BY <1>2, <3>1, <4>2 DEF RunInv
        <5> QED
          BY <1>1, <1>2, <4>2, <5>1 DEF RowsInv, V
      <4> QED
        BY <4>1, <4>2
    <3> QED
      BY <1>9, <3>2, <3>3, <3>4
  <2> QED
    BY <2>1, <2>2, <2>3
<1>16. ASSUME NEW n \in Notifiers, NEW t \in Tokens PROVE Account(n, t)'
  <2>1. V = IF worker.pc = "skipping" THEN worker.skip ELSE worker.to
    BY <1>1 DEF V
  <2>2. callbacks'[n][t] \in {callbacks[n][t], addChanges(n, callbacks[n][t])}
    BY <1>6
  <2>3. Live(n)' =>
          /\ Live(n)
          /\ \/ ~notifier[n].hasRun /\ ~notifier'[n].hasRun
             \/ /\ callbacks'[n][t] = addChanges(n, callbacks[n][t])
                /\ workerAt' = V /\ skipVersion' = skipVersion
    <3>1. CASE notifier[n].list = "main"
      BY <1>6, <1>10, <1>11, <3>1 DEF Live
    <3>2. CASE notifier[n].list # "main"
      <4>1. n \notin ran /\ notifier'[n].hasRun = notifier[n].hasRun
        BY <1>9, <1>10, <3>2
      <4>2. Live(n) => ~notifier[n].hasRun
        BY <1>2, <3>2 DEF RunInv, Live
      <4> QED
        BY <1>10, <4>1, <4>2
    <3> QED
      BY <3>1, <3>2
  <2> QED
    BY <1>1, <1>3, <1>4, <1>8, <1>9, <2>1, <2>2, <2>3, HandedOverAccount
<1> QED
  BY <1>13, <1>14, <1>15, <1>16 DEF DInv
------------------------------------------------------------------------------
(* The step that tells.                                                     *)
LEMMA StutteringStays == Instance /\ DInv /\ UNCHANGED vars => DInv'
<1> SUFFICES ASSUME Instance, DInv, UNCHANGED vars PROVE DInv'
  OBVIOUS
<1>1. UNCHANGED <<latest, writer, version, skipVersion, workerAt, notifier, callbacks,
                  worker, call, heard>>
  BY DEF vars, fileVars, coordinatorVars
<1>2. IInv'
  BY Stuttering DEF DInv
<1>3. /\ C' = C /\ Shown' = Shown /\ Target' = Target /\ (Delivering' <=> Delivering)
      /\ Of(Here)' = Of(Here) /\ \A n : InDelivery(n)' <=> InDelivery(n)
  BY <1>1 DEF C, Shown, Target, Delivering, InDelivery, Of, Live
<1>4. CallInv'
  BY <1>1, <1>3 DEF DInv, CallInv
<1>5. \A n \in Notifiers : CallSame(n)
  BY <1>1, <1>3 DEF CallSame
<1> QED
  BY <1>1, <1>2, <1>3, <1>4, <1>5, QuietStep

LEMMA DeliverySteps == Instance /\ DInv /\ Next => DInv'
<1> SUFFICES ASSUME Instance, DInv, Next PROVE DInv'
  OBVIOUS
<1>1. IInv'
  BY Steps DEF DInv
<1>2. CASE workerStep
  <2>1. CASE \E n \in Notifiers, wasUsed \in BOOLEAN : runNotifier(n, wasUsed)
    BY <1>1, <2>1, RunStays
  <2> QED
    BY <1>1, <1>2, <2>1, StartStays, HandOverSkippedStays, HandOverStays, OthersStay
       DEF workerStep
<1>3. CASE externalCommit
  BY <1>1, <1>3, OthersStay
<1>4. ASSUME NEW r \in Realms, deliveryStep(r) PROVE DInv'
  <2>1. CASE \E n \in Notifiers : callNext(r, n)
    BY <1>1, <2>1, CallStays
  <2>2. CASE delivered(r)
    BY <1>1, <2>2, AdvancesStay, EndsStay
  <2> QED
    BY <1>1, <1>4, <2>1, <2>2, PackageStays, AloneStays, ReturnStays, AsksStay
       DEF deliveryStep
<1>5. ASSUME NEW r \in Realms,
             \/ notify(r) \/ refresh(r) \/ beginTransaction(r) \/ cancelTransaction(r)
             \/ writeInCallback(r)
             \/ \E S \in SUBSET OwnCallbacks(r) : commitTransaction(r, S)
      PROVE  DInv'
  <2>1. CASE \E S \in SUBSET OwnCallbacks(r) : commitTransaction(r, S)
    BY <1>1, <2>1, CommitStays
  <2>2. ~writeInCallback(r)
    BY DEF Instance, writeInCallback
  <2> QED
    BY <1>1, <1>5, <2>1, <2>2, AsksStay
<1>6. ASSUME NEW n \in Notifiers,
             \/ registerNotifier(n) \/ addCallback(n) \/ unregister(n)
             \/ \E t \in Tokens : removeCallback(n, t)
      PROVE  DInv'
  <2>1. CASE \E t \in Tokens : removeCallback(n, t)
    BY <1>1, <2>1, RemoveStays
  <2> QED
    BY <1>1, <1>6, <2>1, RegisterStays, AddStays, UnregisterStays
<1>7. \/ workerStep \/ externalCommit
      \/ \E r \in Realms : \/ deliveryStep(r)
                           \/ notify(r) \/ refresh(r) \/ beginTransaction(r)
                           \/ cancelTransaction(r) \/ writeInCallback(r)
                           \/ \E S \in SUBSET OwnCallbacks(r) : commitTransaction(r, S)
      \/ \E n \in Notifiers : \/ registerNotifier(n) \/ addCallback(n) \/ unregister(n)
                              \/ \E t \in Tokens : removeCallback(n, t)
  BY DEF Next
<1> QED
  BY <1>2, <1>3, <1>4, <1>5, <1>6, <1>7

LEMMA DeliveryInvariance == Instance /\ Spec => []DInv
<1>1. Instance /\ DInv /\ [Next]_vars => Instance' /\ DInv'
  <2>1. Instance => Instance'
    BY DEF Instance, OneRealm
  <2> QED
    BY <2>1, DeliverySteps, StutteringStays
<1> QED
  BY <1>1, DeliveryInitially, PTL DEF Spec

LEMMA NothingIsLost == Instance /\ DInv => NothingLost
<1> SUFFICES ASSUME Instance, DInv, NEW n \in Notifiers, NEW t \in Tokens,
                    Live(n), Hearing(n, t)
             PROVE  LET c == callbacks[n][t]
                        h == heard[n][t]
                        rowsAt == notifier[n].rowsAt
                    IN h.told \cup c.toDeliver \cup c.accumulated \cup notifier[n].change \cup
                         {v \in h.asked : v <= rowsAt}
                         = Between(h.since, rowsAt)
  BY DEF NothingLost, Hearing
<1>1. /\ IInv /\ RealmFacts /\ RunInv(n) /\ RowsInv(n) /\ Account(n, t)
      /\ NotifierFacts(n) /\ CallbackFacts(n, t)
  BY Facts DEF DInv
<1>2. notifier[n].hasRun /\ Present(n) # {}
  BY <1>1, HearingRuns DEF Hearing, Present
<1>3. PICK R : R = notifier[n].rowsAt
  OBVIOUS
<1>4. R = RanAt(n) /\ notifier[n].change = Between(workerAt, R)
  BY <1>1, <1>2, <1>3 DEF RowsInv
<1>5. R \in Nat /\ workerAt \in Nat /\ workerAt =< R
  <2>1. worker.pc = "skipping" => workerAt =< worker.skip
    BY <1>1, AheadOfWorker DEF RealmFacts
  <2>2. worker.pc = "running" => workerAt =< worker.to
    BY <1>1, AheadOfWorker DEF InPhase
  <2> QED
    BY <1>1, <1>4, <2>1, <2>2 DEF RanAt, RealmFacts
<1> DEFINE c == callbacks[n][t]
           h == heard[n][t]
<1>6. /\ h.since =< workerAt /\ h.since \in Nat /\ h.asked \in SUBSET Nat
      /\ h.told \cup c.toDeliver \cup c.accumulated \cup {v \in h.asked : v =< workerAt}
           = Between(h.since, workerAt)
  BY <1>1 DEF Account, Kept, CallbackFacts
<1>7. Between(h.since, R) = Between(h.since, workerAt) \cup Between(workerAt, R)
  BY <1>5, <1>6 DEF Between
<1>8. {v \in h.asked : v =< R} =
        {v \in h.asked : v =< workerAt} \cup (h.asked \cap Between(workerAt, R))
  <2>1. \A v \in h.asked : v =< R <=> v =< workerAt \/ v \in Between(workerAt, R)
    BY <1>5, <1>6 DEF Between
  <2> QED
    BY <2>1
<1> HIDE DEF c, h
<1>9. PICK A, B, K, N : /\ A = {v \in h.asked : v =< workerAt}
                        /\ B = {v \in h.asked : v =< R}
                        /\ K = Between(h.since, workerAt) /\ N = Between(workerAt, R)
  OBVIOUS
<1>10. h.told \cup c.toDeliver \cup c.accumulated \cup A = K
  BY <1>6, <1>9
<1>11. B = A \cup (h.asked \cap N) /\ Between(h.since, R) = K \cup N
  BY <1>7, <1>8, <1>9
<1>12. h.told \cup c.toDeliver \cup c.accumulated \cup N \cup B = K \cup N
  BY <1>10, <1>11
<1> QED
  BY <1>3, <1>4, <1>9, <1>11, <1>12 DEF c, h

(* No change set is dropped, whatever the notifiers, callbacks and versions *)
(* of a Realm, between the run that makes it and the call that tells of it: *)
(* with commits to skip, callbacks added and removed while others are       *)
(* called, notifiers that are run and not delivered, and deliveries that    *)
(* advance the Realm halfway.                                               *)
THEOREM NoChangeIsLost == Instance /\ Spec => []NothingLost
<1>1. Instance /\ Spec => []Instance
  <2>1. Instance => Instance'
    BY DEF Instance, OneRealm
  <2> QED
    BY <2>1, PTL
<1> QED
  BY <1>1, DeliveryInvariance, NothingIsLost, PTL
------------------------------------------------------------------------------
(* Only the call of a callback after the advance tells it anything.         *)
LEMMA CallTells ==
  ASSUME Instance, DInv, NEW r \in Realms, NEW m \in Notifiers, callNext(r, m),
         NEW n \in Notifiers, NEW t \in Tokens, heard'[n][t].told # heard[n][t].told
  PROVE  heard'[n][t].told \cup heard[n][t].asked = Between(heard[n][t].since, version[Owner[n]])
<1> DEFINE c == callbacks[n][t]
           h == heard[n][t]
           u == At(m, Min(ToCall(C.kind, m)))
<1>1. /\ r = Here /\ RealmFacts /\ CallInv /\ ListInv(n) /\ Account(n, t)
      /\ heard \in [Notifiers -> [Tokens -> HeardRec(latest)]]
  BY Facts DEF DInv, RealmFacts, IInv, Types
<1>2. C = call[r]
  BY <1>1 DEF C
<1>3. /\ ToCall(C.kind, m) # {} /\ C.kind # "before" /\ C.pc = "calling" /\ m \in C.todo
      /\ heard' = [heard EXCEPT ![m][u] = Hears(Here, m, u)]
  BY <1>1, <1>2 DEF callNext
<1>4. u \in Tokens /\ u \in Present(m)
  BY <1>3, TheNextOne
<1> HIDE DEF u
<1>5. n = m /\ t = u
  BY <1>1, <1>3, <1>4
<1>6. heard'[n][t] = Hears(Here, n, t)
  BY <1>1, <1>3, <1>5
<1>7. c.present
  BY <1>4, <1>5 DEF Present
<1>8. c.initialDelivered
  <2>1. ASSUME ~c.initialDelivered PROVE FALSE
    <3>1. h.told = {}
      BY <1>1, <2>1 DEF ListInv
    <3>2. heard'[n][t].told = {}
      BY <1>6, <2>1 DEF Hears, NotHeard
    <3> QED
      BY <3>1, <3>2
  <2> QED
    BY <2>1
<1>9. heard'[n][t].told = h.told \cup c.toDeliver
  <2>1. PICK g \in HeardRec(latest) : g = heard[n][t]
    BY <1>1
  <2>2. PICK a : a = h.told \cup c.toDeliver
    OBVIOUS
  <2>3. heard'[n][t] = [g EXCEPT !.told = a]
    BY <1>6, <1>8, <2>1, <2>2 DEF Hears
  <2>4. [g EXCEPT !.told = a].told = a
    BY DEF HeardRec
  <2> QED
    BY <2>2, <2>3, <2>4
<1>10. InDelivery(n) /\ Hearing(n, t)
  BY <1>1, <1>3, <1>5, <1>7, <1>8 DEF InDelivery, Delivering, CallInv, Hearing
<1>11. h.told \cup c.toDeliver \cup h.asked = Between(h.since, Target)
  BY <1>1, <1>10 DEF Account, Called
<1>12. Target = version[Owner[n]]
  BY <1>1, <1>3 DEF Target, Shown, RealmFacts
<1> QED
  BY <1>9, <1>11, <1>12

LEMMA OnlyCallsTell ==
  ASSUME Instance, DInv, [Next]_vars, NEW n \in Notifiers, NEW t \in Tokens,
         heard'[n][t].told # heard[n][t].told, callbacks'[n][t].present
  PROVE  \E r \in Realms, m \in Notifiers : callNext(r, m)
<1>1. /\ heard \in [Notifiers -> [Tokens -> HeardRec(latest)]]
      /\ callbacks \in [Notifiers -> [Tokens -> Change]]
  BY DEF DInv, IInv, Types
<1>2. heard' # heard
  OBVIOUS
<1>3. ASSUME NEW m \in Notifiers, NEW u \in Tokens, removeCallback(m, u) PROVE FALSE
  <2>1. /\ callbacks' = [callbacks EXCEPT ![m][u] = NoCallback]
        /\ heard' = [heard EXCEPT ![m][u] = NotHeard]
    BY <1>3 DEF removeCallback
  <2>2. n = m /\ t = u
    BY <1>1, <2>1
  <2>3. callbacks'[n][t] = NoCallback
    BY <1>1, <2>1, <2>2
  <2> QED
    BY <2>3 DEF NoCallback
<1>4. ASSUME NEW r \in Realms, NEW S \in SUBSET OwnCallbacks(r), commitTransaction(r, S)
      PROVE  FALSE
  <2>1. PICK h \in HeardRec(latest) : h = heard[n][t]
    BY <1>1
  <2>2. PICK a : a = h.asked \cup {latest + 1}
    OBVIOUS
  <2>3. heard'[n][t] = [h EXCEPT !.asked = a] \/ heard'[n][t] = h
    BY <1>4, <2>1, <2>2 DEF commitTransaction, suppressNext
  <2>4. [h EXCEPT !.asked = a].told = h.told
    BY DEF HeardRec
  <2> QED
    BY <2>1, <2>3, <2>4
<1>5. Next
  BY <1>2 DEF vars
<1>6. ~workerStep /\ ~externalCommit
  BY <1>2 DEF workerStep, startNotifiers, handOverSkipped, handOver, signalRealms, runNotifier,
              externalCommit
<1>7. ASSUME NEW r \in Realms
      PROVE  /\ deliveryStep(r) => \E m \in Notifiers : callNext(r, m)
             /\ ~notify(r) /\ ~refresh(r) /\ ~beginTransaction(r) /\ ~cancelTransaction(r)
             /\ ~writeInCallback(r)
  BY <1>2 DEF deliveryStep, packageAndWait, advanceAlone, callbackReturns, delivered,
              waitForNotifiers, notify, refresh, beginTransaction, cancelTransaction,
              writeInCallback
<1>8. ASSUME NEW m \in Notifiers
      PROVE  ~registerNotifier(m) /\ ~addCallback(m) /\ ~unregister(m)
  BY <1>2 DEF registerNotifier, addCallback, unregister
<1> QED
  BY <1>3, <1>4, <1>5, <1>6, <1>7, <1>8 DEF Next

(* Each time a callback is told, what it has been told in all, with what it *)
(* asked to skip, is what changed from its initial call to the version its  *)
(* Realm shows at that moment: never of a version the Realm is not at yet,  *)
(* and never twice in pieces that leave something out.                      *)
THEOREM ToldOfWhatIsShown == Instance /\ Spec => ToldAsOfRealm
<1>1. Instance /\ DInv /\ [Next]_vars =>
        [\A n \in Notifiers, t \in Tokens :
           heard'[n][t].told # heard[n][t].told /\ callbacks'[n][t].present =>
             heard'[n][t].told \cup heard[n][t].asked
               = Between(heard[n][t].since, version[Owner[n]])]_vars
  <2> SUFFICES ASSUME Instance, DInv, [Next]_vars, NEW n \in Notifiers, NEW t \in Tokens,
                      heard'[n][t].told # heard[n][t].told, callbacks'[n][t].present
               PROVE  heard'[n][t].told \cup heard[n][t].asked
                        = Between(heard[n][t].since, version[Owner[n]])
    OBVIOUS
  <2>1. PICK r \in Realms, m \in Notifiers : callNext(r, m)
    BY OnlyCallsTell
  <2> QED
    BY <2>1, CallTells
<1>2. Instance /\ Spec => []Instance
  <2>1. Instance => Instance'
    BY DEF Instance, OneRealm
  <2> QED
    BY <2>1, PTL
<1> QED
  BY <1>1, <1>2, DeliveryInvariance, PTL DEF Spec, ToldAsOfRealm
===============================================================================
