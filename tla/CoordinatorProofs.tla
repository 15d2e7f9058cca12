-------------------------- MODULE CoordinatorProofs --------------------------
(***************************************************************************)
(* Proofs about Coordinator, for any number of Realms, notifiers, versions  *)
(* and callbacks: the types, and what run_async_notifiers asserts and needs *)
(* of the versions it works with.                                           *)
(*                                                                          *)
(* WorkerAssertions is not inductive: a commit during a run sets a version  *)
(* to skip, and the end of the run moves the notifiers.  During says that   *)
(* the run goes to a version of before that, with all the notifiers there   *)
(* are.                                                                     *)
(***************************************************************************)
EXTENDS Coordinator, FiniteSetTheorems, WellFoundedInduction, TLAPS

NotifierRec(l) ==
  [list : {"none", "new", "main", "gone"}, alive : BOOLEAN, version : 1 .. l,
   hasRun : BOOLEAN, rowsAt : 0 .. l, change : SUBSET Versions, haveCallbacks : BOOLEAN,
   next : 1 .. MaxToken + 1, index : 0 .. npos, count : 0 .. npos]
WorkerRec(l) ==
  [pc : {"idle", "skipping", "running", "signal"}, skip : 0 .. l, to : 0 .. l,
   old : SUBSET Notifiers, new : SUBSET Notifiers, todo : SUBSET Notifiers]
CallRec(l) ==
  [pc : {"idle", "packaging", "waiting", "advancing", "calling", "user"},
   kind : {"", "available", "ready", "latest", "write", "before", "after"},
   package : SUBSET Notifiers, todo : SUBSET Notifiers,
   at : Notifiers \cup {None}, to : 0 .. l, wrote : BOOLEAN]
HeardRec(l) == [since : 0 .. l, told : SUBSET Versions, asked : SUBSET Versions]

Types ==
  /\ latest \in Versions /\ writer \in Realms \cup {Nobody}
  /\ version \in [Realms -> 1 .. latest]
  /\ signalled \subseteq Realms /\ wakeUp \in BOOLEAN
  /\ skipVersion \in 0 .. latest /\ workerAt \in 0 .. latest /\ pin \in 0 .. latest
  /\ notifier \in [Notifiers -> NotifierRec(latest)]
  /\ callbacks \in [Notifiers -> [Tokens -> Change]]
  /\ worker \in WorkerRec(latest)
  /\ call \in [Realms -> CallRec(latest)]
  /\ heard \in [Notifiers -> [Tokens -> HeardRec(latest)]]

(* A Realm that is about to advance has a version to advance to.            *)
Ahead == \A r \in Realms : call[r].kind = "before" => call[r].to # 0

During ==
  worker.pc \in {"skipping", "running"} =>
    /\ In("main") # {} /\ worker.old \cup worker.new = In("main")
    /\ worker.to # 0 /\ workerAt <= worker.to
    /\ skipVersion # 0 => worker.to < skipVersion

Work == WorkerAssertions /\ During
IInv == Types /\ Ahead /\ Work
------------------------------------------------------------------------------
LEMMA TypesAre == Types <=> TypeOK
  BY DEF Types, TypeOK, NotifierRec, WorkerRec, CallRec, HeardRec

(* Every set of natural numbers has a least member.                         *)
LEMMA MinIsLeast ==
  ASSUME NEW S \in SUBSET Nat, S # {}
  PROVE  Min(S) \in S /\ \A y \in S : Min(S) =< y
<1>1. PICK R : R = OpToRel(<, Nat)
  OBVIOUS
<1>2. IsWellFoundedOn(R, Nat)
  BY <1>1, NatLessThanWellFounded
<1>3. \A a, b \in Nat : <<a, b>> \in R <=> a < b
  BY <1>1, Zenon DEF OpToRel
<1>4. PICK x \in S : \A y \in S : ~(<<y, x>> \in R)
  <2>1. S \subseteq Nat /\ S # {}
    OBVIOUS
  <2> QED
    BY <1>2, <2>1, WFMin, Zenon
<1>5. \A y \in S : x =< y
  <2> SUFFICES ASSUME NEW y \in S PROVE x =< y
    OBVIOUS
  <2>1. x \in Nat /\ y \in Nat
    OBVIOUS
  <2>2. ~(y < x)
    BY <1>3, <1>4, <2>1, Zenon
  <2> QED
    BY <2>1, <2>2
<1> QED
  BY <1>5 DEF Min

LEMMA PresentCount ==
  ASSUME NEW n
  PROVE  Cardinality(Present(n)) \in 0 .. MaxToken
<1>1. MaxToken \in Nat \ {0}
  BY CoordinatorAssumption DEF CoordinatorAssumption
<1>2. IsFiniteSet(Tokens) /\ Cardinality(Tokens) = MaxToken
  BY <1>1, FS_Interval DEF Tokens
<1>3. /\ IsFiniteSet(Present(n)) /\ Cardinality(Present(n)) <= Cardinality(Tokens)
  BY <1>2, FS_Subset DEF Present
<1> QED
  BY <1>1, <1>2, <1>3, FS_CardinalityType

LEMMA Numbers ==
  /\ MaxToken \in Nat \ {0} /\ MaxVersion \in Nat \ {0} /\ npos \in Nat
  /\ \A t \in Tokens : t \in 1 .. MaxToken
  /\ 0 .. MaxToken \subseteq 0 .. npos
  /\ \A v \in Versions : v \in Nat /\ v # 0
  BY CoordinatorAssumption DEF CoordinatorAssumption, npos, Tokens, Versions

(* Where the worker and its notifiers stay at their versions.               *)
LEMMA WorkStays ==
  ASSUME Work, UNCHANGED <<skipVersion, workerAt, pin>>,
         \A n \in Notifiers : /\ notifier'[n].list = notifier[n].list
                              /\ notifier'[n].version = notifier[n].version,
         \/ worker' = worker
         \/ worker'.pc \notin {"skipping", "running"}
         \/ /\ worker'.pc = worker.pc /\ worker'.skip = worker.skip /\ worker'.to = worker.to
            /\ worker'.old = worker.old /\ worker'.new = worker.new
  PROVE  Work'
<1>1. /\ In("main")' = In("main") /\ In("new")' = In("new")
      /\ \A n \in In("new") : notifier'[n].version = notifier[n].version
  BY DEF In
<1>2. WorkerAssertions'
  BY <1>1 DEF Work, WorkerAssertions
<1>3. During'
  BY <1>1 DEF Work, During
<1> QED
  BY <1>2, <1>3 DEF Work

(* A step of the app or of a delivery.                                      *)
LEMMA AppStep ==
  ASSUME IInv, latest' = latest, UNCHANGED <<coordinatorVars, worker>>,
         writer' \in Realms \cup {Nobody}, version' \in [Realms -> 1 .. latest],
         signalled' \subseteq Realms, wakeUp' \in BOOLEAN,
         notifier' \in [Notifiers -> NotifierRec(latest)],
         \A n \in Notifiers : /\ notifier'[n].list = notifier[n].list
                              /\ notifier'[n].version = notifier[n].version,
         callbacks' \in [Notifiers -> [Tokens -> Change]],
         call' \in [Realms -> CallRec(latest)], Ahead',
         heard' \in [Notifiers -> [Tokens -> HeardRec(latest)]]
  PROVE  IInv'
<1>1. skipVersion' = skipVersion /\ workerAt' = workerAt /\ pin' = pin /\ worker' = worker
  BY DEF coordinatorVars
<1>2. Types'
  BY <1>1 DEF IInv, Types
<1>3. Work'
  BY <1>1, WorkStays DEF IInv
<1> QED
  BY <1>2, <1>3 DEF IInv
------------------------------------------------------------------------------
(* The records of calls.                                                    *)
Kinds == {"available", "ready", "latest", "write", "before", "after"}

LEMMA IdleRecord == ASSUME IInv PROVE Idle \in CallRec(latest) /\ Idle.kind = ""
<1>1. 0 \in 0 .. latest
  BY Numbers DEF IInv, Types
<1> QED
  BY <1>1 DEF Idle, CallRec

LEMMA CallRecords ==
  \A kind \in Kinds, P \in SUBSET Notifiers, l \in Nat : \A to \in 0 .. l :
    /\ Package(kind, P, to) \in CallRec(l)
    /\ Package(kind, P, to).kind = kind /\ Package(kind, P, to).to = to
    /\ Deliver(kind, P, to) \in CallRec(l)
    /\ Deliver(kind, P, to).kind = kind /\ Deliver(kind, P, to).to = to
<1> TAKE kind \in Kinds, P \in SUBSET Notifiers, l \in Nat
<1> TAKE to \in 0 .. l
<1>1. /\ Package(kind, P, to) \in CallRec(l)
      /\ Package(kind, P, to).kind = kind /\ Package(kind, P, to).to = to
  BY DEF Package, Idle, CallRec, Kinds
<1>2. /\ Deliver(kind, P, to) \in CallRec(l)
      /\ Deliver(kind, P, to).kind = kind /\ Deliver(kind, P, to).to = to
  BY DEF Deliver, Idle, CallRec, Kinds
<1> QED
  BY <1>1, <1>2

(* Nothing but where the thread of a Realm is, and who is to be woken.      *)
LEMMA CallOnly ==
  ASSUME IInv, NEW r \in Realms, NEW c \in CallRec(latest),
         call' = [call EXCEPT ![r] = c], c.kind = "before" => c.to # 0,
         UNCHANGED <<latest, version, coordinatorVars, notifier, callbacks, worker, heard>>,
         writer' \in Realms \cup {Nobody}, signalled' \subseteq Realms, wakeUp' \in BOOLEAN
  PROVE  IInv'
<1>1. call' \in [Realms -> CallRec(latest)] /\ Ahead'
  BY DEF IInv, Types, Ahead
<1>2. /\ version' \in [Realms -> 1 .. latest] /\ notifier' = notifier
      /\ notifier' \in [Notifiers -> NotifierRec(latest)]
      /\ callbacks' \in [Notifiers -> [Tokens -> Change]]
      /\ heard' \in [Notifiers -> [Tokens -> HeardRec(latest)]]
  BY DEF IInv, Types
<1> QED
  BY <1>1, <1>2, AppStep

LEMMA NotifyKeeps == ASSUME IInv, NEW r \in Realms, notify(r) PROVE IInv'
<1> DEFINE kind == IF version[r] = latest THEN "available" ELSE "ready"
           c == IF writer = r THEN call[r] ELSE Package(kind, Of(r), 0)
<1>1. /\ UNCHANGED <<latest, version, coordinatorVars, notifier, callbacks, worker, heard>>
      /\ writer' \in Realms \cup {Nobody} /\ signalled' \subseteq Realms /\ wakeUp' \in BOOLEAN
  BY DEF notify, fileVars, IInv, Types
<1>2. c \in CallRec(latest) /\ (c.kind = "before" => c.to # 0)
  <2>1. call[r] \in CallRec(latest) /\ (call[r].kind = "before" => call[r].to # 0)
    BY DEF IInv, Types, Ahead
  <2>2. latest \in Nat /\ 0 \in 0 .. latest /\ Of(r) \in SUBSET Notifiers
        /\ kind \in Kinds /\ kind # "before"
    BY Numbers DEF IInv, Types, Of, Kinds
  <2>3. Package(kind, Of(r), 0) \in CallRec(latest) /\ Package(kind, Of(r), 0).kind = kind
    BY <2>2, CallRecords
  <2> QED
    BY <2>1, <2>2, <2>3
<1>3. call' = [call EXCEPT ![r] = c]
  BY DEF notify, IInv, Types
<1> QED
  BY <1>1, <1>2, <1>3, CallOnly

LEMMA AskKeeps ==
  ASSUME IInv, NEW r \in Realms, refresh(r) \/ beginTransaction(r)
  PROVE  IInv'
<1>1. /\ UNCHANGED <<latest, version, coordinatorVars, notifier, callbacks, worker, heard>>
      /\ writer' \in Realms \cup {Nobody} /\ signalled' \subseteq Realms /\ wakeUp' \in BOOLEAN
  BY DEF refresh, beginTransaction, fileVars, IInv, Types
<1>2. PICK kind \in {"latest", "write"} : call' = [call EXCEPT ![r] = Package(kind, Of(r), latest)]
  BY DEF refresh, beginTransaction
<1>3. latest \in Nat /\ latest \in 0 .. latest /\ Of(r) \in SUBSET Notifiers
        /\ kind \in Kinds /\ kind # "before"
  BY Numbers DEF IInv, Types, Of, Kinds
<1>4. Package(kind, Of(r), latest) \in CallRec(latest) /\ Package(kind, Of(r), latest).kind = kind
  BY <1>3, CallRecords
<1> QED
  BY <1>1, <1>2, <1>3, <1>4, CallOnly

LEMMA WaitReturnCancelKeeps ==
  ASSUME IInv, NEW r \in Realms,
         waitForNotifiers(r) \/ callbackReturns(r) \/ cancelTransaction(r)
  PROVE  IInv'
<1>1. /\ UNCHANGED <<latest, version, coordinatorVars, notifier, callbacks, worker, heard>>
      /\ writer' \in Realms \cup {Nobody} /\ signalled' \subseteq Realms /\ wakeUp' \in BOOLEAN
  BY DEF waitForNotifiers, callbackReturns, cancelTransaction, fileVars, IInv, Types
<1>2. call \in [Realms -> CallRec(latest)] /\ (call[r].kind = "before" => call[r].to # 0)
  BY DEF IInv, Types, Ahead
<1>3. PICK c \in {[call[r] EXCEPT !.pc = "waiting"], [call[r] EXCEPT !.pc = "calling"], call[r]} :
        call' = [call EXCEPT ![r] = c]
  <2>1. CASE waitForNotifiers(r)
    BY <2>1 DEF waitForNotifiers, IInv, Types
  <2>2. CASE callbackReturns(r)
    BY <2>2 DEF callbackReturns, IInv, Types
  <2>3. CASE cancelTransaction(r)
    BY <2>3 DEF cancelTransaction, IInv, Types
  <2> QED
    BY <2>1, <2>2, <2>3
<1>4. c \in CallRec(latest) /\ c.kind = call[r].kind /\ c.to = call[r].to
  <2>1. call[r] \in CallRec(latest)
    BY <1>2
  <2>2. \A g \in CallRec(latest), pc \in {"waiting", "calling"} :
          /\ [g EXCEPT !.pc = pc] \in CallRec(latest)
          /\ [g EXCEPT !.pc = pc].kind = g.kind /\ [g EXCEPT !.pc = pc].to = g.to
    BY DEF CallRec
  <2> QED
    BY <1>3, <2>1, <2>2
<1> QED
  BY <1>1, <1>2, <1>3, <1>4, CallOnly

(* package_and_wait.                                                        *)
LEMMA PackageKeeps == ASSUME IInv, NEW r \in Realms, packageAndWait(r) PROVE IInv'
<1> DEFINE c == call[r]
           P == ToPackage(r)
           v == IF P = {} THEN 0 ELSE notifier[CHOOSE n \in P : TRUE].version
<1>1. /\ latest' = latest /\ writer' = writer /\ version' = version /\ signalled' = signalled
      /\ wakeUp' = wakeUp /\ heard' = heard /\ UNCHANGED <<coordinatorVars, worker>>
      /\ packageForDelivery(P)
  BY DEF packageAndWait, fileVars
<1>2. P \in SUBSET Notifiers /\ c \in CallRec(latest)
  BY DEF ToPackage, IInv, Types, CallRec
<1>3. latest \in Nat /\ latest # 0 /\ notifier \in [Notifiers -> NotifierRec(latest)]
      /\ callbacks \in [Notifiers -> [Tokens -> Change]]
  BY Numbers DEF IInv, Types
<1>4. v \in 0 .. latest /\ (P # {} => v # 0)
  <2>1. CASE P = {}
    BY <1>3, <2>1
  <2>2. CASE P # {}
    <3>1. PICK n \in Notifiers : v = notifier[n].version
      BY <1>2, <2>2
    <3>2. notifier[n].version \in 1 .. latest
      BY <1>3 DEF NotifierRec
    <3> QED
      BY <1>3, <3>1, <3>2
  <2> QED
    BY <2>1, <2>2
<1>5. PICK d \in CallRec(latest) :
        call' = [call EXCEPT ![r] = d] /\ (d.kind = "before" => d.to # 0)
  <2> HIDE DEF v, P
  <2>1. /\ Idle \in CallRec(latest) /\ Idle.kind = ""
        /\ [Idle EXCEPT !.pc = "advancing"] \in CallRec(latest)
        /\ [Idle EXCEPT !.pc = "advancing"].kind = ""
    BY IdleRecord DEF CallRec, Idle
  <2>2. /\ Deliver("after", P, 0) \in CallRec(latest) /\ Deliver("after", P, 0).kind = "after"
        /\ Deliver("before", P, v) \in CallRec(latest) /\ Deliver("before", P, v).to = v
    <3>1. "after" \in Kinds /\ "before" \in Kinds /\ 0 \in 0 .. latest
      BY <1>3 DEF Kinds
    <3>2. P \in SUBSET Notifiers /\ v \in 0 .. latest
      BY <1>2, <1>4 DEF P, v
    <3>3. latest \in Nat
      BY <1>3
    <3> QED
      BY <3>1, <3>2, <3>3, CallRecords
  <2>3. \/ call' = [call EXCEPT ![r] = Idle]
        \/ call' = [call EXCEPT ![r] = [Idle EXCEPT !.pc = "advancing"]]
        \/ call' = [call EXCEPT ![r] = Deliver("after", P, 0)]
        \/ P # {} /\ call' = [call EXCEPT ![r] = Deliver("before", P, v)]
    <3>1. call' = [call EXCEPT ![r] =
            IF c.kind = "available"
            THEN IF P = {} THEN Idle ELSE Deliver("after", P, 0)
            ELSE IF P = {} \/ (c.kind # "ready" /\ v < c.to)
            THEN [Idle EXCEPT !.pc = "advancing"]
            ELSE IF c.kind = "ready" /\ v < version[r] THEN Idle
            ELSE IF v = version[r] /\ c.kind # "latest" THEN Deliver("after", P, 0)
            ELSE Deliver("before", P, v)]
      BY Zenon DEF packageAndWait, P, v
    <3> QED
      BY <3>1
  <2> QED
    BY <1>4, <2>1, <2>2, <2>3
<1>6. call' \in [Realms -> CallRec(latest)] /\ Ahead'
  BY <1>5 DEF IInv, Types, Ahead
<1>7. callbacks' \in [Notifiers -> [Tokens -> Change]]
  <2>1. ASSUME NEW n \in Notifiers, NEW t \in Tokens
        PROVE  [callbacks[n][t] EXCEPT !.toDeliver = callbacks[n][t].accumulated,
                                       !.accumulated = {}] \in Change
    <3>1. callbacks[n][t] \in Change
      BY <1>3
    <3> QED
      BY <3>1 DEF Change
  <2> QED
    BY <1>1, <1>3, <2>1 DEF packageForDelivery
<1>8. notifier' \in [Notifiers -> NotifierRec(latest)]
      /\ \A n \in Notifiers : /\ notifier'[n].list = notifier[n].list
                              /\ notifier'[n].version = notifier[n].version
  <2>1. ASSUME NEW f \in NotifierRec(latest), NEW i \in 0 .. MaxToken
        PROVE  /\ [f EXCEPT !.count = i] \in NotifierRec(latest)
               /\ [f EXCEPT !.count = i].list = f.list
               /\ [f EXCEPT !.count = i].version = f.version
    BY Numbers DEF NotifierRec
  <2>2. ASSUME NEW n \in Notifiers
        PROVE  /\ notifier'[n] \in NotifierRec(latest)
               /\ notifier'[n].list = notifier[n].list
               /\ notifier'[n].version = notifier[n].version
    <3>1. CASE n \in P
      <4>1. notifier'[n] = [notifier[n] EXCEPT !.count = Cardinality(Present(n))]
        BY <1>1, <3>1 DEF packageForDelivery
      <4>2. notifier[n] \in NotifierRec(latest) /\ Cardinality(Present(n)) \in 0 .. MaxToken
        BY <1>3, PresentCount
      <4> QED
        BY <2>1, <4>1, <4>2
    <3>2. CASE n \notin P
      BY <1>1, <1>3, <3>2 DEF packageForDelivery
    <3> QED
      BY <3>1, <3>2
  <2>3. notifier' = [n \in Notifiers |-> notifier'[n]]
    BY <1>1 DEF packageForDelivery
  <2> QED
    BY <2>2, <2>3
<1>9. /\ writer' \in Realms \cup {Nobody} /\ version' \in [Realms -> 1 .. latest]
      /\ signalled' \subseteq Realms /\ wakeUp' \in BOOLEAN
      /\ heard' \in [Notifiers -> [Tokens -> HeardRec(latest)]]
  BY <1>1 DEF IInv, Types
<1> QED
  BY <1>1, <1>6, <1>7, <1>8, <1>9, AppStep

(* advance_to_ready, process_available_async and begin_transaction change   *)
(* the version a Realm reads to one there is.                               *)
LEMMA AdvanceKeeps ==
  ASSUME IInv, NEW r \in Realms, advanceAlone(r) \/ delivered(r)
  PROVE  IInv'
<1>1. /\ latest' = latest /\ writer' = writer /\ signalled' = signalled /\ wakeUp' = wakeUp
      /\ UNCHANGED <<coordinatorVars, worker, notifier, callbacks, heard>>
  BY DEF advanceAlone, delivered, fileVars
<1>2. latest \in Nat /\ latest # 0 /\ version \in [Realms -> 1 .. latest]
      /\ call \in [Realms -> CallRec(latest)] /\ call[r] \in CallRec(latest)
  BY Numbers DEF IInv, Types
<1>3. PICK v \in 1 .. latest : version' = [version EXCEPT ![r] = v]
  <2>1. CASE advanceAlone(r)
    <3>1. latest \in 1 .. latest /\ version' = [version EXCEPT ![r] = latest]
      BY <1>2, <2>1 DEF advanceAlone
    <3> QED
      BY <3>1
  <2>2. CASE delivered(r) /\ call[r].kind = "before"
    <3>1. call[r].to \in 0 .. latest /\ call[r].to # 0
      BY <1>2, <2>2 DEF IInv, Ahead, CallRec
    <3>2. call[r].to \in 1 .. latest /\ latest \in 1 .. latest
      BY <1>2, <3>1
    <3>3. version' = [version EXCEPT ![r] = IF writer = r THEN latest ELSE call[r].to]
      BY <2>2 DEF delivered
    <3> QED
      BY <3>2, <3>3
  <2>3. CASE delivered(r) /\ call[r].kind # "before"
    <3>1. version' = [version EXCEPT ![r] = version[r]] /\ version[r] \in 1 .. latest
      BY <1>2, <2>3 DEF delivered
    <3> QED
      BY <3>1
  <2> QED
    BY <2>1, <2>2, <2>3
<1>4. PICK d \in CallRec(latest) : call' = [call EXCEPT ![r] = d] /\ d.kind # "before"
  <2>1. 0 \in 0 .. latest /\ call[r].package \in SUBSET Notifiers
    <3>1. ASSUME NEW c \in CallRec(latest) PROVE c.package \in SUBSET Notifiers
      BY DEF CallRec
    <3>2. call[r].package \in SUBSET Notifiers
      BY <1>2, <3>1, Zenon
    <3>3. 0 \in 0 .. latest
      BY <1>2
    <3> QED
      BY <3>2, <3>3
  <2>2. Deliver("after", call[r].package, 0) \in CallRec(latest)
        /\ Deliver("after", call[r].package, 0).kind = "after"
    <3>1. "after" \in Kinds
      BY DEF Kinds
    <3> QED
      BY <1>2, <2>1, <3>1, CallRecords
  <2> QED
    <3>1. \/ call' = [call EXCEPT ![r] = Idle]
          \/ call' = [call EXCEPT ![r] = Deliver("after", call[r].package, 0)]
      BY DEF advanceAlone, delivered
    <3>2. Idle \in CallRec(latest) /\ Idle.kind = ""
      BY IdleRecord
    <3> QED
      BY <2>2, <3>1, <3>2
<1>5. call' \in [Realms -> CallRec(latest)] /\ Ahead'
  BY <1>2, <1>4 DEF IInv, Ahead
<1>6. /\ writer' \in Realms \cup {Nobody} /\ version' \in [Realms -> 1 .. latest]
      /\ signalled' \subseteq Realms /\ wakeUp' \in BOOLEAN /\ notifier' = notifier
      /\ notifier' \in [Notifiers -> NotifierRec(latest)]
      /\ callbacks' \in [Notifiers -> [Tokens -> Change]]
      /\ heard' \in [Notifiers -> [Tokens -> HeardRec(latest)]]
  BY <1>1, <1>2, <1>3 DEF IInv, Types
<1> QED
  BY <1>1, <1>5, <1>6, AppStep

(* One notifier and one callback.                                           *)
LEMMA OneNotifier ==
  ASSUME notifier \in [Notifiers -> NotifierRec(latest)], NEW n \in Notifiers,
         NEW f \in NotifierRec(latest), f.list = notifier[n].list,
         f.version = notifier[n].version, notifier' = [notifier EXCEPT ![n] = f]
  PROVE  /\ notifier' \in [Notifiers -> NotifierRec(latest)]
         /\ \A m \in Notifiers : /\ notifier'[m].list = notifier[m].list
                                 /\ notifier'[m].version = notifier[m].version
<1>1. notifier' \in [Notifiers -> NotifierRec(latest)]
  OBVIOUS
<1>2. ASSUME NEW m \in Notifiers
      PROVE  notifier'[m].list = notifier[m].list /\ notifier'[m].version = notifier[m].version
  <2>1. CASE m = n
    BY <2>1
  <2>2. CASE m # n
    BY <2>2
  <2> QED
    BY <2>1, <2>2
<1> QED
  BY <1>1, <1>2

LEMMA OneCallback ==
  ASSUME callbacks \in [Notifiers -> [Tokens -> Change]], NEW n \in Notifiers,
         NEW t \in Tokens, NEW c \in Change, callbacks' = [callbacks EXCEPT ![n][t] = c]
  PROVE  callbacks' \in [Notifiers -> [Tokens -> Change]]
  OBVIOUS

(* A callback is called, or a notifier has called all it has.               *)
LEMMA CallKeeps ==
  ASSUME IInv, NEW r \in Realms, NEW n \in Notifiers, callNext(r, n)
  PROVE  IInv'
<1> DEFINE S == ToCall(call[r].kind, n)
<1>1. /\ latest' = latest /\ writer' = writer /\ version' = version /\ signalled' = signalled
      /\ wakeUp' = wakeUp /\ UNCHANGED <<coordinatorVars, worker>>
  BY DEF callNext, fileVars
<1>2. /\ latest \in Nat /\ latest # 0 /\ notifier \in [Notifiers -> NotifierRec(latest)]
      /\ callbacks \in [Notifiers -> [Tokens -> Change]]
      /\ heard \in [Notifiers -> [Tokens -> HeardRec(latest)]]
      /\ call \in [Realms -> CallRec(latest)] /\ version[r] \in 0 .. latest
  BY Numbers DEF IInv, Types
<1>3. S # {} => Min(S) \in 0 .. npos
  <2>1. S \in SUBSET (0 .. MaxToken - 1) /\ 0 .. MaxToken - 1 \subseteq Nat
        /\ 0 .. MaxToken - 1 \subseteq 0 .. npos
    BY Numbers DEF ToCall
  <2> QED
    BY <2>1, MinIsLeast
<1>4. PICK i \in 0 .. npos : notifier' = [notifier EXCEPT ![n].index = i]
  <2>1. npos \in 0 .. npos
    BY Numbers
  <2> QED
    BY <1>3, <2>1 DEF callNext
<1>5. /\ notifier' \in [Notifiers -> NotifierRec(latest)]
      /\ \A m \in Notifiers : /\ notifier'[m].list = notifier[m].list
                              /\ notifier'[m].version = notifier[m].version
  <2>1. notifier[n] \in NotifierRec(latest)
    BY <1>2
  <2>2. ASSUME NEW f \in NotifierRec(latest)
        PROVE  /\ [f EXCEPT !.index = i] \in NotifierRec(latest)
               /\ [f EXCEPT !.index = i].list = f.list
               /\ [f EXCEPT !.index = i].version = f.version
    BY DEF NotifierRec
  <2>3. notifier' = [notifier EXCEPT ![n] = [notifier[n] EXCEPT !.index = i]]
    BY <1>2, <1>4
  <2> QED
    BY <1>2, <2>1, <2>2, <2>3, OneNotifier
<1>6. PICK d \in CallRec(latest) : call' = [call EXCEPT ![r] = d]
        /\ d.kind = call[r].kind /\ d.to = call[r].to
  <2>1. call[r] \in CallRec(latest)
    BY <1>2
  <2>2. ASSUME NEW c \in CallRec(latest)
        PROVE  /\ [c EXCEPT !.todo = @ \ {n}, !.at = None] \in CallRec(latest)
               /\ [c EXCEPT !.todo = @ \ {n}, !.at = None].kind = c.kind
               /\ [c EXCEPT !.todo = @ \ {n}, !.at = None].to = c.to
               /\ [c EXCEPT !.pc = "user", !.at = n] \in CallRec(latest)
               /\ [c EXCEPT !.pc = "user", !.at = n].kind = c.kind
               /\ [c EXCEPT !.pc = "user", !.at = n].to = c.to
    BY DEF CallRec
  <2>3. \/ call' = [call EXCEPT ![r] = [call[r] EXCEPT !.todo = @ \ {n}, !.at = None]]
        \/ call' = [call EXCEPT ![r] = [call[r] EXCEPT !.pc = "user", !.at = n]]
    BY <1>2 DEF callNext
  <2> QED
    BY <2>1, <2>2, <2>3
<1>7. call' \in [Realms -> CallRec(latest)] /\ Ahead'
  BY <1>2, <1>6 DEF IInv, Ahead
<1>8. callbacks' \in [Notifiers -> [Tokens -> Change]]
      /\ heard' \in [Notifiers -> [Tokens -> HeardRec(latest)]]
  <2>1. CASE callbacks' = callbacks /\ heard' = heard
    BY <1>2, <2>1
  <2>2. CASE \E t : /\ callbacks' = [callbacks EXCEPT ![n][t].initialDelivered = TRUE,
                                                      ![n][t].toDeliver = {}]
                    /\ heard' = [heard EXCEPT ![n][t] = Hears(r, n, t)]
    <3>1. PICK t : /\ callbacks' = [callbacks EXCEPT ![n][t].initialDelivered = TRUE,
                                                     ![n][t].toDeliver = {}]
                   /\ heard' = [heard EXCEPT ![n][t] = Hears(r, n, t)]
      BY <2>2
    <3>2. CASE t \in Tokens
      <4>1. callbacks[n][t] \in Change /\ heard[n][t] \in HeardRec(latest)
        BY <1>2, <3>2
      <4>2. callbacks' \in [Notifiers -> [Tokens -> Change]]
        <5>1. ASSUME NEW c \in Change
              PROVE  [c EXCEPT !.initialDelivered = TRUE, !.toDeliver = {}] \in Change
          BY DEF Change
        <5>2. callbacks' = [callbacks EXCEPT ![n][t] =
                [callbacks[n][t] EXCEPT !.initialDelivered = TRUE, !.toDeliver = {}]]
          BY <1>2, <3>1, <3>2
        <5> QED
          BY <1>2, <3>2, <4>1, <5>1, <5>2, OneCallback
      <4>3. Hears(r, n, t) \in HeardRec(latest)
        BY <1>2, <4>1 DEF HeardRec, NotHeard, Change, Hears
      <4>4. heard' \in [Notifiers -> [Tokens -> HeardRec(latest)]]
        BY <1>2, <3>1, <3>2, <4>3
      <4> QED
        BY <4>2, <4>4
    <3>3. CASE t \notin Tokens
      BY <1>2, <3>1, <3>3
    <3> QED
      BY <3>2, <3>3
  <2> QED
    BY <2>1, <2>2 DEF callNext
<1>9. /\ writer' \in Realms \cup {Nobody} /\ version' \in [Realms -> 1 .. latest]
      /\ signalled' \subseteq Realms /\ wakeUp' \in BOOLEAN
  BY <1>1 DEF IInv, Types
<1> QED
  BY <1>1, <1>5, <1>7, <1>8, <1>9, AppStep

LEMMA AddKeeps == ASSUME IInv, NEW n \in Notifiers, addCallback(n) PROVE IInv'
<1> DEFINE t == notifier[n].next
<1>1. /\ latest' = latest /\ writer' = writer /\ version' = version /\ signalled' = signalled
      /\ call' = call /\ heard' = heard /\ wakeUp' \in {TRUE, wakeUp}
      /\ UNCHANGED <<coordinatorVars, worker>> /\ t \in Tokens
      /\ callbacks' = [callbacks EXCEPT ![n][t].present = TRUE]
  BY DEF addCallback, fileVars
<1>2. /\ notifier \in [Notifiers -> NotifierRec(latest)]
      /\ callbacks \in [Notifiers -> [Tokens -> Change]]
  BY DEF IInv, Types
<1>3. callbacks' \in [Notifiers -> [Tokens -> Change]]
  <2>1. ASSUME NEW c \in Change
        PROVE  [c EXCEPT !.present = TRUE] \in Change
    BY DEF Change
  <2>2. callbacks[n][t] \in Change
    BY <1>1, <1>2
  <2>3. callbacks' = [callbacks EXCEPT ![n][t] = [callbacks[n][t] EXCEPT !.present = TRUE]]
    BY <1>1, <1>2
  <2> HIDE DEF t
  <2> QED
    BY <1>1, <1>2, <2>1, <2>2, <2>3, OneCallback
<1>4. PICK have \in BOOLEAN :
        notifier' = [notifier EXCEPT ![n] = [notifier[n] EXCEPT !.next = t + 1,
                                                               !.haveCallbacks = have]]
  <2>1. notifier[n].haveCallbacks \in BOOLEAN /\ notifier[n] \in NotifierRec(latest)
    BY <1>2 DEF NotifierRec
  <2>2. CASE notifier[n].index = npos
    BY <1>2, <2>2 DEF addCallback
  <2>3. CASE notifier[n].index # npos
    <3>1. notifier' = [notifier EXCEPT ![n] = [notifier[n] EXCEPT !.next = t + 1]]
      BY <1>2, <2>3 DEF addCallback
    <3>2. [notifier[n] EXCEPT !.next = t + 1] =
            [notifier[n] EXCEPT !.next = t + 1, !.haveCallbacks = notifier[n].haveCallbacks]
      BY <2>1 DEF NotifierRec
    <3> QED
      BY <2>1, <3>1, <3>2
  <2> QED
    BY <2>2, <2>3
<1>5. t + 1 \in 1 .. MaxToken + 1
  BY <1>1, Numbers
<1>6. /\ notifier' \in [Notifiers -> NotifierRec(latest)]
      /\ \A m \in Notifiers : /\ notifier'[m].list = notifier[m].list
                              /\ notifier'[m].version = notifier[m].version
  <2> HIDE DEF t
  <2>1. ASSUME NEW f \in NotifierRec(latest)
        PROVE  /\ [f EXCEPT !.next = t + 1, !.haveCallbacks = have] \in NotifierRec(latest)
               /\ [f EXCEPT !.next = t + 1, !.haveCallbacks = have].list = f.list
               /\ [f EXCEPT !.next = t + 1, !.haveCallbacks = have].version = f.version
    BY <1>5 DEF NotifierRec
  <2>2. notifier[n] \in NotifierRec(latest)
    BY <1>2
  <2> QED
    BY <1>2, <1>4, <2>1, <2>2, OneNotifier
<1>7. /\ writer' \in Realms \cup {Nobody} /\ version' \in [Realms -> 1 .. latest]
      /\ signalled' \subseteq Realms /\ wakeUp' \in BOOLEAN
      /\ call' \in [Realms -> CallRec(latest)] /\ Ahead'
      /\ heard' \in [Notifiers -> [Tokens -> HeardRec(latest)]]
  BY <1>1 DEF IInv, Types, Ahead
<1> QED
  BY <1>1, <1>3, <1>6, <1>7, AppStep

LEMMA RemoveKeeps ==
  ASSUME IInv, NEW n \in Notifiers, NEW t \in Tokens, removeCallback(n, t)
  PROVE  IInv'
<1>1. /\ latest' = latest /\ writer' = writer /\ version' = version /\ signalled' = signalled
      /\ call' = call /\ wakeUp' = wakeUp /\ UNCHANGED <<coordinatorVars, worker>>
      /\ callbacks' = [callbacks EXCEPT ![n][t] = NoCallback]
      /\ heard' = [heard EXCEPT ![n][t] = NotHeard]
  BY DEF removeCallback, fileVars
<1>2. /\ latest \in Nat /\ notifier \in [Notifiers -> NotifierRec(latest)]
      /\ callbacks \in [Notifiers -> [Tokens -> Change]]
      /\ heard \in [Notifiers -> [Tokens -> HeardRec(latest)]]
  BY Numbers DEF IInv, Types
<1>3. NoCallback \in Change /\ NotHeard \in HeardRec(latest)
  BY <1>2 DEF NoCallback, NotHeard, Change, HeardRec
<1>4. callbacks' \in [Notifiers -> [Tokens -> Change]]
      /\ heard' \in [Notifiers -> [Tokens -> HeardRec(latest)]]
  BY <1>1, <1>2, <1>3
<1>5. PICK i \in 0 .. npos, j \in 0 .. npos, have \in BOOLEAN :
        notifier' = [notifier EXCEPT ![n].index = i, ![n].count = j, ![n].haveCallbacks = have]
  <2>1. notifier[n].index \in 0 .. npos /\ notifier[n].count \in 0 .. npos
    BY <1>2 DEF NotifierRec
  <2>2. \A k \in 0 .. npos : Minus1(k) \in 0 .. npos
    BY Numbers DEF Minus1
  <2>3. notifier' = [notifier EXCEPT
          ![n].index = IF @ # npos /\ @ >= IndexOf(n, t) THEN Minus1(@) ELSE @,
          ![n].count = Minus1(@),
          ![n].haveCallbacks = Present(n) # {t}]
    BY DEF removeCallback
  <2>4. /\ (IF notifier[n].index # npos /\ notifier[n].index >= IndexOf(n, t)
            THEN Minus1(notifier[n].index) ELSE notifier[n].index) \in 0 .. npos
        /\ Minus1(notifier[n].count) \in 0 .. npos
    BY <2>1, <2>2
  <2>5. notifier' = [notifier EXCEPT
          ![n].index = IF notifier[n].index # npos /\ notifier[n].index >= IndexOf(n, t)
                       THEN Minus1(notifier[n].index) ELSE notifier[n].index,
          ![n].count = Minus1(notifier[n].count),
          ![n].haveCallbacks = Present(n) # {t}]
    BY <1>2, <2>3
  <2> QED
    BY <2>4, <2>5
<1>6. /\ notifier' \in [Notifiers -> NotifierRec(latest)]
      /\ \A m \in Notifiers : /\ notifier'[m].list = notifier[m].list
                              /\ notifier'[m].version = notifier[m].version
  <2>1. ASSUME NEW f \in NotifierRec(latest)
        PROVE  /\ [f EXCEPT !.index = i, !.count = j, !.haveCallbacks = have]
                     \in NotifierRec(latest)
               /\ [f EXCEPT !.index = i, !.count = j, !.haveCallbacks = have].list = f.list
               /\ [f EXCEPT !.index = i, !.count = j, !.haveCallbacks = have].version = f.version
    BY DEF NotifierRec
  <2>2. notifier[n] \in NotifierRec(latest)
    BY <1>2
  <2>3. notifier' = [notifier EXCEPT ![n] =
          [notifier[n] EXCEPT !.index = i, !.count = j, !.haveCallbacks = have]]
    BY <1>2, <1>5
  <2> QED
    BY <1>2, <2>1, <2>2, <2>3, OneNotifier
<1>7. /\ writer' \in Realms \cup {Nobody} /\ version' \in [Realms -> 1 .. latest]
      /\ signalled' \subseteq Realms /\ wakeUp' \in BOOLEAN
      /\ call' \in [Realms -> CallRec(latest)] /\ Ahead'
  BY <1>1 DEF IInv, Types, Ahead
<1> QED
  BY <1>1, <1>4, <1>6, <1>7, AppStep

LEMMA UnregisterKeeps == ASSUME IInv, NEW n \in Notifiers, unregister(n) PROVE IInv'
<1>1. /\ latest' = latest /\ writer' = writer /\ version' = version /\ signalled' = signalled
      /\ call' = call /\ wakeUp' = wakeUp /\ callbacks' = callbacks /\ heard' = heard
      /\ UNCHANGED <<coordinatorVars, worker>>
      /\ notifier' = [notifier EXCEPT ![n].alive = FALSE]
  BY DEF unregister, fileVars
<1>2. notifier \in [Notifiers -> NotifierRec(latest)]
  BY DEF IInv, Types
<1>3. /\ notifier' \in [Notifiers -> NotifierRec(latest)]
      /\ \A m \in Notifiers : /\ notifier'[m].list = notifier[m].list
                              /\ notifier'[m].version = notifier[m].version
  <2>1. \A g \in NotifierRec(latest) :
          LET h == [g EXCEPT !.alive = FALSE]
          IN  h \in NotifierRec(latest) /\ h.list = g.list /\ h.version = g.version
    BY DEF NotifierRec
  <2> QED
    BY <1>1, <1>2, <2>1
<1>4. /\ writer' \in Realms \cup {Nobody} /\ version' \in [Realms -> 1 .. latest]
      /\ signalled' \subseteq Realms /\ wakeUp' \in BOOLEAN
      /\ callbacks' \in [Notifiers -> [Tokens -> Change]]
      /\ call' \in [Realms -> CallRec(latest)] /\ Ahead'
      /\ heard' \in [Notifiers -> [Tokens -> HeardRec(latest)]]
  BY <1>1 DEF IInv, Types, Ahead
<1> QED
  BY <1>1, <1>3, <1>4, AppStep

(* The new notifier is at a version no older than the one that is pinned.   *)
LEMMA RegisterKeeps == ASSUME IInv, NEW n \in Notifiers, registerNotifier(n) PROVE IInv'
<1> DEFINE v == version[Owner[n]]
<1>1. /\ latest' = latest /\ writer' = writer /\ version' = version /\ signalled' = signalled
      /\ call' = call /\ wakeUp' = wakeUp /\ callbacks' = callbacks /\ heard' = heard
      /\ skipVersion' = skipVersion /\ workerAt' = workerAt /\ worker' = worker
      /\ notifier[n].list = "none"
      /\ notifier' = [notifier EXCEPT ![n].list = "new", ![n].alive = TRUE, ![n].version = v]
      /\ pin' = IF pin = 0 \/ v < pin THEN v ELSE pin
  BY DEF registerNotifier, fileVars
<1>2. /\ notifier \in [Notifiers -> NotifierRec(latest)] /\ notifier[n] \in NotifierRec(latest)
      /\ latest \in Nat /\ pin \in 0 .. latest /\ v \in 1 .. latest
  BY Numbers, CoordinatorAssumption DEF IInv, Types, CoordinatorAssumption
<1> HIDE DEF v
<1>3. PICK f \in NotifierRec(latest) : /\ f.list = "new" /\ f.version = v
                                       /\ notifier' = [notifier EXCEPT ![n] = f]
  <2>1. ASSUME NEW g \in NotifierRec(latest)
        PROVE  LET f == [g EXCEPT !.list = "new", !.alive = TRUE, !.version = v]
               IN f \in NotifierRec(latest) /\ f.list = "new" /\ f.version = v
    BY <1>2 DEF NotifierRec
  <2>2. notifier' = [notifier EXCEPT ![n] =
          [notifier[n] EXCEPT !.list = "new", !.alive = TRUE, !.version = v]]
    BY <1>1, <1>2
  <2> QED
    BY <1>2, <2>1, <2>2
<1>4. /\ notifier' \in [Notifiers -> NotifierRec(latest)]
      /\ \A m \in Notifiers : m # n => notifier'[m] = notifier[m]
      /\ notifier'[n].list = "new" /\ notifier'[n].version = v
  BY <1>2, <1>3
<1>5. /\ pin' \in 0 .. latest /\ pin' # 0 /\ pin' <= v /\ (pin # 0 => pin' <= pin)
  BY <1>1, <1>2
<1>6. In("main")' = In("main") /\ \A m \in In("new")' : m = n \/ m \in In("new")
  BY <1>1, <1>4 DEF In
<1>7. Work'
  <2>1. \A m \in In("new")' : pin' <= notifier'[m].version
    <3> TAKE m \in In("new")'
    <3>1. CASE m = n
      BY <1>4, <1>5, <3>1
    <3>2. CASE m # n
      <4>1. m \in In("new") /\ m \in Notifiers
        BY <1>6, <3>2 DEF In
      <4>2. pin # 0 /\ pin <= notifier[m].version
        BY <4>1 DEF IInv, Work, WorkerAssertions
      <4>3. ASSUME NEW g \in NotifierRec(latest) PROVE g.version \in Nat
        BY <1>2 DEF NotifierRec
      <4>4. notifier[m].version \in Nat /\ notifier'[m] = notifier[m]
        BY <1>2, <1>4, <3>2, <4>1, <4>3
      <4> QED
        BY <1>2, <1>5, <4>2, <4>4
    <3> QED
      BY <3>1, <3>2
  <2>2. WorkerAssertions'
    BY <1>1, <1>5, <1>6, <2>1 DEF IInv, Work, WorkerAssertions
  <2>3. During'
    BY <1>1, <1>6 DEF IInv, Work, During
  <2> QED
    BY <2>2, <2>3 DEF Work
<1>8. Types' /\ Ahead'
  BY <1>1, <1>4, <1>5 DEF IInv, Types, Ahead
<1> QED
  BY <1>7, <1>8 DEF IInv
------------------------------------------------------------------------------
(* Commits.                                                                 *)
LEMMA Grows ==
  ASSUME NEW l \in Nat
  PROVE  /\ NotifierRec(l) \subseteq NotifierRec(l + 1)
         /\ WorkerRec(l) \subseteq WorkerRec(l + 1)
         /\ CallRec(l) \subseteq CallRec(l + 1)
         /\ HeardRec(l) \subseteq HeardRec(l + 1)
<1>1. 0 .. l \subseteq 0 .. l + 1 /\ 1 .. l \subseteq 1 .. l + 1
  OBVIOUS
<1>2. NotifierRec(l) \subseteq NotifierRec(l + 1)
  BY <1>1 DEF NotifierRec
<1>3. WorkerRec(l) \subseteq WorkerRec(l + 1)
  BY <1>1 DEF WorkerRec
<1>4. CallRec(l) \subseteq CallRec(l + 1)
  BY <1>1 DEF CallRec
<1>5. HeardRec(l) \subseteq HeardRec(l + 1)
  BY <1>1 DEF HeardRec
<1> QED
  BY <1>2, <1>3, <1>4, <1>5

LEMMA CommitStep ==
  ASSUME IInv, latest' = latest + 1, latest + 1 \in Versions,
         writer' \in Realms \cup {Nobody}, version' \in [Realms -> 1 .. latest + 1],
         wakeUp' = TRUE,
         UNCHANGED <<signalled, workerAt, pin, notifier, worker>>,
         callbacks' \in [Notifiers -> [Tokens -> Change]],
         call' \in [Realms -> CallRec(latest)], Ahead',
         heard' \in [Notifiers -> [Tokens -> HeardRec(latest + 1)]],
         \/ skipVersion' = skipVersion
         \/ skipVersion' = latest + 1 /\ In("main") # {}
  PROVE  IInv'
<1>1. latest \in Nat /\ latest # 0 /\ skipVersion \in 0 .. latest /\ workerAt \in 0 .. latest
      /\ pin \in 0 .. latest /\ worker \in WorkerRec(latest)
      /\ notifier \in [Notifiers -> NotifierRec(latest)] /\ signalled \subseteq Realms
  BY Numbers DEF IInv, Types
<1>2. /\ NotifierRec(latest) \subseteq NotifierRec(latest + 1)
      /\ WorkerRec(latest) \subseteq WorkerRec(latest + 1)
      /\ CallRec(latest) \subseteq CallRec(latest + 1)
  BY <1>1, Grows
<1>3. 0 .. latest \subseteq 0 .. latest + 1 /\ latest + 1 \in 0 .. latest + 1
  BY <1>1
<1>4. Types'
  <2>1. skipVersion' \in 0 .. latest' /\ workerAt' \in 0 .. latest' /\ pin' \in 0 .. latest'
    BY <1>1, <1>3
  <2>2. notifier' \in [Notifiers -> NotifierRec(latest')]
    <3>1. \A m \in Notifiers : notifier[m] \in NotifierRec(latest + 1)
      BY <1>1, <1>2
    <3> QED
      BY <1>1, <3>1
  <2>3. call' \in [Realms -> CallRec(latest')]
    <3>1. \A r \in Realms : call'[r] \in CallRec(latest + 1)
      BY <1>2
    <3> QED
      BY <3>1
  <2>4. worker' \in WorkerRec(latest')
    BY <1>1, <1>2
  <2>5. /\ latest' \in Versions /\ version' \in [Realms -> 1 .. latest']
        /\ heard' \in [Notifiers -> [Tokens -> HeardRec(latest')]]
        /\ signalled' \subseteq Realms /\ wakeUp' \in BOOLEAN
    BY <1>1
  <2> QED
    BY <2>1, <2>2, <2>3, <2>4, <2>5 DEF Types
<1>5. /\ In("main")' = In("main") /\ In("new")' = In("new")
      /\ worker' = worker /\ workerAt' = workerAt /\ pin' = pin /\ notifier' = notifier
  BY DEF In
<1>6. worker.to \in 0 .. latest /\ skipVersion # 0 => skipVersion \in Nat
  BY <1>1 DEF WorkerRec
<1>7. WorkerAssertions'
  <2>1. skipVersion' # 0 => In("main") # {} /\ workerAt < skipVersion'
    BY <1>1 DEF IInv, Work, WorkerAssertions
  <2> QED
    BY <1>5, <2>1 DEF IInv, Work, WorkerAssertions
<1>8. During'
  <2>1. worker.to \in 0 .. latest
    BY <1>1 DEF WorkerRec
  <2>2. worker.pc \in {"skipping", "running"} => (skipVersion' # 0 => worker.to < skipVersion')
    BY <1>1, <2>1 DEF IInv, Work, During
  <2> QED
    BY <1>5, <2>2 DEF IInv, Work, During
<1> QED
  BY <1>4, <1>7, <1>8 DEF IInv, Work

LEMMA CommitKeeps ==
  ASSUME IInv, NEW r \in Realms, NEW S \in SUBSET OwnCallbacks(r), commitTransaction(r, S)
  PROVE  IInv'
<1> DEFINE v == latest + 1
<1>1. /\ latest' = v /\ v \in Versions /\ wakeUp' = TRUE /\ writer' = Nobody
      /\ version' = [version EXCEPT ![r] = v] /\ call' = call
      /\ UNCHANGED <<signalled, workerAt, pin, notifier, worker>>
      /\ suppressNext(r, v, S) /\ setSkipVersion(r, v)
  BY DEF commitTransaction, committed
<1>2. /\ latest \in Nat /\ version \in [Realms -> 1 .. latest]
      /\ callbacks \in [Notifiers -> [Tokens -> Change]]
      /\ call \in [Realms -> CallRec(latest)]
      /\ heard \in [Notifiers -> [Tokens -> HeardRec(latest)]]
  BY Numbers DEF IInv, Types
<1>3. version' \in [Realms -> 1 .. v]
  <2>1. \A q \in Realms : version[q] \in 1 .. v /\ v \in 1 .. v
    <3>1. 1 .. latest \subseteq 1 .. v /\ v \in 1 .. v
      BY <1>2
    <3> QED
      BY <1>2, <3>1
  <2> QED
    BY <1>1, <1>2, <2>1
<1>4. callbacks' \in [Notifiers -> [Tokens -> Change]]
  <2>1. ASSUME NEW c \in Change PROVE [c EXCEPT !.skipNext = TRUE] \in Change
    BY DEF Change
  <2>2. \A n \in Notifiers, t \in Tokens : callbacks[n][t] \in Change
    BY <1>2
  <2>3. \A n \in Notifiers, t \in Tokens : [callbacks[n][t] EXCEPT !.skipNext = TRUE] \in Change
    BY <2>1, <2>2
  <2> QED
    BY <1>1, <2>2, <2>3 DEF suppressNext
<1>5. heard' \in [Notifiers -> [Tokens -> HeardRec(v)]]
  <2> HIDE DEF v
  <2>1. ASSUME NEW h \in HeardRec(v) PROVE [h EXCEPT !.asked = @ \cup {v}] \in HeardRec(v)
    BY <1>1 DEF HeardRec
  <2>2. \A n \in Notifiers, t \in Tokens : heard[n][t] \in HeardRec(v)
    BY <1>2, Grows DEF v
  <2>3. \A n \in Notifiers, t \in Tokens :
          [heard[n][t] EXCEPT !.asked = @ \cup {v}] \in HeardRec(v)
    BY <2>1, <2>2
  <2> QED
    BY <1>1, <2>2, <2>3 DEF suppressNext
<1>6. \/ skipVersion' = skipVersion
      \/ skipVersion' = v /\ In("main") # {}
  BY <1>1 DEF setSkipVersion, Of, In
<1>7. call' \in [Realms -> CallRec(latest)] /\ Ahead'
  BY <1>1, <1>2 DEF IInv, Ahead
<1> QED
  BY <1>1, <1>3, <1>4, <1>5, <1>6, <1>7, CommitStep

LEMMA WriteInCallbackKeeps ==
  ASSUME IInv, NEW r \in Realms, writeInCallback(r)
  PROVE  IInv'
<1> DEFINE v == latest + 1
<1>1. /\ latest' = v /\ v \in Versions /\ wakeUp' = TRUE /\ writer' = writer
      /\ version' = [version EXCEPT ![r] = v] /\ callbacks' = callbacks /\ heard' = heard
      /\ UNCHANGED <<signalled, workerAt, pin, notifier, worker>>
      /\ setSkipVersion(r, v) /\ call' = [call EXCEPT ![r].wrote = TRUE]
  BY DEF writeInCallback, committed
<1>2. /\ latest \in Nat /\ version \in [Realms -> 1 .. latest]
      /\ callbacks \in [Notifiers -> [Tokens -> Change]]
      /\ call \in [Realms -> CallRec(latest)] /\ writer \in Realms \cup {Nobody}
      /\ heard \in [Notifiers -> [Tokens -> HeardRec(latest)]]
  BY Numbers DEF IInv, Types
<1>3. version' \in [Realms -> 1 .. v]
  <2>1. 1 .. latest \subseteq 1 .. v /\ v \in 1 .. v
    BY <1>2
  <2>2. \A q \in Realms : version[q] \in 1 .. v /\ v \in 1 .. v
    BY <1>2, <2>1
  <2> QED
    BY <1>1, <1>2, <2>2
<1>4. heard' \in [Notifiers -> [Tokens -> HeardRec(v)]]
  <2>1. \A n \in Notifiers, t \in Tokens : heard[n][t] \in HeardRec(v)
    BY <1>2, Grows
  <2> QED
    BY <1>1, <1>2, <2>1
<1>5. PICK d \in CallRec(latest) : /\ call' = [call EXCEPT ![r] = d]
                                   /\ d.kind = call[r].kind /\ d.to = call[r].to
  <2>1. ASSUME NEW c \in CallRec(latest)
        PROVE  /\ [c EXCEPT !.wrote = TRUE] \in CallRec(latest)
               /\ [c EXCEPT !.wrote = TRUE].kind = c.kind
               /\ [c EXCEPT !.wrote = TRUE].to = c.to
    BY DEF CallRec
  <2>2. call[r] \in CallRec(latest)
    BY <1>2
  <2>3. call' = [call EXCEPT ![r] = [call[r] EXCEPT !.wrote = TRUE]]
    BY <1>1, <1>2
  <2> QED
    BY <2>1, <2>2, <2>3
<1>6. call' \in [Realms -> CallRec(latest)] /\ Ahead'
  BY <1>2, <1>5 DEF IInv, Ahead
<1>7. \/ skipVersion' = skipVersion
      \/ skipVersion' = v /\ In("main") # {}
  BY <1>1 DEF setSkipVersion, Of, In
<1> QED
  BY <1>1, <1>2, <1>3, <1>4, <1>6, <1>7, CommitStep

LEMMA ExternalKeeps == ASSUME IInv, externalCommit PROVE IInv'
<1> DEFINE v == latest + 1
<1>1. /\ latest' = v /\ v \in Versions /\ wakeUp' = TRUE /\ writer' = writer
      /\ version' = version /\ callbacks' = callbacks /\ heard' = heard
      /\ UNCHANGED <<signalled, workerAt, pin, notifier, worker>>
      /\ skipVersion' = skipVersion /\ call' = call
  BY DEF externalCommit, committed, coordinatorVars
<1>2. /\ latest \in Nat /\ version \in [Realms -> 1 .. latest]
      /\ callbacks \in [Notifiers -> [Tokens -> Change]]
      /\ call \in [Realms -> CallRec(latest)] /\ writer \in Realms \cup {Nobody}
      /\ heard \in [Notifiers -> [Tokens -> HeardRec(latest)]]
  BY Numbers DEF IInv, Types
<1>3. version' \in [Realms -> 1 .. v]
  <2>1. 1 .. latest \subseteq 1 .. v
    BY <1>2
  <2>2. \A q \in Realms : version[q] \in 1 .. v
    BY <1>2, <2>1
  <2> QED
    BY <1>1, <1>2, <2>2
<1>4. heard' \in [Notifiers -> [Tokens -> HeardRec(v)]]
  <2>1. \A n \in Notifiers, t \in Tokens : heard[n][t] \in HeardRec(v)
    BY <1>2, Grows
  <2> QED
    BY <1>1, <1>2, <2>1
<1>5. call' \in [Realms -> CallRec(latest)] /\ Ahead'
  BY <1>1, <1>2 DEF IInv, Ahead
<1> QED
  BY <1>1, <1>2, <1>3, <1>4, <1>5, CommitStep
------------------------------------------------------------------------------
(* The worker.                                                              *)

(* What a notifier of each list becomes when the dead ones are cleaned up.  *)
LEMMA StartKeeps == ASSUME IInv, startNotifiers PROVE IInv'
<1> DEFINE old == In("main") \ Dead("main")
           new == In("new") \ Dead("new")
           skip == IF EmptiedBy("main") THEN 0 ELSE skipVersion
           at == IF EmptiedBy("main") THEN 0 ELSE workerAt
<1>1. /\ latest' = latest /\ writer' = writer /\ version' = version /\ signalled' = signalled
      /\ call' = call /\ callbacks' = callbacks /\ heard' = heard /\ wakeUp' = FALSE
      /\ notifier' = [n \in Notifiers |->
           IF n \in Dead("main") \cup Dead("new") THEN [notifier[n] EXCEPT !.list = "gone"]
           ELSE IF n \in new THEN [notifier[n] EXCEPT !.list = "main"]
           ELSE notifier[n]]
  BY Zenon DEF startNotifiers, fileVars, new
<1>2. /\ old \cup new = {} =>
           /\ skipVersion' = skip /\ workerAt' = at
           /\ pin' = IF EmptiedBy("new") THEN 0 ELSE pin
           /\ worker' = [worker EXCEPT !.pc = "signal"]
      /\ old \cup new # {} =>
           /\ skipVersion' = 0 /\ pin' = 0
           /\ workerAt' = IF at = 0 THEN latest ELSE at
           /\ worker' = [pc |-> IF skip = 0 THEN "running" ELSE "skipping",
                         skip |-> skip, to |-> latest, old |-> old, new |-> new,
                         todo |-> IF skip = 0 THEN old \cup new ELSE old]
  BY DEF startNotifiers
<1>3. /\ latest \in Nat /\ latest # 0 /\ notifier \in [Notifiers -> NotifierRec(latest)]
      /\ skipVersion \in 0 .. latest /\ workerAt \in 0 .. latest /\ pin \in 0 .. latest
      /\ worker \in WorkerRec(latest)
  BY Numbers DEF IInv, Types
<1>4. /\ workerAt = 0 <=> In("main") = {}
      /\ skipVersion # 0 => In("main") # {} /\ workerAt < skipVersion
  BY DEF IInv, Work, WorkerAssertions
<1>5. /\ old \in SUBSET Notifiers /\ new \in SUBSET Notifiers
      /\ EmptiedBy("main") <=> In("main") # {} /\ old = {}
  BY DEF In, Dead, EmptiedBy
<1>6. notifier' \in [Notifiers -> NotifierRec(latest)]
  <2>1. ASSUME NEW f \in NotifierRec(latest), NEW l \in {"main", "gone"}
        PROVE  [f EXCEPT !.list = l] \in NotifierRec(latest)
    BY DEF NotifierRec
  <2>2. \A n \in Notifiers : /\ notifier[n] \in NotifierRec(latest)
                             /\ [notifier[n] EXCEPT !.list = "main"] \in NotifierRec(latest)
                             /\ [notifier[n] EXCEPT !.list = "gone"] \in NotifierRec(latest)
    BY <1>3, <2>1
  <2> QED
    BY <1>1, <2>2
<1>7. In("main")' = old \cup new /\ In("new")' = {}
  <2>1. ASSUME NEW n \in Notifiers
        PROVE  /\ notifier'[n].list = "main" <=> n \in old \cup new
               /\ notifier'[n].list # "new"
    <3>1. ASSUME NEW f \in NotifierRec(latest), NEW l \in {"main", "gone"}
          PROVE  [f EXCEPT !.list = l].list = l
      BY DEF NotifierRec
    <3>2. notifier[n] \in NotifierRec(latest)
      BY <1>3
    <3>3. CASE n \in Dead("main") \cup Dead("new")
      <4>1. notifier'[n].list = "gone"
        BY <1>1, <3>1, <3>2, <3>3
      <4>2. n \notin old \cup new
        BY <3>3 DEF Dead, In
      <4> QED
        BY <4>1, <4>2
    <3>4. CASE n \notin Dead("main") \cup Dead("new") /\ n \in new
      <4>1. notifier'[n].list = "main"
        BY <1>1, <3>1, <3>2, <3>4
      <4> QED
        BY <3>4, <4>1
    <3>5. CASE n \notin Dead("main") \cup Dead("new") /\ n \notin new
      <4>1. notifier'[n].list = notifier[n].list
        BY <1>1, <3>5
      <4>2. notifier[n].list = "main" <=> n \in In("main")
        BY DEF In
      <4>3. notifier[n].list = "new" <=> n \in In("new")
        BY DEF In
      <4> QED
        BY <3>5, <4>1, <4>2, <4>3
    <3> QED
      BY <3>3, <3>4, <3>5
  <2>2. In("main")' = {n \in Notifiers : notifier'[n].list = "main"}
        /\ In("new")' = {n \in Notifiers : notifier'[n].list = "new"}
    BY DEF In
  <2> QED
    BY <1>5, <2>1, <2>2
<1>8. /\ skip \in 0 .. latest /\ at \in 0 .. latest
      /\ skip # 0 => skip = skipVersion /\ at = workerAt /\ ~EmptiedBy("main")
      /\ ~EmptiedBy("main") => at = workerAt
  BY <1>3
<1>9. CASE old \cup new = {}
  <2>1. skipVersion' = skip /\ workerAt' = at /\ pin' \in 0 .. latest
        /\ worker' = [worker EXCEPT !.pc = "signal"]
    BY <1>2, <1>3, <1>9
  <2>2. skip = 0 /\ at = 0
    BY <1>4, <1>5, <1>8, <1>9
  <2> HIDE DEF old, new, skip, at
  <2>3. worker' \in WorkerRec(latest) /\ worker'.pc = "signal"
    BY <1>3, <2>1 DEF WorkerRec
  <2>4. Types'
    BY <1>1, <1>6, <1>8, <2>1, <2>3 DEF IInv, Types
  <2>5. Work'
    BY <1>7, <1>9, <2>1, <2>2, <2>3 DEF Work, WorkerAssertions, During
  <2>6. Ahead'
    BY <1>1 DEF IInv, Ahead
  <2> QED
    BY <2>4, <2>5, <2>6 DEF IInv
<1>10. CASE old \cup new # {}
  <2>1. /\ skipVersion' = 0 /\ pin' = 0
        /\ workerAt' = IF at = 0 THEN latest ELSE at
        /\ worker' = [pc |-> IF skip = 0 THEN "running" ELSE "skipping",
                      skip |-> skip, to |-> latest, old |-> old, new |-> new,
                      todo |-> IF skip = 0 THEN old \cup new ELSE old]
    BY <1>2, <1>10
  <2>2. skip # 0 => old # {} /\ workerAt' = workerAt /\ workerAt < skip
    BY <1>3, <1>4, <1>5, <1>8, <2>1
  <2>3. workerAt' \in 0 .. latest /\ workerAt' # 0
    BY <1>3, <1>8, <2>1
  <2> HIDE DEF old, new, skip, at
  <2>4. /\ worker' \in WorkerRec(latest) /\ worker'.to = latest
        /\ worker'.skip = skip /\ worker'.old = old /\ worker'.new = new
        /\ worker'.pc = "skipping" => skip # 0
    BY <1>3, <1>5, <1>8, <2>1 DEF WorkerRec
  <2>5. Types'
    <3>1. 0 \in 0 .. latest
      BY <1>3
    <3> QED
      BY <1>1, <1>6, <2>1, <2>3, <2>4, <3>1 DEF IInv, Types
  <2>6. WorkerAssertions'
    BY <1>3, <1>7, <1>8, <1>10, <2>1, <2>2, <2>3, <2>4 DEF WorkerAssertions
  <2>7. During'
    BY <1>1, <1>3, <1>7, <1>10, <2>1, <2>3, <2>4 DEF During
  <2>8. Ahead'
    BY <1>1 DEF IInv, Ahead
  <2> QED
    BY <2>5, <2>6, <2>7, <2>8 DEF IInv, Work
<1> QED
  BY <1>9, <1>10

LEMMA RunKeeps ==
  ASSUME IInv, NEW n \in Notifiers, NEW wasUsed \in BOOLEAN, runNotifier(n, wasUsed)
  PROVE  IInv'
<1> DEFINE v == IF worker.pc = "skipping" THEN worker.skip ELSE worker.to
<1>1. /\ latest' = latest /\ writer' = writer /\ version' = version /\ signalled' = signalled
      /\ call' = call /\ callbacks' = callbacks /\ heard' = heard /\ wakeUp' = wakeUp
      /\ UNCHANGED <<skipVersion, workerAt, pin>>
      /\ run(n, v, wasUsed) /\ worker' = [worker EXCEPT !.todo = @ \ {n}]
  BY DEF runNotifier, fileVars, coordinatorVars
<1>2. /\ latest \in Nat /\ latest \in Versions
      /\ notifier \in [Notifiers -> NotifierRec(latest)] /\ worker \in WorkerRec(latest)
  BY Numbers DEF IInv, Types
<1>3. v \in 0 .. latest
  BY <1>2 DEF WorkerRec
<1> HIDE DEF v
<1>4. \A a \in 0 .. latest : Between(a, v) \in SUBSET Versions
  BY <1>2, <1>3, Numbers DEF Between, Versions
<1>5. PICK f \in NotifierRec(latest) :
        /\ notifier' = [notifier EXCEPT ![n] = f]
        /\ f.list = notifier[n].list /\ f.version = notifier[n].version
  <2>1. PICK g \in NotifierRec(latest) : g = notifier[n]
    BY <1>2
  <2>2. g.rowsAt \in 0 .. latest /\ g.change \in SUBSET Versions
    BY <2>1 DEF NotifierRec
  <2>3. ASSUME NEW C \in SUBSET Versions
        PROVE  /\ [g EXCEPT !.rowsAt = v, !.change = C] \in NotifierRec(latest)
               /\ [g EXCEPT !.rowsAt = v, !.change = C].list = g.list
               /\ [g EXCEPT !.rowsAt = v, !.change = C].version = g.version
    BY <1>3 DEF NotifierRec
  <2>4. \/ notifier' = [notifier EXCEPT ![n] = g]
        \/ notifier' = [notifier EXCEPT ![n] =
             [g EXCEPT !.rowsAt = v,
                       !.change = IF g.hasRun /\ g.haveCallbacks
                                  THEN Between(g.rowsAt, v) ELSE g.change]]
    BY <1>1, <2>1 DEF run
  <2>5. (IF g.hasRun /\ g.haveCallbacks THEN Between(g.rowsAt, v) ELSE g.change)
          \in SUBSET Versions
    BY <1>4, <2>2
  <2>6. \/ notifier' = [notifier EXCEPT ![n] = g]
        \/ \E C \in SUBSET Versions :
             notifier' = [notifier EXCEPT ![n] = [g EXCEPT !.rowsAt = v, !.change = C]]
    BY <2>4, <2>5, Zenon
  <2>7. CASE notifier' = [notifier EXCEPT ![n] = g]
    BY <2>1, <2>7
  <2>8. CASE \E C \in SUBSET Versions :
               notifier' = [notifier EXCEPT ![n] = [g EXCEPT !.rowsAt = v, !.change = C]]
    <3>1. PICK C \in SUBSET Versions :
            notifier' = [notifier EXCEPT ![n] = [g EXCEPT !.rowsAt = v, !.change = C]]
      BY <2>8
    <3>2. PICK f : f = [g EXCEPT !.rowsAt = v, !.change = C]
      OBVIOUS
    <3>3. f \in NotifierRec(latest) /\ f.list = g.list /\ f.version = g.version
      BY <2>3, <3>2
    <3> QED
      BY <2>1, <3>1, <3>2, <3>3, Zenon
  <2> QED
    BY <2>6, <2>7, <2>8
<1>6. /\ notifier' \in [Notifiers -> NotifierRec(latest)]
      /\ \A m \in Notifiers : /\ notifier'[m].list = notifier[m].list
                              /\ notifier'[m].version = notifier[m].version
  BY <1>2, <1>5, OneNotifier
<1>7. /\ worker' \in WorkerRec(latest)
      /\ worker'.pc = worker.pc /\ worker'.skip = worker.skip /\ worker'.to = worker.to
      /\ worker'.old = worker.old /\ worker'.new = worker.new
  BY <1>1, <1>2 DEF WorkerRec
<1>8. Work'
  BY <1>1, <1>6, <1>7, WorkStays DEF IInv
<1>9. Types' /\ Ahead'
  BY <1>1, <1>6, <1>7 DEF IInv, Types, Ahead
<1> QED
  BY <1>8, <1>9 DEF IInv

(* prepare_handover gives the callbacks changes of versions there are.      *)
LEMMA HandoverTypes ==
  ASSUME IInv, NEW P \in SUBSET Notifiers, prepareHandover(P)
  PROVE  callbacks' \in [Notifiers -> [Tokens -> Change]]
<1>1. /\ callbacks \in [Notifiers -> [Tokens -> Change]]
      /\ notifier \in [Notifiers -> NotifierRec(latest)]
  BY DEF IInv, Types
<1>2. ASSUME NEW n \in Notifiers, NEW c \in Change
      PROVE  addChanges(n, c) \in Change
  <2>1. notifier[n].change \in SUBSET Versions
    <3>1. ASSUME NEW f \in NotifierRec(latest) PROVE f.change \in SUBSET Versions
      BY DEF NotifierRec
    <3> QED
      BY <1>1, <3>1
  <2>2. ASSUME NEW C \in SUBSET Versions
        PROVE  /\ [c EXCEPT !.skipNext = FALSE] \in Change
               /\ [c EXCEPT !.accumulated = @ \cup C] \in Change
    BY DEF Change
  <2> QED
    BY <2>1, <2>2 DEF addChanges
<1>3. \A n \in Notifiers, t \in Tokens :
        callbacks[n][t] \in Change /\ addChanges(n, callbacks[n][t]) \in Change
  BY <1>1, <1>2
<1>4. callbacks' = [n \in Notifiers |-> [t \in Tokens |->
        IF n \notin P THEN callbacks[n][t] ELSE addChanges(n, callbacks[n][t])]]
  BY DEF prepareHandover
<1>5. \A n \in Notifiers, t \in Tokens :
        (IF n \notin P THEN callbacks[n][t] ELSE addChanges(n, callbacks[n][t])) \in Change
  BY <1>3
<1> QED
  BY <1>4, <1>5, Zenon

LEMMA HandedOverRecord ==
  ASSUME IInv, NEW n \in Notifiers, NEW v \in 1 .. latest
  PROVE  /\ HandedOver(n, v) \in NotifierRec(latest)
         /\ HandedOver(n, v).list = notifier[n].list
<1>1. PICK f \in NotifierRec(latest) : f = notifier[n]
  BY DEF IInv, Types
<1>2. HandedOver(n, v) = [f EXCEPT !.version = v, !.hasRun = TRUE, !.change = {}]
  BY <1>1 DEF HandedOver
<1>3. [f EXCEPT !.version = v, !.hasRun = TRUE, !.change = {}] \in NotifierRec(latest)
      /\ [f EXCEPT !.version = v, !.hasRun = TRUE, !.change = {}].list = f.list
  BY DEF NotifierRec
<1> QED
  BY <1>1, <1>2, <1>3

LEMMA HandOverSkippedKeeps == ASSUME IInv, handOverSkipped PROVE IInv'
<1>1. /\ latest' = latest /\ writer' = writer /\ version' = version /\ signalled' = signalled
      /\ call' = call /\ heard' = heard /\ wakeUp' = wakeUp
      /\ skipVersion' = skipVersion /\ pin' = pin /\ workerAt' = worker.skip
      /\ worker.pc = "skipping" /\ prepareHandover(worker.old)
      /\ notifier' = [n \in Notifiers |->
           IF n \in worker.old THEN HandedOver(n, worker.skip) ELSE notifier[n]]
      /\ worker' = [worker EXCEPT !.pc = "running", !.todo = worker.old \cup worker.new]
  BY DEF handOverSkipped, fileVars
<1>2. /\ latest \in Nat /\ notifier \in [Notifiers -> NotifierRec(latest)]
      /\ worker \in WorkerRec(latest) /\ workerAt \in 0 .. latest /\ skipVersion \in 0 .. latest
  BY Numbers DEF IInv, Types
<1>3. /\ worker.skip \in 0 .. latest /\ worker.to \in 0 .. latest
      /\ worker.old \in SUBSET Notifiers /\ worker.new \in SUBSET Notifiers
  BY <1>2 DEF WorkerRec
<1>4. /\ workerAt < worker.skip /\ worker.skip <= worker.to
      /\ In("main") # {} /\ worker.old \cup worker.new = In("main") /\ worker.to # 0
      /\ skipVersion # 0 => worker.to < skipVersion
  BY <1>1 DEF IInv, Work, WorkerAssertions, During
<1>5. worker.skip \in 1 .. latest
  BY <1>2, <1>3, <1>4
<1>6. /\ notifier' \in [Notifiers -> NotifierRec(latest)]
      /\ \A n \in Notifiers : notifier'[n].list = notifier[n].list
      /\ \A n \in In("new") : notifier'[n] = notifier[n]
  <2>1. ASSUME NEW n \in Notifiers
        PROVE  /\ notifier'[n] \in NotifierRec(latest)
               /\ notifier'[n].list = notifier[n].list
               /\ n \in In("new") => notifier'[n] = notifier[n]
    <3>1. CASE n \in worker.old
      <4>1. notifier'[n] = HandedOver(n, worker.skip)
        BY <1>1, <3>1
      <4>2. n \notin In("new")
        BY <1>4, <3>1 DEF In
      <4> QED
        BY <1>5, <4>1, <4>2, HandedOverRecord
    <3>2. CASE n \notin worker.old
      BY <1>1, <1>2, <3>2
    <3> QED
      BY <3>1, <3>2
  <2>2. notifier' = [n \in Notifiers |-> notifier'[n]]
    BY <1>1
  <2>3. In("new") \subseteq Notifiers
    BY DEF In
  <2> QED
    BY <2>1, <2>2, <2>3
<1>7. /\ worker' \in WorkerRec(latest) /\ worker'.pc = "running" /\ worker'.to = worker.to
      /\ worker'.old = worker.old /\ worker'.new = worker.new
  BY <1>1, <1>2, <1>3 DEF WorkerRec
<1>8. In("main")' = In("main") /\ In("new")' = In("new")
  BY <1>6 DEF In
<1>9. WorkerAssertions'
  <2>1. In("new") # {} => pin # 0 /\ \A n \in In("new") : pin <= notifier[n].version
    BY DEF IInv, Work, WorkerAssertions
  <2>2. workerAt' # 0 /\ (skipVersion' # 0 => workerAt' < skipVersion')
    BY <1>1, <1>2, <1>3, <1>4, <1>5
  <2> QED
    BY <1>1, <1>4, <1>6, <1>7, <1>8, <2>1, <2>2 DEF WorkerAssertions
<1>10. During'
  BY <1>1, <1>4, <1>7, <1>8 DEF During
<1>11. callbacks' \in [Notifiers -> [Tokens -> Change]]
  BY <1>1, <1>3, HandoverTypes
<1>12. Types' /\ Ahead'
  BY <1>1, <1>3, <1>6, <1>7, <1>11 DEF IInv, Types, Ahead
<1> QED
  BY <1>9, <1>10, <1>12 DEF IInv, Work

LEMMA HandOverKeeps == ASSUME IInv, handOver PROVE IInv'
<1> DEFINE ran == worker.old \cup worker.new
           dead == Dead("main") \cup Dead("new")
<1>1. /\ latest' = latest /\ writer' = writer /\ version' = version /\ signalled' = signalled
      /\ call' = call /\ heard' = heard /\ wakeUp' = wakeUp
      /\ worker.pc = "running" /\ prepareHandover(ran)
      /\ notifier' = [n \in Notifiers |->
           IF n \in dead
           THEN [(IF n \in ran THEN HandedOver(n, worker.to) ELSE notifier[n])
                   EXCEPT !.list = "gone"]
           ELSE IF n \in ran THEN HandedOver(n, worker.to) ELSE notifier[n]]
      /\ workerAt' = (IF EmptiedBy("main") THEN 0 ELSE worker.to)
      /\ skipVersion' = (IF EmptiedBy("main") THEN 0 ELSE skipVersion)
      /\ pin' = (IF EmptiedBy("new") THEN 0 ELSE pin)
      /\ worker' = [Resting EXCEPT !.pc = "signal"]
  BY Zenon DEF handOver, fileVars
<1>2. /\ latest \in Nat /\ notifier \in [Notifiers -> NotifierRec(latest)]
      /\ worker \in WorkerRec(latest) /\ workerAt \in 0 .. latest
      /\ skipVersion \in 0 .. latest /\ pin \in 0 .. latest
  BY Numbers DEF IInv, Types
<1>3. /\ worker.to \in 0 .. latest
      /\ worker.old \in SUBSET Notifiers /\ worker.new \in SUBSET Notifiers
  BY <1>2 DEF WorkerRec
<1>4. /\ In("main") # {} /\ ran = In("main") /\ worker.to # 0
      /\ skipVersion # 0 => worker.to < skipVersion
  BY <1>1 DEF IInv, Work, During
<1>5. worker.to \in 1 .. latest
  BY <1>2, <1>3, <1>4
<1>6. ASSUME NEW n \in Notifiers
      PROVE  /\ notifier'[n] \in NotifierRec(latest)
             /\ notifier'[n].list = (IF n \in dead THEN "gone" ELSE notifier[n].list)
             /\ n \in In("new") \ dead => notifier'[n] = notifier[n]
  <2>1. ASSUME NEW f \in NotifierRec(latest)
        PROVE  /\ [f EXCEPT !.list = "gone"] \in NotifierRec(latest)
               /\ [f EXCEPT !.list = "gone"].list = "gone"
    BY DEF NotifierRec
  <2>2. PICK f : f = IF n \in ran THEN HandedOver(n, worker.to) ELSE notifier[n]
    OBVIOUS
  <2>3. f \in NotifierRec(latest) /\ f.list = notifier[n].list
    BY <1>2, <1>5, <2>2, HandedOverRecord
  <2>4. n \in In("new") => f = notifier[n]
    BY <1>4, <2>2 DEF In
  <2>5. notifier'[n] = IF n \in dead THEN [f EXCEPT !.list = "gone"] ELSE f
    BY <1>1, <2>2, Zenon
  <2> HIDE DEF dead
  <2> QED
    BY <2>1, <2>3, <2>4, <2>5
<1>7. notifier' \in [Notifiers -> NotifierRec(latest)]
  <2>1. notifier' = [n \in Notifiers |-> notifier'[n]]
    BY <1>1
  <2> QED
    BY <1>6, <2>1
<1>8. /\ In("main")' = In("main") \ Dead("main") /\ In("new")' = In("new") \ Dead("new")
      /\ \A n \in In("new")' : n \in In("new") /\ notifier'[n] = notifier[n]
  <2>1. In("main")' = {n \in Notifiers : notifier'[n].list = "main"}
        /\ In("new")' = {n \in Notifiers : notifier'[n].list = "new"}
    BY DEF In
  <2>2. ASSUME NEW n \in Notifiers
        PROVE  /\ n \in dead => notifier'[n].list = "gone"
               /\ n \notin dead => notifier'[n].list = notifier[n].list
    BY <1>6
  <2>3. In("main")' = In("main") \ Dead("main") /\ In("new")' = In("new") \ Dead("new")
    <3>1. ASSUME NEW n \in Notifiers
          PROVE  /\ notifier'[n].list = "main" <=> n \in In("main") \ Dead("main")
                 /\ notifier'[n].list = "new" <=> n \in In("new") \ Dead("new")
      BY <2>2 DEF In, Dead
    <3>2. In("main") \subseteq Notifiers /\ In("new") \subseteq Notifiers
      BY DEF In
    <3> QED
      BY <2>1, <3>1, <3>2
  <2>4. ASSUME NEW n \in In("new") \ Dead("new")
        PROVE  n \in Notifiers /\ n \in In("new") \ dead
    BY DEF In, Dead
  <2> QED
    BY <1>6, <2>3, <2>4
<1>9. /\ EmptiedBy("main") <=> In("main")' = {}
      /\ EmptiedBy("new") => In("new")' = {}
  <2>1. Dead("main") \subseteq In("main") /\ Dead("new") \subseteq In("new")
    BY DEF Dead
  <2> QED
    BY <1>4, <1>8, <2>1 DEF EmptiedBy
<1>10. /\ worker' \in WorkerRec(latest) /\ worker'.pc = "signal"
  BY <1>1, <1>2 DEF Resting, WorkerRec
<1>11. WorkerAssertions'
  <2>1. In("new") # {} => pin # 0 /\ \A n \in In("new") : pin <= notifier[n].version
    BY DEF IInv, Work, WorkerAssertions
  <2>2. In("new")' # {} => pin' # 0 /\ \A n \in In("new")' : pin' <= notifier'[n].version
    <3> SUFFICES ASSUME In("new")' # {}
                 PROVE  pin' # 0 /\ \A n \in In("new")' : pin' <= notifier'[n].version
      OBVIOUS
    <3>1. pin' = pin /\ In("new") # {}
      BY <1>1, <1>8, <1>9
    <3> QED
      BY <1>8, <2>1, <3>1
  <2>3. workerAt' = 0 <=> In("main")' = {}
    BY <1>1, <1>4, <1>9
  <2>4. skipVersion' # 0 => In("main")' # {} /\ workerAt' < skipVersion'
    BY <1>1, <1>4, <1>9
  <2> QED
    BY <1>10, <2>2, <2>3, <2>4 DEF WorkerAssertions
<1>12. During'
  BY <1>10 DEF During
<1>13. callbacks' \in [Notifiers -> [Tokens -> Change]]
  <2>1. ran \in SUBSET Notifiers
    BY <1>3
  <2> QED
    BY <1>1, <2>1, HandoverTypes
<1>14. Types' /\ Ahead'
  <2>1. /\ workerAt' \in 0 .. latest /\ skipVersion' \in 0 .. latest /\ pin' \in 0 .. latest
    BY <1>1, <1>2, <1>3
  <2> QED
    BY <1>1, <1>7, <1>10, <1>13, <2>1 DEF IInv, Types, Ahead
<1> QED
  BY <1>11, <1>12, <1>14 DEF IInv, Work

LEMMA SignalKeeps == ASSUME IInv, signalRealms PROVE IInv'
<1>1. /\ latest' = latest /\ writer' = writer /\ version' = version /\ signalled' = Realms
      /\ call' = call /\ callbacks' = callbacks /\ heard' = heard /\ wakeUp' = wakeUp
      /\ UNCHANGED <<skipVersion, workerAt, pin>> /\ notifier' = notifier
      /\ worker' = Resting
  BY DEF signalRealms, fileVars, coordinatorVars
<1>2. latest \in Nat
  BY Numbers DEF IInv, Types
<1>3. worker' \in WorkerRec(latest) /\ worker'.pc = "idle"
  BY <1>1, <1>2 DEF Resting, WorkerRec
<1>4. Work'
  BY <1>1, <1>3, WorkStays DEF IInv
<1>5. Types' /\ Ahead'
  BY <1>1, <1>3 DEF IInv, Types, Ahead
<1> QED
  BY <1>4, <1>5 DEF IInv
------------------------------------------------------------------------------
LEMMA Initially == Init => IInv
<1> SUFFICES ASSUME Init PROVE IInv
  OBVIOUS
<1>1. /\ latest = 1 /\ 1 \in Versions /\ 0 \in 0 .. latest /\ 1 \in 1 .. latest
      /\ npos \in 0 .. npos /\ 1 \in 1 .. MaxToken + 1
  BY Numbers DEF Init, Versions
<1>2. [list |-> "none", alive |-> FALSE, version |-> 1, hasRun |-> FALSE,
       rowsAt |-> 0, change |-> {}, haveCallbacks |-> FALSE, next |-> 1,
       index |-> npos, count |-> npos] \in NotifierRec(latest)
  BY <1>1 DEF NotifierRec
<1>3. NoCallback \in Change
  BY DEF NoCallback, Change
<1>4. Resting \in WorkerRec(latest) /\ Resting.pc = "idle"
  BY <1>1 DEF Resting, WorkerRec
<1>5. Idle \in CallRec(latest) /\ Idle.kind = ""
  BY <1>1 DEF Idle, CallRec
<1>6. NotHeard \in HeardRec(latest)
  BY <1>1 DEF NotHeard, HeardRec
<1>7. Types
  <2>1. notifier \in [Notifiers -> NotifierRec(latest)]
    BY <1>2 DEF Init
  <2>2. /\ callbacks \in [Notifiers -> [Tokens -> Change]]
        /\ heard \in [Notifiers -> [Tokens -> HeardRec(latest)]]
        /\ call \in [Realms -> CallRec(latest)] /\ worker \in WorkerRec(latest)
    BY <1>3, <1>4, <1>5, <1>6 DEF Init
  <2> QED
    BY <1>1, <2>1, <2>2 DEF Init, Types
<1>8. Ahead
  BY <1>5 DEF Init, Ahead
<1>9. Work
  <2>1. In("new") = {} /\ In("main") = {}
    BY DEF Init, In
  <2> QED
    BY <1>4, <2>1 DEF Init, Work, WorkerAssertions, During
<1> QED
  BY <1>7, <1>8, <1>9 DEF IInv

LEMMA Stuttering == IInv /\ UNCHANGED vars => IInv'
<1> SUFFICES ASSUME IInv, UNCHANGED vars PROVE IInv'
  OBVIOUS
<1>1. /\ latest' = latest /\ writer' = writer /\ version' = version /\ signalled' = signalled
      /\ call' = call /\ callbacks' = callbacks /\ heard' = heard /\ wakeUp' = wakeUp
      /\ UNCHANGED <<skipVersion, workerAt, pin>> /\ notifier' = notifier
      /\ worker' = worker
  BY DEF vars, fileVars, coordinatorVars
<1>2. Work'
  BY <1>1, WorkStays DEF IInv
<1>3. Types' /\ Ahead'
  BY <1>1 DEF IInv, Types, Ahead
<1> QED
  BY <1>2, <1>3 DEF IInv

LEMMA Steps == IInv /\ Next => IInv'
<1> SUFFICES ASSUME IInv, Next PROVE IInv'
  OBVIOUS
<1>1. CASE workerStep
  <2>1. CASE \E n \in Notifiers, wasUsed \in BOOLEAN : runNotifier(n, wasUsed)
    BY <2>1, RunKeeps
  <2> QED
    BY <1>1, <2>1, StartKeeps, HandOverSkippedKeeps, HandOverKeeps, SignalKeeps DEF workerStep
<1>2. CASE externalCommit
  BY <1>2, ExternalKeeps
<1>3. ASSUME NEW r \in Realms, deliveryStep(r) PROVE IInv'
  <2>1. CASE \E n \in Notifiers : callNext(r, n)
    BY <2>1, CallKeeps
  <2> QED
    BY <1>3, <2>1, PackageKeeps, AdvanceKeeps, WaitReturnCancelKeeps DEF deliveryStep
<1>4. ASSUME NEW r \in Realms,
             \/ notify(r) \/ refresh(r) \/ beginTransaction(r) \/ cancelTransaction(r)
             \/ writeInCallback(r)
             \/ \E S \in SUBSET OwnCallbacks(r) : commitTransaction(r, S)
      PROVE  IInv'
  <2>1. CASE \E S \in SUBSET OwnCallbacks(r) : commitTransaction(r, S)
    BY <2>1, CommitKeeps
  <2> QED
    BY <1>4, <2>1, NotifyKeeps, AskKeeps, WaitReturnCancelKeeps, WriteInCallbackKeeps
<1>5. ASSUME NEW n \in Notifiers,
             \/ registerNotifier(n) \/ addCallback(n) \/ unregister(n)
             \/ \E t \in Tokens : removeCallback(n, t)
      PROVE  IInv'
  <2>1. CASE \E t \in Tokens : removeCallback(n, t)
    BY <2>1, RemoveKeeps
  <2> QED
    BY <1>5, <2>1, RegisterKeeps, AddKeeps, UnregisterKeeps
<1>6. \/ workerStep \/ externalCommit
      \/ \E r \in Realms : \/ deliveryStep(r)
                           \/ notify(r) \/ refresh(r) \/ beginTransaction(r)
                           \/ cancelTransaction(r) \/ writeInCallback(r)
                           \/ \E S \in SUBSET OwnCallbacks(r) : commitTransaction(r, S)
      \/ \E n \in Notifiers : \/ registerNotifier(n) \/ addCallback(n) \/ unregister(n)
                              \/ \E t \in Tokens : removeCallback(n, t)
  BY DEF Next
<1> QED
  BY <1>1, <1>2, <1>3, <1>4, <1>5, <1>6

LEMMA Invariance == Spec => []IInv
<1>1. IInv /\ [Next]_vars => IInv'
  BY Steps, Stuttering
<1> QED
  BY <1>1, Initially, PTL DEF Spec

(* Every variable stays of its kind, whatever the Realms, notifiers,        *)
(* versions and callbacks, and no Realm reads a version the file does not   *)
(* have.                                                                    *)
THEOREM TypeCorrect == Spec => []TypeOK
<1>1. IInv => TypeOK
  BY TypesAre DEF IInv
<1> QED
  BY <1>1, Invariance, PTL

(* run_async_notifiers meets its assertions however the commits of Realms,  *)
(* callbacks and other processes, the notifiers that come and go and the    *)
(* worker's own sections interleave: the versions it is given lie on its    *)
(* way.                                                                     *)
THEOREM AssertionsHold == Spec => []WorkerAssertions
<1>1. IInv => WorkerAssertions
  BY DEF IInv, Work
<1> QED
  BY <1>1, Invariance, PTL
==============================================================================
