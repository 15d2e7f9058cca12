----------------------------- MODULE Coordinator -----------------------------
(***************************************************************************)
(* Change notifications of the Realm object store: the Realms of one        *)
(* process on their own threads, the worker thread that runs the notifiers  *)
(* of their collections, and other processes that write to the same file.   *)
(* A version is a number, and every commit changes what the collections     *)
(* hold; a change set is the set of versions whose commits it tells of.     *)
(* What is done under m_notifier_mutex or m_callback_mutex is one step;     *)
(* what runs with neither lock held interleaves.                            *)
(***************************************************************************)
EXTENDS Integers, FiniteSetsExt

CONSTANTS Realms,
          Notifiers,       \* the notifiers of collections
          Owner,           \* Owner[n]: the Realm whose thread hears from n
          MaxVersion,      \* bound: versions of the file
          MaxToken,        \* bound: callbacks ever added to a notifier
          CallbacksWrite,  \* callbacks that write, once in a delivery, with their
                           \* Realm up to date and telling everyone: the "last"
                           \* of the delivery, or "others"
          NewOnesLeave,    \* callbacks can go that came while they are called
          FirstIsLate      \* the first callback can come when its notifier has run

Nobody == "nobody"
None == "none"

ASSUME CoordinatorAssumption ==
  /\ Owner \in [Notifiers -> Realms]
  /\ Nobody \notin Realms /\ None \notin Notifiers
  /\ MaxVersion \in Nat \ {0} /\ MaxToken \in Nat \ {0}
  /\ CallbacksWrite \subseteq {"last", "others"} /\ NewOnesLeave \in BOOLEAN /\ FirstIsLate \in BOOLEAN

Versions == 1 .. MaxVersion
Tokens == 1 .. MaxToken

(* size_t: more values than callbacks, the last of which is npos.           *)
npos == 2 * MaxToken + 1
Plus1(i) == (i + 1) % (npos + 1)
MinusOne(i) == i - 1
Minus1(i) == IF i = 0 THEN npos ELSE i - 1

VARIABLES
  latest,       \* the newest version in the file
  writer,       \* the Realm in a write transaction, or Nobody
  version,      \* version[r]: the version Realm r reads
  signalled,    \* Realms whose scheduler will call notify()
  wakeUp,       \* the pipe of the ExternalCommitHelper has data
  skipVersion,  \* m_notifier_skip_version, 0 when unset
  workerAt,     \* the version m_notifier_sg reads, 0 when null
  pin,          \* the version m_advancer_sg reads, 0 when null
  notifier,     \* the fields of each CollectionNotifier
  callbacks,    \* the fields of each of its callbacks
  worker,       \* where run_async_notifiers is
  call,         \* where each Realm's thread is
  heard         \* history: what each callback was told

fileVars == <<latest, writer>>
coordinatorVars == <<skipVersion, workerAt, pin>>
vars == <<fileVars, version, signalled, wakeUp, coordinatorVars, notifier,
          callbacks, worker, call, heard>>

Between(a, b) == (a + 1) .. b

NoCallback == [present |-> FALSE, initialDelivered |-> FALSE, skipNext |-> FALSE,
               accumulated |-> {}, toDeliver |-> {}]
NotHeard == [since |-> 0, told |-> {}, asked |-> {}]
Idle == [pc |-> "idle", kind |-> "", package |-> {}, todo |-> {}, at |-> None, to |-> 0,
         wrote |-> FALSE]
Resting == [pc |-> "idle", skip |-> 0, to |-> 0, old |-> {}, new |-> {}, todo |-> {}]

Init ==
  /\ latest = 1 /\ writer = Nobody
  /\ version = [r \in Realms |-> 1] /\ signalled = {} /\ wakeUp = FALSE
  /\ skipVersion = 0 /\ workerAt = 0 /\ pin = 0
  /\ notifier = [n \in Notifiers |->
       [list |-> "none", alive |-> FALSE, version |-> 1, hasRun |-> FALSE,
        rowsAt |-> 0, change |-> {}, haveCallbacks |-> FALSE, next |-> 1,
        index |-> npos, count |-> npos]]
  /\ callbacks = [n \in Notifiers |-> [t \in Tokens |-> NoCallback]]
  /\ worker = Resting
  /\ call = [r \in Realms |-> Idle]
  /\ heard = [n \in Notifiers |-> [t \in Tokens |-> NotHeard]]
------------------------------------------------------------------------------
(* m_callbacks is in the order of the tokens.                               *)
Present(n) == {t \in Tokens : callbacks[n][t].present}
IndexOf(n, t) == Cardinality({u \in Present(n) : u < t})
At(n, i) == CHOOSE t \in Present(n) : IndexOf(n, t) = i

Live(n) == notifier[n].list \in {"new", "main"} /\ notifier[n].alive
Of(r) == {n \in Notifiers : Live(n) /\ Owner[n] = r}

(* The thread of r runs code of the app: its own, or in a callback.  The    *)
(* callbacks of the bindings do nothing before the advance.                 *)
RunsApp(r) == call[r].pc = "idle" \/ (call[r].pc = "user" /\ call[r].kind = "after")

(* Notifiers packaged for a delivery that is not over.                      *)
Packaged == {n \in Notifiers : \E r \in Realms : n \in call[r].package}
------------------------------------------------------------------------------
(* A collection is observed, or read on a thread with a run loop: its       *)
(* notifier joins m_new_notifiers at the version its Realm reads, which is  *)
(* pinned.                                                                  *)
registerNotifier(n) ==
  LET v == version[Owner[n]]
  IN /\ RunsApp(Owner[n]) /\ writer # Owner[n] /\ notifier[n].list = "none"
     /\ notifier' = [notifier EXCEPT ![n].list = "new", ![n].alive = TRUE, ![n].version = v]
     /\ pin' = IF pin = 0 \/ v < pin THEN v ELSE pin
     /\ UNCHANGED <<fileVars, version, signalled, wakeUp, skipVersion, workerAt,
                    callbacks, worker, call, heard>>

addCallback(n) ==
  LET t == notifier[n].next
  IN /\ RunsApp(Owner[n]) /\ Live(n) /\ t \in Tokens
     /\ FirstIsLate \/ notifier[n].haveCallbacks \/ ~notifier[n].hasRun
     /\ callbacks' = [callbacks EXCEPT ![n][t].present = TRUE]
     /\ IF notifier[n].index = npos
        THEN /\ wakeUp' = TRUE
             /\ notifier' = [notifier EXCEPT ![n].next = t + 1, ![n].haveCallbacks = TRUE]
        ELSE /\ notifier' = [notifier EXCEPT ![n].next = t + 1]
             /\ UNCHANGED wakeUp
     /\ UNCHANGED <<fileVars, version, signalled, coordinatorVars, worker, call, heard>>

(* By any thread.                                                           *)
removeCallback(n, t) ==
  /\ t \in Present(n)
  /\ NewOnesLeave \/ n \notin Packaged \/ IndexOf(n, t) < notifier[n].count
  /\ callbacks' = [callbacks EXCEPT ![n][t] = NoCallback]
  /\ notifier' = [notifier EXCEPT
       ![n].index = IF @ # npos /\ @ >= IndexOf(n, t) THEN Minus1(@) ELSE @,
       ![n].count = Minus1(@),
       ![n].haveCallbacks = Present(n) # {t}]
  /\ heard' = [heard EXCEPT ![n][t] = NotHeard]
  /\ UNCHANGED <<fileVars, version, signalled, wakeUp, coordinatorVars, worker, call>>

(* The collection goes away.                                                *)
unregister(n) ==
  /\ RunsApp(Owner[n]) /\ Live(n)
  /\ notifier' = [notifier EXCEPT ![n].alive = FALSE]
  /\ UNCHANGED <<fileVars, version, signalled, wakeUp, coordinatorVars, callbacks,
                 worker, call, heard>>
------------------------------------------------------------------------------
(* package_for_delivery on each of P.                                       *)
packageForDelivery(P) ==
  /\ callbacks' = [n \in Notifiers |->
       IF n \notin P THEN callbacks[n]
       ELSE [t \in Tokens |-> [callbacks[n][t] EXCEPT !.toDeliver = callbacks[n][t].accumulated,
                                                      !.accumulated = {}]]]
  /\ notifier' = [n \in Notifiers |->
       IF n \notin P THEN notifier[n]
       ELSE [notifier[n] EXCEPT !.count = Cardinality(Present(n))]]

Package(kind, package, to) ==
  [Idle EXCEPT !.pc = "packaging", !.kind = kind, !.package = package, !.to = to]
Deliver(kind, package, to) ==
  [Idle EXCEPT !.pc = "calling", !.kind = kind, !.package = package, !.todo = package, !.to = to]

(* The run loop calls Realm::notify(), which delivers what there is for its *)
(* version (process_available_async) or advances (advance_to_ready).        *)
notify(r) ==
  /\ call[r].pc = "idle" /\ r \in signalled
  /\ signalled' = signalled \ {r}
  /\ call' = IF writer = r THEN call
             ELSE [call EXCEPT ![r] =
                    Package(IF version[r] = latest THEN "available" ELSE "ready", Of(r), 0)]
  /\ UNCHANGED <<fileVars, version, wakeUp, coordinatorVars, notifier, callbacks, worker, heard>>

(* The app calls refresh().                                                 *)
refresh(r) ==
  /\ call[r].pc = "idle" /\ writer # r
  /\ call' = [call EXCEPT ![r] = Package("latest", Of(r), latest)]
  /\ UNCHANGED <<fileVars, version, signalled, wakeUp, coordinatorVars, notifier,
                 callbacks, worker, heard>>

(* begin_transaction takes the write lock.                                  *)
beginTransaction(r) ==
  /\ call[r].pc = "idle" /\ writer = Nobody /\ latest < MaxVersion
  /\ writer' = r
  /\ call' = [call EXCEPT ![r] = Package("write", Of(r), latest)]
  /\ UNCHANGED <<latest, version, signalled, wakeUp, coordinatorVars, notifier,
                 callbacks, worker, heard>>

(* The wait predicate of package_and_wait.                                  *)
IsReady(r) ==
  \/ call[r].kind \in {"available", "ready"}
  \/ \A n \in call[r].package :
       notifier[n].haveCallbacks => notifier[n].hasRun /\ notifier[n].version >= call[r].to

(* Who has to wait wakes the worker, once.                                  *)
waitForNotifiers(r) ==
  /\ call[r].pc = "packaging" /\ ~IsReady(r)
  /\ wakeUp' = TRUE
  /\ call' = [call EXCEPT ![r].pc = "waiting"]
  /\ UNCHANGED <<fileVars, version, signalled, coordinatorVars, notifier, callbacks,
                 worker, heard>>

(* Of another version than the Realm shows, too.                           *)
ToPackageAny(r) == {n \in call[r].package : notifier[n].hasRun /\ notifier[n].alive}

(* The notifiers of r's package that have something to hand over.           *)
ToPackage(r) ==
  {n \in call[r].package :
     /\ notifier[n].hasRun /\ notifier[n].alive
     /\ call[r].kind = "available" => notifier[n].version = version[r]}

(* package_and_wait, and what its caller does with the package.             *)
packageAndWait(r) ==
  LET c == call[r]
      P == ToPackage(r)
      v == IF P = {} THEN 0 ELSE notifier[CHOOSE n \in P : TRUE].version
  IN /\ c.pc \in {"packaging", "waiting"} /\ IsReady(r)
     /\ packageForDelivery(P)
     /\ call' = [call EXCEPT ![r] =
          IF c.kind = "available"
          THEN IF P = {} THEN Idle ELSE Deliver("after", P, 0)
          ELSE IF P = {} \/ (c.kind # "ready" /\ v < c.to)
          THEN [Idle EXCEPT !.pc = "advancing"]
          ELSE IF c.kind = "ready" /\ v < version[r] THEN Idle
          ELSE IF v = version[r] /\ c.kind # "latest" THEN Deliver("after", P, 0)
          ELSE Deliver("before", P, v)]
     /\ UNCHANGED <<fileVars, version, signalled, wakeUp, coordinatorVars, worker, heard>>

(* No notifier is ready: the Realm goes to the latest version and tells     *)
(* nobody.                                                                  *)
advanceAlone(r) ==
  /\ call[r].pc = "advancing"
  /\ version' = [version EXCEPT ![r] = latest]
  /\ call' = [call EXCEPT ![r] = Idle]
  /\ UNCHANGED <<fileVars, signalled, wakeUp, coordinatorVars, notifier, callbacks,
                 worker, heard>>
------------------------------------------------------------------------------
(* Whether for_each_callback calls t, or goes on to the next one.           *)
Calls(kind, n, t) ==
  LET c == callbacks[n][t]
  IN IF kind = "before" THEN c.toDeliver # {}
     ELSE ~c.initialDelivered \/ c.toDeliver # {}

(* The indices for_each_callback still has to visit in n and would call.    *)
ToCall(kind, n) ==
  {i \in 0 .. MaxToken - 1 :
     /\ Plus1(notifier[n].index) <= i /\ i < notifier[n].count /\ i < Cardinality(Present(n))
     /\ Calls(kind, n, At(n, i))}

(* History: t has its initial call, or is told of what there is for it.     *)
Hears(r, n, t) ==
  IF callbacks[n][t].initialDelivered
  THEN [heard[n][t] EXCEPT !.told = @ \cup callbacks[n][t].toDeliver]
  ELSE [NotHeard EXCEPT !.since = version[r]]

(* for_each_callback: the lock is released around each call.  A debug build *)
(* stops where a packaged count is beyond the list, so that not even its    *)
(* loop over the first of them begins.                                      *)
callNext(r, n) ==
  LET c == call[r]
      i == Min(ToCall(c.kind, n))
      t == At(n, i)
  IN /\ c.pc = "calling" /\ n \in c.todo /\ c.at \in {None, n}
     /\ c.at = None => notifier[n].count <= Cardinality(Present(n))
     /\ IF ToCall(c.kind, n) = {}
        THEN /\ notifier' = [notifier EXCEPT ![n].index = npos]
             /\ call' = [call EXCEPT ![r].todo = @ \ {n}, ![r].at = None]
             /\ UNCHANGED <<callbacks, heard>>
        ELSE /\ notifier' = [notifier EXCEPT ![n].index = i]
             /\ call' = [call EXCEPT ![r].pc = "user", ![r].at = n]
             /\ IF c.kind = "before"
                THEN UNCHANGED <<callbacks, heard>>
                ELSE /\ callbacks' = [callbacks EXCEPT ![n][t].initialDelivered = TRUE,
                                                       ![n][t].toDeliver = {}]
                     /\ heard' = [heard EXCEPT ![n][t] = Hears(r, n, t)]
     /\ UNCHANGED <<fileVars, version, signalled, wakeUp, coordinatorVars, worker>>

callbackReturns(r) ==
  /\ call[r].pc = "user"
  /\ call' = [call EXCEPT ![r].pc = "calling"]
  /\ UNCHANGED <<fileVars, version, signalled, wakeUp, coordinatorVars, notifier,
                 callbacks, worker, heard>>

(* All have been called.  Between before and after lies the advance; a      *)
(* write transaction begins at the latest version.                          *)
delivered(r) ==
  /\ call[r].pc = "calling" /\ call[r].todo = {}
  /\ IF call[r].kind = "before"
     THEN /\ version' = [version EXCEPT ![r] = IF writer = r THEN latest ELSE call[r].to]
          /\ call' = [call EXCEPT ![r] = Deliver("after", call[r].package, 0)]
     ELSE /\ call' = [call EXCEPT ![r] = Idle]
          /\ UNCHANGED version
  /\ UNCHANGED <<fileVars, signalled, wakeUp, coordinatorVars, notifier, callbacks,
                 worker, heard>>
------------------------------------------------------------------------------
(* What a commit that leads to version v does beside writing.               *)
committed(v) == latest' = v /\ wakeUp' = TRUE

(* The versions to skip are forgotten.                                      *)
neverSkip(r, v) == skipVersion' = skipVersion

(* Under m_notifier_mutex: the notifiers of r are to stop at this version.  *)
setSkipVersion(r, v) ==
  skipVersion' = IF \E n \in Of(r) : notifier[n].list = "main" THEN v ELSE skipVersion

(* The callbacks S of notifiers of r asked not to hear of the commit.       *)
suppressNext(r, v, S) ==
  /\ callbacks' = [n \in Notifiers |-> [t \in Tokens |->
       IF <<n, t>> \in S THEN [callbacks[n][t] EXCEPT !.skipNext = TRUE] ELSE callbacks[n][t]]]
  /\ heard' = [n \in Notifiers |-> [t \in Tokens |->
       IF <<n, t>> \in S THEN [heard[n][t] EXCEPT !.asked = @ \cup {v}] ELSE heard[n][t]]]

commitTransaction(r, S) ==
  LET v == latest + 1
  IN /\ call[r].pc = "idle" /\ writer = r /\ v \in Versions
     /\ committed(v)
     /\ suppressNext(r, v, S)
     /\ writer' = Nobody
     /\ version' = [version EXCEPT ![r] = v]
     /\ setSkipVersion(r, v)
     /\ UNCHANGED <<signalled, workerAt, pin, notifier, worker, call>>

cancelTransaction(r) ==
  /\ call[r].pc = "idle" /\ writer = r
  /\ writer' = Nobody
  /\ UNCHANGED <<latest, version, signalled, wakeUp, coordinatorVars, notifier,
                 callbacks, worker, call, heard>>

(* No other callback is left to call in the delivery under way.             *)
callsTheLast(r) ==
  LET n == call[r].at
  IN call[r].todo = {n} /\ notifier[n].index + 1 = notifier[n].count

(* A callback writes; begin_transaction delivers nothing then.              *)
writeInCallback(r) ==
  /\ call[r].pc = "user" /\ call[r].kind = "after" /\ ~call[r].wrote
  /\ (IF callsTheLast(r) THEN "last" ELSE "others") \in CallbacksWrite
  /\ version[r] = latest /\ writer = Nobody /\ latest + 1 \in Versions
  /\ committed(latest + 1)
  /\ version' = [version EXCEPT ![r] = latest + 1]
  /\ setSkipVersion(r, latest + 1)
  /\ call' = [call EXCEPT ![r].wrote = TRUE]
  /\ UNCHANGED <<writer, signalled, workerAt, pin, notifier, callbacks, worker, heard>>

(* Another process writes.                                                  *)
externalCommit ==
  /\ writer = Nobody /\ latest + 1 \in Versions
  /\ committed(latest + 1)
  /\ UNCHANGED <<writer, version, signalled, coordinatorVars, notifier, callbacks,
                 worker, call, heard>>
------------------------------------------------------------------------------
In(list) == {n \in Notifiers : notifier[n].list = list}
Dead(list) == {n \in In(list) : ~notifier[n].alive}
neverEmptied(list) == FALSE
EmptiedBy(list) == Dead(list) # {} /\ In(list) = Dead(list)

(* on_change: clean_up_dead_notifiers, then the first section of            *)
(* run_async_notifiers, which picks the version to go to.                   *)
startNotifiers ==
  LET old == In("main") \ Dead("main")
      new == In("new") \ Dead("new")
      skip == IF EmptiedBy("main") THEN 0 ELSE skipVersion
      at == IF EmptiedBy("main") THEN 0 ELSE workerAt
  IN /\ worker.pc = "idle" /\ wakeUp
     /\ wakeUp' = FALSE
     /\ notifier' = [n \in Notifiers |->
          IF n \in Dead("main") \cup Dead("new") THEN [notifier[n] EXCEPT !.list = "gone"]
          ELSE IF n \in new THEN [notifier[n] EXCEPT !.list = "main"]
          ELSE notifier[n]]
     /\ IF old \cup new = {}
        THEN /\ skipVersion' = skip /\ workerAt' = at
             /\ pin' = IF EmptiedBy("new") THEN 0 ELSE pin
             /\ worker' = [worker EXCEPT !.pc = "signal"]
        ELSE /\ skipVersion' = 0 /\ pin' = 0
             /\ workerAt' = IF at = 0 THEN latest ELSE at
             /\ worker' = [pc |-> IF skip = 0 THEN "running" ELSE "skipping",
                           skip |-> skip, to |-> latest, old |-> old, new |-> new,
                           todo |-> IF skip = 0 THEN old \cup new ELSE old]
     /\ UNCHANGED <<fileVars, version, signalled, callbacks, call, heard>>

(* ResultsNotifier::run at version v.  Results nobody listens to are run    *)
(* again if they were read since (wasUsed); results not affected are not.   *)
run(n, v, wasUsed) ==
  LET f == notifier[n]
      unaffected == f.hasRun /\ f.rowsAt # 0 /\ Between(f.rowsAt, v) = {}
  IN notifier' = [notifier EXCEPT ![n] =
       IF ~f.alive \/ (f.hasRun /\ ~f.haveCallbacks /\ ~wasUsed) \/ unaffected THEN f
       ELSE [f EXCEPT !.rowsAt = v,
                      !.change = IF f.hasRun /\ f.haveCallbacks
                                 THEN Between(f.rowsAt, v) ELSE f.change]]

(* No lock is held while the notifiers run.                                 *)
runNotifier(n, wasUsed) ==
  /\ worker.pc \in {"skipping", "running"} /\ n \in worker.todo
  /\ run(n, IF worker.pc = "skipping" THEN worker.skip ELSE worker.to, wasUsed)
  /\ worker' = [worker EXCEPT !.todo = @ \ {n}]
  /\ UNCHANGED <<fileVars, version, signalled, wakeUp, coordinatorVars, callbacks, call, heard>>

(* add_changes: a callback that asked to skip one gets none.                *)
addChanges(n, c) ==
  IF ~c.present THEN c
  ELSE IF c.skipNext THEN [c EXCEPT !.skipNext = FALSE]
  ELSE [c EXCEPT !.accumulated = @ \cup notifier[n].change]

(* prepare_handover on each of P: HandedOver, and to the callbacks.         *)
prepareHandover(P) ==
  callbacks' = [n \in Notifiers |-> [t \in Tokens |->
    IF n \notin P THEN callbacks[n][t] ELSE addChanges(n, callbacks[n][t])]]

HandedOver(n, v) == [notifier[n] EXCEPT !.version = v, !.hasRun = TRUE, !.change = {}]

(* The version to skip is handed over by itself.                            *)
handOverSkipped ==
  /\ worker.pc = "skipping" /\ worker.todo = {}
  /\ prepareHandover(worker.old)
  /\ notifier' = [n \in Notifiers |->
       IF n \in worker.old THEN HandedOver(n, worker.skip) ELSE notifier[n]]
  /\ workerAt' = worker.skip
  /\ worker' = [worker EXCEPT !.pc = "running", !.todo = worker.old \cup worker.new]
  /\ UNCHANGED <<fileVars, version, signalled, wakeUp, skipVersion, pin, call, heard>>

(* The last section, which cleans up again.                                 *)
handOver ==
  LET ran == worker.old \cup worker.new
      dead == Dead("main") \cup Dead("new")
      f(n) == IF n \in ran THEN HandedOver(n, worker.to) ELSE notifier[n]
  IN /\ worker.pc = "running" /\ worker.todo = {}
     /\ prepareHandover(ran)
     /\ notifier' = [n \in Notifiers |->
          IF n \in dead THEN [f(n) EXCEPT !.list = "gone"] ELSE f(n)]
     /\ workerAt' = IF EmptiedBy("main") THEN 0 ELSE worker.to
     /\ skipVersion' = IF EmptiedBy("main") THEN 0 ELSE skipVersion
     /\ pin' = IF EmptiedBy("new") THEN 0 ELSE pin
     /\ worker' = [Resting EXCEPT !.pc = "signal"]
     /\ UNCHANGED <<fileVars, version, signalled, wakeUp, call, heard>>

signalNobody ==
  /\ worker.pc = "signal"
  /\ worker' = Resting
  /\ UNCHANGED <<fileVars, version, signalled, wakeUp, coordinatorVars, notifier,
                 callbacks, call, heard>>

(* The pipe is read when the work is done.                                  *)
signalRealmsThenRead ==
  /\ worker.pc = "signal"
  /\ signalled' = Realms /\ wakeUp' = FALSE
  /\ worker' = Resting
  /\ UNCHANGED <<fileVars, version, coordinatorVars, notifier, callbacks, call, heard>>

(* The rest of on_change.                                                   *)
signalRealms ==
  /\ worker.pc = "signal"
  /\ signalled' = Realms
  /\ worker' = Resting
  /\ UNCHANGED <<fileVars, version, wakeUp, coordinatorVars, notifier, callbacks, call, heard>>
------------------------------------------------------------------------------
OwnCallbacks(r) == {p \in Of(r) \X Tokens : p[2] \in Present(p[1])}

workerStep == \/ startNotifiers \/ handOverSkipped \/ handOver \/ signalRealms
              \/ \E n \in Notifiers, wasUsed \in BOOLEAN : runNotifier(n, wasUsed)

deliveryStep(r) == \/ packageAndWait(r) \/ advanceAlone(r) \/ callbackReturns(r)
                   \/ delivered(r) \/ waitForNotifiers(r)
                   \/ \E n \in Notifiers : callNext(r, n)

Next ==
  \/ workerStep
  \/ externalCommit
  \/ \E r \in Realms :
       \/ deliveryStep(r) \/ notify(r) \/ refresh(r)
       \/ beginTransaction(r) \/ cancelTransaction(r)
       \/ writeInCallback(r)
       \/ \E S \in SUBSET OwnCallbacks(r) : commitTransaction(r, S)
  \/ \E n \in Notifiers :
       \/ registerNotifier(n) \/ addCallback(n) \/ unregister(n)
       \/ \E t \in Tokens : removeCallback(n, t)

Spec == Init /\ [][Next]_vars

(* The run loops, the worker and who was called in go on; a write           *)
(* transaction comes to its end.                                            *)
FairSpec ==
  /\ Spec /\ WF_vars(workerStep)
  /\ \A r \in Realms :
       /\ WF_vars(deliveryStep(r)) /\ WF_vars(notify(r)) /\ WF_vars(cancelTransaction(r))
------------------------------------------------------------------------------
Change == [present : BOOLEAN, initialDelivered : BOOLEAN, skipNext : BOOLEAN,
           accumulated : SUBSET Versions, toDeliver : SUBSET Versions]

(* Every variable is of its kind, and a version read is one of the file.    *)
TypeOK ==
  /\ latest \in Versions
  /\ writer \in Realms \cup {Nobody}
  /\ version \in [Realms -> 1 .. latest]
  /\ signalled \subseteq Realms /\ wakeUp \in BOOLEAN
  /\ skipVersion \in 0 .. latest /\ workerAt \in 0 .. latest /\ pin \in 0 .. latest
  /\ notifier \in [Notifiers ->
       [list : {"none", "new", "main", "gone"}, alive : BOOLEAN, version : 1 .. latest,
        hasRun : BOOLEAN, rowsAt : 0 .. latest, change : SUBSET Versions,
        haveCallbacks : BOOLEAN, next : 1 .. MaxToken + 1, index : 0 .. npos,
        count : 0 .. npos]]
  /\ callbacks \in [Notifiers -> [Tokens -> Change]]
  /\ worker \in [pc : {"idle", "skipping", "running", "signal"}, skip : 0 .. latest,
                 to : 0 .. latest, old : SUBSET Notifiers, new : SUBSET Notifiers,
                 todo : SUBSET Notifiers]
  /\ call \in [Realms ->
       [pc : {"idle", "packaging", "waiting", "advancing", "calling", "user"},
        kind : {"", "available", "ready", "latest", "write", "before", "after"},
        package : SUBSET Notifiers, todo : SUBSET Notifiers,
        at : Notifiers \cup {None}, to : 0 .. latest, wrote : BOOLEAN]]
  /\ heard \in [Notifiers -> [Tokens ->
       [since : 0 .. latest, told : SUBSET Versions, asked : SUBSET Versions]]]

(* What run_async_notifiers asserts and needs: new notifiers have a pinned  *)
(* version no newer than theirs; a version to skip is set only while there  *)
(* are notifiers to stop there, and lies ahead of where they are.           *)
WorkerAssertions ==
  /\ In("new") # {} => pin # 0 /\ \A n \in In("new") : pin <= notifier[n].version
  /\ workerAt = 0 <=> In("main") = {}
  /\ skipVersion # 0 => In("main") # {} /\ workerAt < skipVersion
  /\ worker.pc = "skipping" =>
       worker.old # {} /\ workerAt < worker.skip /\ worker.skip <= worker.to

(* No change set is dropped: those a callback was told of, is about to be   *)
(* told of and was left for it, and the versions it asked to skip, are what *)
(* changed since its initial call up to the rows the notifier last saw.     *)
NothingLost ==
  \A n \in Notifiers, t \in Tokens :
    LET c == callbacks[n][t]
        h == heard[n][t]
        rowsAt == notifier[n].rowsAt
    IN Live(n) /\ c.present /\ c.initialDelivered =>
         h.told \cup c.toDeliver \cup c.accumulated \cup notifier[n].change \cup
           {v \in h.asked : v <= rowsAt}
           = Between(h.since, rowsAt)

(* A callback is told, each time, exactly what changed since its initial    *)
(* call up to the version its Realm shows then, but for what it asked to    *)
(* skip.                                                                    *)
ToldAsOfRealm ==
  [][\A n \in Notifiers, t \in Tokens :
       heard'[n][t].told # heard[n][t].told /\ callbacks'[n][t].present =>
         heard'[n][t].told \cup heard[n][t].asked
           = Between(heard[n][t].since, version[Owner[n]])]_vars

(* RLMRealm.h: a write transaction committed without notifying a token does *)
(* not call its block.                                                      *)
SkippedIsNotTold ==
  \A n \in Notifiers, t \in Tokens : heard[n][t].told \cap heard[n][t].asked = {}

(* A change reaches each callback that had its initial call, unless it      *)
(* asked to skip it or it or its collection goes away.                      *)
ChangeArrives ==
  \A n \in Notifiers, t \in Tokens, v \in Versions :
    (Live(n) /\ heard[n][t].since # 0 /\ heard[n][t].since < v /\ v <= latest)
      ~> (~Live(n) \/ ~callbacks[n][t].present \/ v \in heard[n][t].told \cup heard[n][t].asked)

(* Whoever waits for the notifiers, with or without the write lock, is let  *)
(* go on by the worker.                                                     *)
WaitEnds == \A r \in Realms : call[r].pc = "waiting" ~> call[r].pc # "waiting"
==============================================================================
