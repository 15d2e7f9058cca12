-------------------------- MODULE SyncSessionsProofs --------------------------
(***************************************************************************)
(* Proofs about SyncSessions, for any number of threads, sessions,          *)
(* completion callbacks and references: the types, who may hold which       *)
(* mutex, and that a session dies only when it has uploaded.                *)
(*                                                                          *)
(* The inductive invariant adds to TypeOK that whoever works with a session *)
(* works with one that was made, that get_session holds the manager's mutex *)
(* from beginning to end, so that the bound on references is kept, and that *)
(* log_out holds the user's.  DeathsAhead is what UploadedWhenDead rests on.*)
(***************************************************************************)
EXTENDS SyncSessions, TLAPS

SessionRec == [state : {"none", "waiting", "active", "dying", "inactive"},
               policy : Policies \cup {""}, resync : BOOLEAN, under : BOOLEAN,
               deferredClose : BOOLEAN, waits : SUBSET Waiters, owes : BOOLEAN]
Operations == {"", "get", "create", "logOut", "config", "resync", "badAuth", "reset"} \cup Errors
Counters == {"idle", "registering", "reviving", "registered", "dropped", "unregistering",
             "checked", "telling", "loggingOut", "loggedOut", "configuring", "error",
             "ending", "resyncing", "puttingBack", "invalidating", ""}
ThreadRec == {r \in [pc : Counters, op : Operations, s : 0 .. MaxSession,
                     calls : SUBSET Waiters, saved : SUBSET Waiters] :
                r.pc = "error" => r.op \in Errors}
HandlerRec == [kind : {"wait", "death"}, s : Sessions, due : {"not yet", "yes", "cancelled"}]

Types ==
  /\ unsent \in BOOLEAN /\ session \in [Sessions -> SessionRec]
  /\ refs \in [Sessions -> 0 .. MaxRefs] /\ asked \in SUBSET Sessions
  /\ registered \in SUBSET HandlerRec
  /\ map \in 0 .. MaxSession
  /\ user \in [state : {"Active", "LoggedOut", "Error"}, session : 0 .. MaxSession,
               waiting : 0 .. MaxSession]
  /\ thread \in [AllThreads -> ThreadRec]

(* A sync::Session is there when one is needed.                             *)
Connected == \A s \in Sessions : session[s].state \in {"active", "dying"} => session[s].under

(* A session in use was made.                                               *)
Made(s) == s \in Sessions /\ session[s].state # "none"
InUse ==
  /\ map # 0 => Made(map)
  /\ \A s \in asked : Made(s)
  /\ \A h \in registered : Made(h.s)
  /\ \A s \in Sessions : refs[s] > 0 => Made(s)
  /\ \A t \in AllThreads : thread[t].pc \notin {"idle", "loggedOut"} => Made(thread[t].s)

(* get_session and the look at a reference of unregister_session.           *)
Holds(t) == \/ thread[t].pc \in {"registering", "registered", "checked"}
            \/ thread[t].pc = "reviving" /\ thread[t].op \in {"get", "create"}

SessionMutexOf(t) ==
  /\ Holds(t) => sessionMutex = t
  /\ sessionMutex = t => Holds(t) \/ thread[t].pc = "unregistering"
  /\ thread[t].pc = "registering" => thread[t].op \in {"get", "create"}
  /\ Holds(t) /\ thread[t].pc # "checked" /\ thread[t].op = "get" =>
       refs[thread[t].s] < MaxRefs
  /\ thread[t].pc = "checked" => map # 0

UserMutexOf(t) ==
  userMutex = t => /\ thread[t].op = "logOut"
                   /\ thread[t].pc \in {"loggingOut", "unregistering", "checked", "telling",
                                        "loggedOut"}

Mutexes == \A t \in AllThreads : SessionMutexOf(t) /\ UserMutexOf(t)

(* While a dying session owes commits of before it began to die, no handler *)
(* that may end it is due.                                                  *)
DeathsAhead ==
  \A h \in registered :
    h.kind = "death" /\ session[h.s].state = "dying" /\ session[h.s].owes => h.due = "not yet"

IInv == Types /\ Connected /\ InUse /\ Mutexes /\ DeathsAhead
------------------------------------------------------------------------------
(* The invariant implies what the runs check.                               *)
LEMMA IInvImplies == IInv => TypeOK
<1> SUFFICES ASSUME IInv PROVE TypeOK
  OBVIOUS
<1> USE SyncAssumption
<1>1. /\ unsent \in BOOLEAN /\ session \in [Sessions -> SessionRec]
      /\ refs \in [Sessions -> 0 .. MaxRefs] /\ asked \subseteq Sessions
      /\ registered \subseteq HandlerRec
  BY DEF IInv, Types
<1>2. /\ {map, user.session, user.waiting} \subseteq Sessions \cup {0}
      /\ user.state \in {"Active", "LoggedOut", "Error"}
  BY DEF IInv, Types, Sessions
<1>3. ASSUME NEW t \in AllThreads
      PROVE  /\ sessionMutex = t => thread[t].pc \in {"registering", "reviving", "registered",
                                                      "checked", "unregistering"}
             /\ userMutex = t => thread[t].pc \in {"loggingOut", "unregistering", "checked",
                                                  "telling", "loggedOut"}
             /\ thread[t].pc # "idle" => thread[t].s \in Sessions \/ thread[t].pc = "loggedOut"
  BY DEF IInv, Mutexes, SessionMutexOf, UserMutexOf, InUse, Made, Holds
<1> QED
  BY <1>1, <1>2, <1>3 DEF IInv, Connected, TypeOK, SessionRec, HandlerRec

(* A session f that session s may become.                                   *)
MayBecome(s, f) ==
  /\ session[s].state # "none" /\ f.state # "none"
  /\ f.state \in {"active", "dying"} => f.under
  /\ f.state = "dying" /\ session[s].state = "dying" => f.owes = session[s].owes

(* What is known when it has: all other sessions and threads are as they    *)
(* were, thread t goes on as next or unregisters the session first.         *)
Became(t, s, f, next) ==
  /\ session' \in [Sessions -> SessionRec] /\ registered' \in SUBSET HandlerRec
  /\ thread' \in [AllThreads -> ThreadRec]
  /\ \A x \in Sessions : session[x].state # "none" => session'[x].state # "none"
  /\ \A h \in registered' : h.s = s \/ \E g \in registered : g.s = h.s
  /\ Connected' /\ DeathsAhead'
  /\ \A u \in AllThreads : u # t => thread'[u] = thread[u]
  /\ f.state # "inactive" \/ session[s].state = "inactive" => thread'[t] = next
  /\ f.state = "inactive" /\ session[s].state # "inactive" =>
       thread'[t].pc = "unregistering" /\ thread'[t].s = s /\ thread'[t].op = next.op

(* What happens to a session that becomes f in a step of thread t: all      *)
(* others stay as they are, the handlers are of their kind, and none of     *)
(* them can end a session that owes commits.                                *)
LEMMA Become ==
  ASSUME IInv, NEW H \in SUBSET registered, NEW t \in AllThreads, NEW s \in Sessions,
         NEW f \in SessionRec, NEW next \in ThreadRec,
         MayBecome(s, f),
         becomeWith(H, t, s, f, next)
  PROVE  Became(t, s, f, next)
<1> USE SyncAssumption
<1> DEFINE toDie == f.state = "dying" /\ session[s].state # "dying"
           ended == f.state = "inactive" /\ session[s].state # "inactive"
<1>0. session \in [Sessions -> SessionRec] /\ H \in SUBSET HandlerRec /\ unsent \in BOOLEAN
      /\ registered \in SUBSET HandlerRec /\ thread \in [AllThreads -> ThreadRec]
  BY DEF IInv, Types
<1>1. session' = [session EXCEPT ![s] = IF toDie THEN [f EXCEPT !.owes = unsent] ELSE f]
  BY DEF becomeWith
<1>2. /\ (IF toDie THEN [f EXCEPT !.owes = unsent] ELSE f) \in SessionRec
      /\ (IF toDie THEN [f EXCEPT !.owes = unsent] ELSE f).state = f.state
      /\ (IF toDie THEN [f EXCEPT !.owes = unsent] ELSE f).under = f.under
      /\ (IF toDie THEN [f EXCEPT !.owes = unsent] ELSE f).owes = IF toDie THEN unsent ELSE f.owes
  BY <1>0 DEF SessionRec
<1>3. /\ session' \in [Sessions -> SessionRec]
      /\ session'[s].state = f.state /\ session'[s].under = f.under
      /\ session'[s].owes = IF toDie THEN unsent ELSE f.owes
      /\ \A x \in Sessions : x # s => session'[x] = session[x]
  BY <1>0, <1>1, <1>2
<1>4. /\ thread' \in [AllThreads -> ThreadRec]
      /\ \A u \in AllThreads : u # t => thread'[u] = thread[u]
      /\ ~ended => thread'[t] = next
      /\ ended => thread'[t].pc = "unregistering" /\ thread'[t].s = s /\ thread'[t].op = next.op
  <2>1. CASE ~ended
    BY <1>0, <2>1 DEF becomeWith
  <2>2. CASE ended
    <3> DEFINE new == [next EXCEPT !.pc = "unregistering", !.s = s,
                                   !.calls = @ \cup (session[s].waits \ next.saved)]
    <3>1. /\ next.calls \cup (session[s].waits \ next.saved) \in SUBSET Waiters
          /\ s \in 0 .. MaxSession
      <4>1. next.calls \in SUBSET Waiters
        BY DEF ThreadRec
      <4>2. session[s].waits \in SUBSET Waiters
        BY <1>0 DEF SessionRec
      <4> QED
        BY <4>1, <4>2 DEF Sessions, SyncAssumption
    <3>3. new \in ThreadRec /\ new.pc = "unregistering" /\ new.s = s /\ new.op = next.op
      BY <3>1 DEF ThreadRec, Counters
    <3>2. thread' = [thread EXCEPT ![t] = new]
      BY <2>2 DEF becomeWith
    <3> QED
      BY <1>0, <2>2, <3>2, <3>3
  <2> QED
    BY <2>1, <2>2
<1>5. \A h \in registered' :
        /\ h \in HandlerRec
        /\ h.s = s \/ \E g \in registered : g.s = h.s
        /\ h.kind = "death" =>
             \/ h.s = s /\ toDie /\ (unsent => h.due = "not yet")
             \/ h.s = s /\ ended
             \/ h \in H /\ ~(h.s = s /\ toDie)
  <2> SUFFICES ASSUME NEW h \in registered'
               PROVE  /\ h \in HandlerRec
                      /\ h.s = s \/ \E g \in registered : g.s = h.s
                      /\ h.kind = "death" =>
                           \/ h.s = s /\ toDie /\ (unsent => h.due = "not yet")
                           \/ h.s = s /\ ended
                           \/ h \in H /\ ~(h.s = s /\ toDie)
    OBVIOUS
  <2>1. CASE ended
    <3>1. PICK g \in H : h = IF g.s = s THEN [g EXCEPT !.due = "cancelled"] ELSE g
      BY <2>1 DEF becomeWith
    <3> QED
      BY <1>0, <2>1, <3>1 DEF HandlerRec
  <2>2. CASE ~ended
    <3>1. \/ h \in H /\ (toDie => h \notin Outdated("death", s))
          \/ h = Handler("death", s) /\ toDie
          \/ h = Handler("wait", s)
      BY <2>2 DEF becomeWith
    <3>2. CASE h \in H /\ (toDie => h \notin Outdated("death", s))
      BY <1>0, <3>2 DEF Outdated
    <3>3. CASE h = Handler("death", s) /\ toDie
      BY <3>3 DEF Handler, HandlerRec
    <3>4. CASE h = Handler("wait", s)
      BY <3>4 DEF Handler, HandlerRec
    <3> QED
      BY <3>1, <3>2, <3>3, <3>4
  <2> QED
    BY <2>1, <2>2
<1>6. DeathsAhead'
  <2> USE DEF MayBecome
  <2> SUFFICES ASSUME NEW h \in registered', h.kind = "death",
                      session'[h.s].state = "dying", session'[h.s].owes
               PROVE  h.due = "not yet"
    BY DEF DeathsAhead
  <2>1. CASE h.s = s /\ toDie /\ (unsent => h.due = "not yet")
    BY <1>3, <2>1
  <2>2. CASE h.s = s /\ ended
    BY <1>3, <2>2
  <2>3. CASE h \in H /\ ~(h.s = s /\ toDie)
    <3>1. session[h.s].state = "dying" /\ session[h.s].owes
      BY <1>0, <1>3, <2>3 DEF HandlerRec
    <3> QED
      BY <2>3, <3>1 DEF IInv, DeathsAhead
  <2> QED
    BY <1>5, <2>1, <2>2, <2>3
<1>7. Connected'
  BY <1>3 DEF IInv, Connected, MayBecome
<1> QED
  BY <1>3, <1>4, <1>5, <1>6, <1>7 DEF Became, MayBecome

(* A step of thread t, which takes or releases a mutex, changes the         *)
(* registry and adds references only while it holds the mutex or nobody     *)
(* does: what it leaves behind of the other threads still holds.            *)
LEMMA ThreadStep ==
  ASSUME IInv, NEW t \in AllThreads,
         Types', Connected', DeathsAhead',
         \A s \in Sessions : session[s].state # "none" => session'[s].state # "none",
         \A u \in AllThreads : u # t => thread'[u] = thread[u],
         \/ sessionMutex' = sessionMutex
         \/ sessionMutex = t /\ sessionMutex' = Nobody
         \/ sessionMutex = Nobody /\ sessionMutex' = t,
         \/ userMutex' = userMutex
         \/ userMutex' = Nobody
         \/ userMutex = Nobody /\ userMutex' = t,
         map' # map => sessionMutex \in {Nobody, t},
         \A s \in Sessions :
           refs'[s] =< refs[s] \/ (sessionMutex \in {Nobody, t} /\ Made(s)'),
         map' # 0 => Made(map)',
         \A s \in asked' : s \in asked \/ Made(s)',
         \A h \in registered' : Made(h.s)',
         thread'[t].pc \notin {"idle", "loggedOut"} => Made(thread[t].s)',
         SessionMutexOf(t)', UserMutexOf(t)'
  PROVE  IInv'
<1> USE SyncAssumption DEF SyncAssumption
<1>1. ASSUME NEW u \in AllThreads, u # t
      PROVE  SessionMutexOf(u)' /\ UserMutexOf(u)'
  <2>1. thread'[u] = thread[u] /\ u # Nobody
    BY <1>1 DEF AllThreads
  <2>2. SessionMutexOf(u) /\ UserMutexOf(u)
    BY DEF IInv, Mutexes
  <2>3. Holds(u)' <=> Holds(u)
    BY <2>1 DEF Holds
  <2>4. UserMutexOf(u)'
    BY <1>1, <2>1, <2>2 DEF UserMutexOf
  <2>5. sessionMutex' = u <=> sessionMutex = u
    BY <1>1, <2>1
  <2>6. Holds(u) => /\ sessionMutex = u /\ map' = map
                    /\ \A s \in Sessions : refs'[s] =< refs[s]
    BY <1>1, <2>1, <2>2 DEF SessionMutexOf
  <2>7. Holds(u) /\ thread[u].pc # "checked" /\ thread[u].op = "get" =>
          refs'[thread[u].s] < MaxRefs
    <3> SUFFICES ASSUME Holds(u), thread[u].pc # "checked", thread[u].op = "get"
                 PROVE  refs'[thread[u].s] < MaxRefs
      OBVIOUS
    <3>1. thread[u].s \in Sessions /\ refs[thread[u].s] < MaxRefs
      BY <2>2 DEF SessionMutexOf, IInv, InUse, Made, Holds
    <3>2. refs[thread[u].s] \in Nat /\ refs'[thread[u].s] \in Nat
      BY <3>1 DEF IInv, Types
    <3> QED
      BY <2>6, <3>1, <3>2
  <2>8. thread[u].pc = "checked" => Holds(u)
    BY DEF Holds
  <2>9. SessionMutexOf(u)'
    BY <2>1, <2>2, <2>3, <2>5, <2>6, <2>7, <2>8 DEF SessionMutexOf
  <2> QED
    BY <2>4, <2>9
<1>2. Mutexes'
  BY <1>1 DEF Mutexes
<1>3. InUse'
  <2>1. ASSUME NEW s \in Sessions, refs'[s] > 0 PROVE Made(s)'
    <3>1. refs[s] \in Nat /\ refs'[s] \in Nat
      BY DEF IInv, Types
    <3>2. CASE refs'[s] =< refs[s]
      <4>1. refs[s] > 0
        BY <2>1, <3>1, <3>2
      <4> QED
        BY <4>1 DEF IInv, InUse, Made
    <3> QED
      BY <3>2
  <2>2. \A u \in AllThreads : thread'[u].pc \notin {"idle", "loggedOut"} => Made(thread[u].s)'
    BY DEF IInv, InUse, Made
  <2> QED
    BY <2>1, <2>2 DEF IInv, InUse, Made
<1> QED
  BY <1>2, <1>3 DEF IInv

(* A step of a thread without the manager's mutex that has session s become *)
(* f and goes on as next, or unregisters s first.                           *)
LEMMA BecomeStep ==
  ASSUME IInv, NEW H \in SUBSET registered, NEW t \in AllThreads, NEW s \in Sessions,
         NEW f \in SessionRec, NEW next \in ThreadRec,
         MayBecome(s, f),
         becomeWith(H, t, s, f, next),
         UNCHANGED <<unsent, refs, managerVars, userVars>>,
         \A x \in asked' : x \in asked \/ x = s,
         sessionMutex # t,
         next.pc \notin {"registering", "registered", "checked"},
         next.pc = "reviving" => next.op \notin {"get", "create"},
         next.pc \notin {"idle", "loggedOut"} => Made(next.s),
         userMutex = t => next.op = "logOut" /\ next.pc \in {"telling", "loggedOut"}
  PROVE  IInv'
<1>0. Became(t, s, f, next)
  BY Become, Zenon
<1>1. /\ session' \in [Sessions -> SessionRec] /\ registered' \in SUBSET HandlerRec
      /\ thread' \in [AllThreads -> ThreadRec]
      /\ \A x \in Sessions : session[x].state # "none" => session'[x].state # "none"
      /\ Connected' /\ DeathsAhead'
      /\ \A u \in AllThreads : u # t => thread'[u] = thread[u]
      /\ \/ thread'[t] = next
         \/ thread'[t].pc = "unregistering" /\ thread'[t].s = s /\ thread'[t].op = next.op
  BY <1>0 DEF Became
<1>2. /\ unsent' = unsent /\ refs' = refs /\ map' = map /\ sessionMutex' = sessionMutex
      /\ user' = user /\ userMutex' = userMutex
  BY DEF managerVars, userVars
<1>3. \A x \in asked' : x \in Sessions
  BY DEF IInv, Types
<1>4. Types'
  BY <1>1, <1>2, <1>3 DEF IInv, Types
<1>5. Made(s)' /\ \A x : Made(x) => Made(x)'
  BY <1>1 DEF Made, MayBecome
<1>6. thread'[t].pc \notin {"idle", "loggedOut"} => Made(thread[t].s)'
  BY <1>1, <1>5 DEF Made
<1>7. SessionMutexOf(t)'
  BY <1>1, <1>2 DEF SessionMutexOf, Holds
<1>8. UserMutexOf(t)'
  BY <1>1, <1>2 DEF UserMutexOf
<1>12. \A h \in registered' : Made(h.s)'
  <2>1. \A h \in registered' : h.s = s \/ \E g \in registered : g.s = h.s
    BY <1>0 DEF Became
  <2> QED
    BY <2>1, <1>5 DEF IInv, InUse
<1>9. map' # 0 => Made(map)'
  BY <1>2, <1>5 DEF IInv, InUse
<1>10. \A x \in asked' : x \in asked \/ Made(x)'
  BY <1>5
<1>11. \A x \in Sessions : refs'[x] =< refs[x]
  <2> SUFFICES ASSUME NEW x \in Sessions PROVE refs'[x] =< refs[x]
    OBVIOUS
  <2>1. refs[x] \in Nat
    BY SyncAssumption DEF IInv, Types, SyncAssumption
  <2> QED
    BY <1>2, <2>1
<1> QED
  BY <1>1, <1>2, <1>4, <1>6, <1>7, <1>8, <1>9, <1>10, <1>11, <1>12, ThreadStep

(* A thread that is not where one holds a mutex holds none; where it works  *)
(* with a session, that was made.                                           *)
LEMMA WhereThreadIs ==
  ASSUME IInv, NEW t \in AllThreads
  PROVE  /\ thread[t] \in ThreadRec
         /\ thread[t].pc \notin {"idle", "loggedOut"} => Made(thread[t].s)
         /\ ~Holds(t) /\ thread[t].pc # "unregistering" => sessionMutex # t
         /\ thread[t].pc \notin {"loggingOut", "unregistering", "checked", "telling", "loggedOut"}
              => userMutex # t
  BY DEF IInv, Types, InUse, Mutexes, SessionMutexOf, UserMutexOf

(* The records of threads and sessions that the actions make.               *)
LEMMA RestingRecord == Resting \in ThreadRec /\ Resting.pc = "idle"
<1>1. 0 \in 0 .. MaxSession
  BY SyncAssumption DEF SyncAssumption
<1> QED
  BY <1>1 DEF Resting, ThreadRec, Operations, Counters

LEMMA SessionRange == \A x \in Sessions : x \in 0 .. MaxSession
  BY SyncAssumption DEF SyncAssumption, Sessions

LEMMA CounterRecord ==
  ASSUME NEW pc \in Counters, pc # "error", NEW r \in ThreadRec
  PROVE  /\ [r EXCEPT !.pc = pc] \in ThreadRec
         /\ [r EXCEPT !.pc = pc].pc = pc /\ [r EXCEPT !.pc = pc].op = r.op
         /\ [r EXCEPT !.pc = pc].s = r.s
  BY DEF ThreadRec

LEMMA InactiveRecord ==
  ASSUME NEW f \in SessionRec
  PROVE  Inactive(f) \in SessionRec /\ Inactive(f).state = "inactive"
  BY DEF Inactive, SessionRec

LEMMA ClosedRecord ==
  ASSUME NEW f \in SessionRec, f.state # "none", f.state \in {"active", "dying"} => f.under
  PROVE  /\ Closed(f) \in SessionRec /\ Closed(f).state # "none"
         /\ Closed(f).state \in {"active", "dying"} => Closed(f).under
         /\ f.state = "dying" => Closed(f) = f
  BY InactiveRecord DEF Closed, SessionRec

LEMMA RevivedRecord ==
  ASSUME NEW f \in SessionRec, f.state # "none", f.state \in {"active", "dying"} => f.under
  PROVE  /\ Revived(f) \in SessionRec /\ Revived(f).state \in {"waiting", "active"}
         /\ Revived(f).state = "active" => Revived(f).under
  BY DEF Revived, SessionRec

(* A step of a thread without the manager's mutex that goes on as next and  *)
(* changes neither the state of a session nor a handler of its death.       *)
LEMMA PlainStep ==
  ASSUME IInv, NEW t \in AllThreads, NEW next \in ThreadRec,
         thread' = [thread EXCEPT ![t] = next],
         UNCHANGED <<unsent, refs, managerVars, userVars>>,
         session' \in [Sessions -> SessionRec],
         \A x \in Sessions : /\ session'[x].state = session[x].state
                            /\ session'[x].under = session[x].under
                            /\ session'[x].owes = session[x].owes,
         \A h \in registered' :
           h \in registered \/ (h \in HandlerRec /\ h.kind = "wait" /\ Made(h.s)),
         \A x \in asked' : x \in asked \/ Made(x),
         sessionMutex # t,
         next.pc \notin {"registering", "registered", "checked"},
         next.pc = "reviving" => next.op \notin {"get", "create"},
         next.pc \notin {"idle", "loggedOut"} => Made(next.s),
         userMutex = t => /\ next.op = "logOut"
                          /\ next.pc \in {"telling", "loggedOut", "unregistering"}
  PROVE  IInv'
<1>1. /\ unsent' = unsent /\ refs' = refs /\ map' = map /\ sessionMutex' = sessionMutex
      /\ user' = user /\ userMutex' = userMutex
  BY DEF managerVars, userVars
<1>2. thread' \in [AllThreads -> ThreadRec] /\ thread'[t] = next
      /\ \A u \in AllThreads : u # t => thread'[u] = thread[u]
  BY DEF IInv, Types
<1>3. \A x : Made(x) => Made(x)'
  BY DEF Made
<1>4. registered' \in SUBSET HandlerRec /\ \A h \in registered' : Made(h.s)'
  BY <1>3 DEF IInv, Types, InUse
<1>5. asked' \in SUBSET Sessions /\ \A x \in asked' : x \in asked \/ Made(x)'
  BY <1>3 DEF IInv, Types, Made
<1>6. Types'
  BY <1>1, <1>2, <1>4, <1>5 DEF IInv, Types
<1>7. Connected'
  BY DEF IInv, Connected
<1>8. DeathsAhead'
  BY DEF IInv, DeathsAhead, InUse, Made
<1>9. thread'[t].pc \notin {"idle", "loggedOut"} => Made(thread[t].s)'
  BY <1>2, <1>3 DEF Made
<1>10. SessionMutexOf(t)' /\ UserMutexOf(t)'
  BY <1>1, <1>2 DEF SessionMutexOf, UserMutexOf, Holds
<1>11. map' # 0 => Made(map)'
  BY <1>1, <1>3 DEF IInv, InUse
<1>12. \A x \in Sessions : refs'[x] =< refs[x]
  <2> SUFFICES ASSUME NEW x \in Sessions PROVE refs'[x] =< refs[x]
    OBVIOUS
  <2>1. refs[x] \in Nat
    BY SyncAssumption DEF IInv, Types, SyncAssumption
  <2> QED
    BY <1>1, <2>1
<1> QED
  BY <1>1, <1>2, <1>4, <1>5, <1>6, <1>7, <1>8, <1>9, <1>10, <1>11, <1>12, ThreadStep
------------------------------------------------------------------------------
(* One lemma for each action, or for a few that are alike.                  *)

LEMMA AliveIsMade == ASSUME IInv, NEW s \in Sessions, IsAlive(s) PROVE Made(s)
  BY DEF IsAlive, Made

(* What a session that was made may become.                                 *)
LEMMA SessionFacts ==
  ASSUME IInv, NEW s, Made(s)
  PROVE  /\ s \in Sessions /\ session[s] \in SessionRec
         /\ session[s].state # "none"
         /\ session[s].state \in {"active", "dying"} => session[s].under
         /\ MayBecome(s, session[s])
         /\ Inactive(session[s]) \in SessionRec /\ MayBecome(s, Inactive(session[s]))
         /\ Inactive(session[s]).state = "inactive"
         /\ Closed(session[s]) \in SessionRec /\ MayBecome(s, Closed(session[s]))
         /\ Revived(session[s]) \in SessionRec /\ MayBecome(s, Revived(session[s]))
<1>1. /\ s \in Sessions /\ session[s] \in SessionRec /\ session[s].state # "none"
      /\ session[s].state \in {"active", "dying"} => session[s].under
  BY DEF Made, IInv, Types, Connected
<1> QED
  BY <1>1, InactiveRecord, ClosedRecord, RevivedRecord DEF MayBecome

LEMMA RevivingKeeps ==
  ASSUME IInv, NEW t \in AllThreads, reviveIfNeeded(t)
  PROVE  IInv'
<1> DEFINE s == thread[t].s
           f == Revived(session[s])
           next == IF thread[t].op \in {"get", "create"}
                   THEN [thread[t] EXCEPT !.pc = "registered"] ELSE Resting
<1>1. thread[t] \in ThreadRec /\ thread[t].pc = "reviving" /\ Made(s)
  BY WhereThreadIs DEF reviveIfNeeded, At
<1>2. s \in Sessions /\ session[s] \in SessionRec /\ session[s].state # "none"
      /\ session \in [Sessions -> SessionRec]
  BY <1>1 DEF Made, IInv, Types
<1>3. f \in SessionRec /\ MayBecome(s, f) /\ f.state # "inactive"
  <2>1. f.state \in {"waiting", "active"}
    BY <1>1, SessionFacts, RevivedRecord
  <2> QED
    BY <1>1, <2>1, SessionFacts
<1>4. next \in ThreadRec
      /\ (thread[t].op \in {"get", "create"} =>
            next.pc = "registered" /\ next.op = thread[t].op /\ next.s = s)
      /\ (thread[t].op \notin {"get", "create"} => next.pc = "idle")
  <2>1. CASE thread[t].op \in {"get", "create"}
    <3>1. "registered" \in Counters
      BY DEF Counters
    <3> QED
      BY <1>1, <2>1, <3>1, CounterRecord
  <2>2. CASE thread[t].op \notin {"get", "create"}
    BY <2>2, RestingRecord
  <2> QED
    BY <2>1, <2>2
<1>5. becomeWith(registered, t, s, f, next)
  BY DEF reviveIfNeeded, become
<1>6. /\ unsent' = unsent /\ refs' = refs /\ map' = map /\ sessionMutex' = sessionMutex
      /\ user' = user /\ userMutex' = userMutex
      /\ \A x \in asked' : x \in asked \/ x = s
  BY DEF reviveIfNeeded, InSession, managerVars, userVars
<1>7. userMutex # t
  BY <1>1, WhereThreadIs
<1>8. CASE thread[t].op \notin {"get", "create"}
  <2>1. sessionMutex # t
    BY <1>1, <1>8, WhereThreadIs DEF Holds
  <2> QED
    BY <1>2, <1>3, <1>4, <1>5, <1>6, <1>7, <1>8, <2>1, BecomeStep DEF managerVars, userVars
<1>9. CASE thread[t].op \in {"get", "create"}
  <2>1. Became(t, s, f, next)
    BY <1>2, <1>3, <1>4, <1>5, Become, Zenon
  <2>2. /\ session' \in [Sessions -> SessionRec] /\ registered' \in SUBSET HandlerRec
        /\ thread' \in [AllThreads -> ThreadRec]
        /\ \A x \in Sessions : session[x].state # "none" => session'[x].state # "none"
        /\ \A h \in registered' : h.s = s \/ \E g \in registered : g.s = h.s
        /\ Connected' /\ DeathsAhead'
        /\ \A u \in AllThreads : u # t => thread'[u] = thread[u]
        /\ thread'[t] = next
    BY <1>3, <2>1 DEF Became
  <2>3. \A x : Made(x) => Made(x)'
    BY <2>2 DEF Made
  <2>4. Types' /\ \A x \in asked' : x \in asked \/ Made(x)'
    BY <1>1, <1>2, <1>6, <2>2, <2>3 DEF IInv, Types
  <2>5. \A h \in registered' : Made(h.s)'
    BY <1>1, <2>2, <2>3 DEF IInv, InUse
  <2>6. Made(thread[t].s)' /\ (map' # 0 => Made(map)')
    BY <1>1, <1>4, <1>6, <1>9, <2>2, <2>3 DEF IInv, InUse, Made
  <2>7. sessionMutex = t /\ SessionMutexOf(t)
    BY <1>1, <1>9 DEF IInv, Mutexes, SessionMutexOf, Holds
  <2>8. SessionMutexOf(t)' /\ UserMutexOf(t)'
    BY <1>1, <1>4, <1>6, <1>7, <1>9, <2>2, <2>7 DEF SessionMutexOf, UserMutexOf, Holds
  <2>9. \A x \in Sessions : refs'[x] =< refs[x]
    <3> SUFFICES ASSUME NEW x \in Sessions PROVE refs'[x] =< refs[x]
      OBVIOUS
    <3>1. refs[x] \in Nat
      BY SyncAssumption DEF IInv, Types, SyncAssumption
    <3> QED
      BY <1>6, <3>1
  <2> QED
    BY <1>6, <2>2, <2>4, <2>5, <2>6, <2>7, <2>8, <2>9, ThreadStep
<1> QED
  BY <1>8, <1>9

LEMMA LogOutSessionKeeps ==
  ASSUME IInv, NEW t \in AllThreads, logOutSession(t)
  PROVE  IInv'
<1> DEFINE s == thread[t].s
           f == IF session[s].state = "inactive" THEN session[s] ELSE Inactive(session[s])
           next == [thread[t] EXCEPT !.pc = "loggedOut"]
<1>1. thread[t] \in ThreadRec /\ thread[t].pc = "loggingOut" /\ Made(s) /\ sessionMutex # t
  BY WhereThreadIs DEF logOutSession, At, Holds
<1>2. s \in Sessions /\ f \in SessionRec /\ MayBecome(s, f)
  BY <1>1, SessionFacts
<1>3. next \in ThreadRec /\ next.pc = "loggedOut" /\ next.op = thread[t].op
  BY <1>1 DEF ThreadRec, Counters
<1>4. becomeWith(registered, t, s, f, next)
  BY DEF logOutSession, become
<1>5. UNCHANGED <<unsent, refs, managerVars, userVars, asked>>
  BY DEF logOutSession, InSession
<1>6. userMutex = t => next.op = "logOut"
  BY <1>3 DEF IInv, Mutexes, UserMutexOf
<1> QED
  BY <1>1, <1>2, <1>3, <1>4, <1>5, <1>6, BecomeStep

(* suspend, tokenFails and refreshAccessToken end with an idle thread.      *)
LEMMA IdleBecomeKeeps ==
  ASSUME IInv, NEW t \in AllThreads, NEW s \in Sessions, NEW f \in SessionRec,
         NEW H \in SUBSET registered,
         MayBecome(s, f), becomeWith(H, t, s, f, Resting),
         UNCHANGED <<unsent, refs, managerVars, userVars>>,
         \A x \in asked' : x \in asked \/ x = s,
         thread[t].pc \in {"idle", "dropped", "error", "ending"}
  PROVE  IInv'
<1>1. sessionMutex # t /\ userMutex # t
  BY WhereThreadIs DEF Holds
<1> QED
  BY <1>1, RestingRecord, BecomeStep

LEMMA SuspendKeeps ==
  ASSUME IInv, NEW t \in AllThreads, NEW s \in Sessions, suspend(t, s)
  PROVE  IInv'
<1>1. Made(s) /\ thread[t].pc = "idle"
  BY AliveIsMade DEF suspend, IsIdle, At
<1>2. becomeWith(registered, t, s, Inactive(session[s]), Resting)
      /\ UNCHANGED <<unsent, refs, managerVars, userVars, asked>>
  BY DEF suspend, become, InSession
<1> QED
  BY <1>1, <1>2, SessionFacts, IdleBecomeKeeps

LEMMA TokenFailsKeeps ==
  ASSUME IInv, NEW t \in AllThreads, NEW s \in Sessions, tokenFails(t, s)
  PROVE  IInv'
<1> DEFINE f == IF session[s].state = "inactive" THEN session[s] ELSE Inactive(session[s])
<1>1. Made(s) /\ thread[t].pc = "idle"
  BY DEF tokenFails, IsIdle, At, IInv, InUse
<1>2. becomeWith(registered, t, s, f, Resting)
      /\ UNCHANGED <<unsent, refs, managerVars, userVars>>
      /\ \A x \in asked' : x \in asked
  BY DEF tokenFails, become, InSession
<1>3. f \in SessionRec /\ MayBecome(s, f)
  BY <1>1, SessionFacts
<1> QED
  BY <1>1, <1>2, <1>3, IdleBecomeKeeps

LEMMA RefreshKeeps ==
  ASSUME IInv, NEW t \in AllThreads, NEW s \in Sessions, refreshAccessToken(t, s)
  PROVE  IInv'
<1> DEFINE active == [session[s] EXCEPT !.state = "active", !.under = TRUE]
           f == IF session[s].state # "waiting" THEN session[s]
                ELSE IF session[s].deferredClose THEN Closed(active) ELSE active
<1>1. Made(s) /\ thread[t].pc = "idle"
  BY DEF refreshAccessToken, IsIdle, At, IInv, InUse
<1>2. becomeWith(registered, t, s, f, Resting)
      /\ UNCHANGED <<unsent, refs, managerVars, userVars>>
      /\ \A x \in asked' : x \in asked
  BY DEF refreshAccessToken, become, InSession
<1>3. active \in SessionRec /\ active.state = "active" /\ active.under
  BY <1>1, SessionFacts DEF SessionRec
<1>4. Closed(active) \in SessionRec /\ Closed(active).state # "none"
      /\ (Closed(active).state \in {"active", "dying"} => Closed(active).under)
  BY <1>3, ClosedRecord
<1>5. f \in SessionRec /\ MayBecome(s, f)
  BY <1>1, <1>3, <1>4, SessionFacts DEF MayBecome
<1> QED
  BY <1>1, <1>2, <1>5, IdleBecomeKeeps

(* What an iteration of the loop of update_configuration makes of a session. *)
Configured(s, policy, resync) ==
  IF session[s].state = "inactive"
  THEN [session[s] EXCEPT !.policy = policy, !.resync = resync]
  ELSE Inactive(session[s])

LEMMA ConfiguredFacts ==
  ASSUME IInv, NEW s, Made(s), NEW p \in Policies, NEW resync \in BOOLEAN
  PROVE  LET f == Configured(s, p, resync)
         IN  /\ f \in SessionRec /\ MayBecome(s, f) /\ f.state = "inactive"
             /\ session[s].state = "inactive" => f.waits = session[s].waits
             /\ session[s].state # "inactive" => f = Inactive(session[s])
<1>1. CASE session[s].state = "inactive"
  <2> DEFINE f == [session[s] EXCEPT !.policy = p, !.resync = resync]
  <2>1. session[s] \in SessionRec
    BY SessionFacts
  <2>2. /\ f \in SessionRec /\ f.state = session[s].state /\ f.waits = session[s].waits
        /\ f.owes = session[s].owes
    BY <2>1 DEF SessionRec
  <2>3. Configured(s, p, resync) = f
    BY <1>1 DEF Configured
  <2> QED
    BY <1>1, <2>2, <2>3 DEF MayBecome
<1>2. CASE session[s].state # "inactive"
  BY <1>2, SessionFacts DEF Configured
<1> QED
  BY <1>1, <1>2

LEMMA ConfigureKeeps ==
  ASSUME IInv, NEW t \in AllThreads, NEW p \in Policies, NEW resync \in BOOLEAN,
         configure(t, p, resync)
  PROVE  IInv'
<1> DEFINE s == thread[t].s
           inactive == session[s].state = "inactive"
           f == Configured(s, p, resync)
           next == IF inactive THEN Start("reviving", "", s) ELSE thread[t]
<1>1. thread[t] \in ThreadRec /\ thread[t].pc = "configuring" /\ Made(s)
      /\ sessionMutex # t /\ userMutex # t
  BY WhereThreadIs DEF configure, At, Holds
<1>2. s \in Sessions /\ f \in SessionRec /\ MayBecome(s, f)
  BY <1>1, SessionFacts, ConfiguredFacts
<1>3. /\ next \in ThreadRec /\ next.pc \in {"reviving", "configuring"} /\ next.s = s
      /\ next.pc = "reviving" => next.op = ""
  <2>2. /\ Start("reviving", "", s) \in ThreadRec /\ Start("reviving", "", s).s = s
        /\ Start("reviving", "", s).pc = "reviving" /\ Start("reviving", "", s).op = ""
    BY <1>2, SessionRange DEF Start, Resting, ThreadRec, Operations, Counters
  <2> QED
    BY <1>1, <2>2
<1>4. becomeWith(registered, t, s, f, next)
  BY DEF configure, become, Configured
<1>5. UNCHANGED <<unsent, refs, managerVars, userVars, asked>>
  BY DEF configure, InSession
<1> QED
  BY <1>1, <1>2, <1>3, <1>4, <1>5, BecomeStep

LEMMA DyingErrorKeeps == ASSUME IInv, errorWhileDying PROVE IInv'
<1> DEFINE s == thread[Loop].s
           f == IF thread[Loop].op = "expired" THEN session[s] ELSE Inactive(session[s])
<1>1. Loop \in AllThreads /\ thread[Loop].pc = "error" /\ Made(s)
  BY WhereThreadIs DEF errorWhileDying, At, AllThreads
<1>2. becomeWith(registered, Loop, s, f, Resting)
      /\ UNCHANGED <<unsent, refs, managerVars, userVars, asked>>
  BY DEF errorWhileDying, become, InSession
<1>3. s \in Sessions /\ f \in SessionRec /\ MayBecome(s, f)
  BY <1>1, SessionFacts
<1> QED
  BY <1>1, <1>2, <1>3, IdleBecomeKeeps

LEMMA EndSessionKeeps == ASSUME IInv, endSession PROVE IInv'
<1> DEFINE s == thread[Loop].s
           f == IF aborted' = "" THEN Inactive(session[s]) ELSE session[s]
<1>1. Loop \in AllThreads /\ thread[Loop].pc = "ending" /\ Made(s)
  BY WhereThreadIs DEF endSession, At, AllThreads
<1>2. becomeWith(registered, Loop, s, f, Resting)
      /\ UNCHANGED <<unsent, refs, managerVars, userVars, asked>>
  BY DEF endSession, become, InSession
<1>3. s \in Sessions /\ f \in SessionRec /\ MayBecome(s, f)
  BY <1>1, SessionFacts
<1> QED
  BY <1>1, <1>2, <1>3, IdleBecomeKeeps

LEMMA DeathKeeps == ASSUME IInv, NEW h \in registered, deathCompletes(h) PROVE IInv'
<1> DEFINE f == IF IsAlive(h.s) /\ session[h.s].state = "dying" THEN Inactive(session[h.s])
                ELSE session[h.s]
<1>1. Loop \in AllThreads /\ thread[Loop].pc = "idle" /\ Made(h.s)
  BY DEF deathCompletes, IsIdle, At, AllThreads, IInv, InUse
<1>2. becomeWith(registered \ {h}, Loop, h.s, f, Resting)
      /\ UNCHANGED <<unsent, refs, managerVars, userVars, asked>>
  BY DEF deathCompletes, InSession
<1>3. h.s \in Sessions /\ f \in SessionRec /\ MayBecome(h.s, f)
  BY <1>1, SessionFacts
<1> QED
  BY <1>1, <1>2, <1>3, IdleBecomeKeeps

LEMMA ResyncKeeps == ASSUME IInv, resyncSession PROVE IInv'
<1> DEFINE s == thread[Loop].s
           H == registered \ Outdated("wait", s)
           next == [Start("", "resync", s) EXCEPT !.saved = session[s].waits]
<1>1. /\ Loop \in AllThreads /\ thread[Loop].pc = "resyncing" /\ Made(s)
      /\ thread[Loop] \in ThreadRec /\ sessionMutex # Loop /\ userMutex # Loop
  <2>1. Loop \in AllThreads /\ thread[Loop].pc = "resyncing"
    BY DEF resyncSession, At, AllThreads
  <2> QED
    BY <2>1, WhereThreadIs DEF Holds
<1>2. UNCHANGED <<unsent, refs, managerVars, userVars, asked>>
  BY DEF resyncSession
<1>3. CASE session[s].state = "inactive"
  <2>1. UNCHANGED <<session, registered, thread>>
    BY <1>3 DEF resyncSession
  <2>2. thread' = [thread EXCEPT ![Loop] = thread[Loop]]
    BY <2>1 DEF IInv, Types
  <2>3. session \in [Sessions -> SessionRec]
    BY DEF IInv, Types
  <2> QED
    BY <1>1, <1>2, <2>1, <2>2, <2>3, PlainStep
<1>4. CASE session[s].state # "inactive"
  <2>1. becomeWith(H, Loop, s, Inactive(session[s]), next)
    BY <1>4 DEF resyncSession
  <2>2. /\ s \in Sessions /\ session[s] \in SessionRec
        /\ Inactive(session[s]) \in SessionRec /\ MayBecome(s, Inactive(session[s]))
    BY <1>1, SessionFacts
  <2>4. /\ Start("", "resync", s) \in ThreadRec /\ Start("", "resync", s).pc = ""
        /\ Start("", "resync", s).s = s
    BY <2>2, SessionRange DEF Start, Resting, ThreadRec, Operations, Counters
  <2>5. session[s].waits \in SUBSET Waiters
    BY <2>2 DEF SessionRec
  <2>6. next \in ThreadRec /\ next.pc = "" /\ next.s = s
    BY <2>4, <2>5 DEF ThreadRec
  <2>7. H \in SUBSET registered
    OBVIOUS
  <2> QED
    BY <1>1, <1>2, <2>1, <2>2, <2>6, <2>7, BecomeStep
<1> QED
  BY <1>3, <1>4
(* The steps that only send a thread, which holds nothing, elsewhere.       *)
LEMMA MoveKeeps ==
  ASSUME IInv, NEW t \in AllThreads, NEW next \in ThreadRec,
         thread[t].pc \in {"idle", "dropped", "error", "puttingBack"},
         thread' = [thread EXCEPT ![t] = next],
         UNCHANGED <<unsent, session, refs, registered, managerVars, userVars>>,
         \A x \in asked' : x \in asked \/ Made(x),
         next.pc \notin {"registering", "registered", "checked"},
         next.pc = "reviving" => next.op \notin {"get", "create"},
         next.pc \notin {"idle", "loggedOut"} => Made(next.s)
  PROVE  IInv'
<1>1. sessionMutex # t /\ userMutex # t
  BY WhereThreadIs DEF Holds
<1>2. session' \in [Sessions -> SessionRec] /\ session' = session /\ registered' = registered
  BY DEF IInv, Types
<1> QED
  BY <1>1, <1>2, PlainStep

LEMMA ResumeKeeps ==
  ASSUME IInv, NEW t \in AllThreads, NEW s \in Sessions,
         resume(t, s) \/ updateConfiguration(t, s)
  PROVE  IInv'
<1>1. Made(s) /\ thread[t].pc = "idle"
  BY AliveIsMade DEF resume, updateConfiguration, IsIdle, At
<1>2. UNCHANGED <<unsent, session, refs, registered, managerVars, userVars, asked>>
  BY DEF resume, updateConfiguration, InSession
<1>3. PICK next \in {Start("reviving", "", s), Start("configuring", "config", s)} :
        thread' = [thread EXCEPT ![t] = next]
  BY DEF resume, updateConfiguration
<1>4. /\ next \in ThreadRec /\ next.s = s /\ next.pc \in {"reviving", "configuring"}
      /\ next.op \in {"", "config"}
  <2>1. CASE next = Start("reviving", "", s)
    BY <2>1, SessionRange DEF Start, Resting, ThreadRec, Operations, Counters
  <2>2. CASE next = Start("configuring", "config", s)
    BY <2>2, SessionRange DEF Start, Resting, ThreadRec, Operations, Counters
  <2> QED
    BY <1>3, <2>1, <2>2
<1> QED
  BY <1>1, <1>2, <1>3, <1>4, MoveKeeps

LEMMA HearErrorKeeps ==
  ASSUME IInv, NEW s \in Sessions, NEW error \in Errors, hearError(s, error)
  PROVE  IInv'
<1>1. Made(s) /\ thread[Loop].pc = "idle" /\ Loop \in AllThreads
  BY AliveIsMade DEF hearError, IsIdle, At, AllThreads
<1>2. UNCHANGED <<unsent, session, refs, registered, managerVars, userVars, asked>>
  BY DEF hearError, InSession
<1>3. /\ Start("error", error, s) \in ThreadRec /\ Start("error", error, s).s = s
      /\ Start("error", error, s).pc = "error"
  BY SessionRange DEF Start, Resting, ThreadRec, Operations, Counters
<1>4. thread' = [thread EXCEPT ![Loop] = Start("error", error, s)]
  BY DEF hearError
<1> QED
  BY <1>1, <1>2, <1>3, <1>4, MoveKeeps

LEMMA ReconnectKeeps ==
  ASSUME IInv, NEW t \in AllThreads, reconnect(t)
  PROVE  IInv'
<1>1. thread[t].pc = "idle" /\ thread[t] \in ThreadRec
  BY WhereThreadIs DEF reconnect, IsIdle, At
<1>2. UNCHANGED <<unsent, session, refs, registered, managerVars, userVars>>
      /\ thread' = [thread EXCEPT ![t] = thread[t]]
  BY DEF reconnect, InSession, IInv, Types
<1>3. \A x \in asked' : x \in asked \/ Made(x)
  BY DEF reconnect, IInv, InUse
<1> QED
  BY <1>1, <1>2, <1>3, MoveKeeps

LEMMA WaitKeeps ==
  ASSUME IInv, NEW t \in AllThreads, NEW w \in Waiters, NEW s \in Sessions,
         waitForCompletion(t, w, s)
  PROVE  IInv'
<1>1. /\ Made(s) /\ thread[t].pc = "idle" /\ thread[t] \in ThreadRec
      /\ sessionMutex # t /\ userMutex # t
  BY AliveIsMade, WhereThreadIs DEF waitForCompletion, IsIdle, At, Holds
<1>2. /\ UNCHANGED <<unsent, refs, managerVars, userVars, asked>>
      /\ thread' = [thread EXCEPT ![t] = thread[t]]
  BY DEF waitForCompletion, IInv, Types
<1>3. session \in [Sessions -> SessionRec] /\ session[s] \in SessionRec
      /\ session' = [session EXCEPT ![s].waits = @ \cup {w}]
  BY DEF waitForCompletion, IInv, Types
<1>4. /\ session' \in [Sessions -> SessionRec]
      /\ \A x \in Sessions : /\ session'[x].state = session[x].state
                             /\ session'[x].under = session[x].under
                             /\ session'[x].owes = session[x].owes
  BY <1>3 DEF SessionRec
<1>5. \A h \in registered' :
        h \in registered \/ (h \in HandlerRec /\ h.kind = "wait" /\ Made(h.s))
  <2>1. Handler("wait", s) \in HandlerRec /\ Handler("wait", s).kind = "wait"
        /\ Handler("wait", s).s = s
    BY DEF Handler, HandlerRec
  <2>2. \A h \in registered' : h \in registered \/ h = Handler("wait", s)
    BY DEF waitForCompletion
  <2> QED
    BY <1>1, <2>1, <2>2
<1> QED
  BY <1>1, <1>2, <1>4, <1>5, PlainStep

LEMMA PutBackKeeps ==
  ASSUME IInv, putBackWaits
  PROVE  IInv'
<1> DEFINE s == thread[Loop].s
           next == Start("reviving", "", s)
<1>1. Loop \in AllThreads /\ thread[Loop].pc = "puttingBack"
  BY DEF putBackWaits, At, AllThreads
<1>2. Made(s) /\ thread[Loop] \in ThreadRec /\ sessionMutex # Loop /\ userMutex # Loop
  BY <1>1, WhereThreadIs DEF Holds
<1>3. /\ UNCHANGED <<unsent, refs, managerVars, userVars, asked, registered>>
      /\ thread' = [thread EXCEPT ![Loop] = next]
  BY DEF putBackWaits
<1>4. next \in ThreadRec /\ next.pc = "reviving" /\ next.op = "" /\ next.s = s
  BY <1>2, SessionRange DEF Start, Resting, ThreadRec, Operations, Counters, Made
<1>5. session \in [Sessions -> SessionRec] /\ session[s] \in SessionRec
      /\ thread[Loop].saved \in SUBSET Waiters
      /\ session' = [session EXCEPT ![s].waits = thread[Loop].saved]
  BY <1>2 DEF putBackWaits, IInv, Types, ThreadRec, Made
<1>6. /\ session' \in [Sessions -> SessionRec]
      /\ \A x \in Sessions : /\ session'[x].state = session[x].state
                             /\ session'[x].under = session[x].under
                             /\ session'[x].owes = session[x].owes
  BY <1>5 DEF SessionRec
<1>7. registered' = registered /\ asked' = asked
  BY <1>3
<1> QED
  BY <1>1, <1>2, <1>3, <1>4, <1>6, <1>7, PlainStep

LEMMA WaitCompletesKeeps ==
  ASSUME IInv, NEW h \in registered, waitCompletes(h)
  PROVE  IInv'
<1> DEFINE s == h.s
           told == [Start("telling", "", s) EXCEPT !.calls = session[s].waits]
           next == IF IsAlive(s) THEN told ELSE thread[Loop]
<1>1. Loop \in AllThreads /\ thread[Loop].pc = "idle" /\ Made(s)
  BY DEF waitCompletes, IsIdle, At, AllThreads, IInv, InUse
<1>2. thread[Loop] \in ThreadRec /\ sessionMutex # Loop /\ userMutex # Loop
  BY <1>1, WhereThreadIs DEF Holds
<1>3. /\ UNCHANGED <<unsent, refs, managerVars, userVars, asked>>
      /\ thread' = [thread EXCEPT ![Loop] = next]
      /\ session' = [session EXCEPT ![s].waits = IF IsAlive(s) THEN {} ELSE @]
  BY <1>1 DEF waitCompletes, InSession, IInv, Types, SessionRec, Made
<1>4. session \in [Sessions -> SessionRec] /\ session[s] \in SessionRec
      /\ session[s].waits \in SUBSET Waiters /\ s \in Sessions
  BY <1>1 DEF IInv, Types, SessionRec, Made
<1>5. told \in ThreadRec /\ told.pc = "telling" /\ told.op = "" /\ told.s = s
  BY <1>4, SessionRange DEF Start, Resting, ThreadRec, Operations, Counters
<1>6. next \in ThreadRec /\ next.pc \in {"telling", "idle"} /\ (next.pc = "telling" => next.s = s)
  BY <1>1, <1>2, <1>5
<1>7. /\ session' \in [Sessions -> SessionRec]
      /\ \A x \in Sessions : /\ session'[x].state = session[x].state
                             /\ session'[x].under = session[x].under
                             /\ session'[x].owes = session[x].owes
  BY <1>3, <1>4 DEF SessionRec
<1>8. \A g \in registered' : g \in registered
  BY DEF waitCompletes
<1> QED
  BY <1>1, <1>2, <1>3, <1>6, <1>7, <1>8, PlainStep

(* The callbacks of an operation are called; it goes on, or has ended.      *)
LEMMA TellKeeps ==
  ASSUME IInv, NEW t \in AllThreads, tell(t)
  PROVE  IInv'
<1> DEFINE pc == Then(thread[t].op)
           next == IF pc = "idle" THEN Resting ELSE [thread[t] EXCEPT !.pc = pc, !.calls = {}]
<1>1. thread[t] \in ThreadRec /\ thread[t].pc = "telling" /\ Made(thread[t].s)
      /\ sessionMutex # t
  BY WhereThreadIs DEF tell, At, Holds
<1>2. /\ pc \in {"loggedOut", "configuring", "puttingBack", "invalidating", "ending", "idle"}
      /\ thread[t].op = "logOut" => pc = "loggedOut"
  BY DEF Then
<1>3. /\ next \in ThreadRec /\ next.pc = pc
      /\ pc # "idle" => next.s = thread[t].s /\ next.op = thread[t].op
  <2>1. CASE pc = "idle"
    BY <2>1, RestingRecord
  <2>2. CASE pc # "idle"
    <3>1. pc \in Counters /\ pc # "error"
      BY <1>2 DEF Counters
    <3> HIDE DEF pc
    <3> QED
      BY <1>1, <2>2, <3>1 DEF ThreadRec
  <2> QED
    BY <2>1, <2>2
<1>4. /\ UNCHANGED <<unsent, session, refs, registered, managerVars, userVars, asked>>
      /\ thread' = [thread EXCEPT ![t] = next]
  BY DEF tell, IInv, Types
<1>5. userMutex = t => thread[t].op = "logOut"
  BY DEF IInv, Mutexes, UserMutexOf
<1>6. session' \in [Sessions -> SessionRec] /\ session' = session /\ registered' = registered
      /\ asked' = asked
  BY <1>4 DEF IInv, Types
<1> HIDE DEF pc, next
<1> QED
  BY <1>1, <1>2, <1>3, <1>4, <1>5, <1>6, PlainStep
(* The connection of the session is left in error, or the callbacks that    *)
(* wait are told of it first.                                               *)
LEMMA HandleErrorKeeps == ASSUME IInv, handleError PROVE IInv'
<1> DEFINE s == thread[Loop].s
           f == session[s]
           waiting == [f EXCEPT !.state = "waiting", !.deferredClose = FALSE]
<1>1. Loop \in AllThreads /\ thread[Loop].pc = "error" /\ f.state # "dying"
  BY DEF handleError, At, AllThreads
<1>2. /\ Made(s) /\ thread[Loop] \in ThreadRec /\ sessionMutex # Loop /\ userMutex # Loop
  BY <1>1, WhereThreadIs DEF Holds
<1>3. /\ s \in Sessions /\ f \in SessionRec /\ f.state # "none"
      /\ f.waits \in SUBSET Waiters /\ session \in [Sessions -> SessionRec]
  BY <1>2 DEF Made, IInv, Types, SessionRec
<1>4. UNCHANGED <<unsent, refs, managerVars, userVars>>
  BY DEF handleError, InSession
<1>5. CASE thread[Loop].op = "expired" /\ f.state = "active"
  <2>1. becomeWith(registered, Loop, s, waiting, Resting) /\ asked' = asked \cup {s}
    BY <1>5 DEF handleError, become
  <2>2. waiting \in SessionRec /\ MayBecome(s, waiting)
    BY <1>3 DEF SessionRec, MayBecome
  <2> QED
    BY <1>1, <1>3, <1>4, <2>1, <2>2, IdleBecomeKeeps
<1>6. CASE /\ UNCHANGED <<session, registered, asked>>
           /\ \/ thread' = [thread EXCEPT ![Loop] = Resting]
              \/ thread' = [thread EXCEPT ![Loop].pc = "resyncing"]
              \/ thread' = [thread EXCEPT ![Loop].pc = "ending"]
  <2>1. PICK next \in {Resting, [thread[Loop] EXCEPT !.pc = "resyncing"],
                       [thread[Loop] EXCEPT !.pc = "ending"]} :
          thread' = [thread EXCEPT ![Loop] = next]
    BY <1>6
  <2>2. next \in ThreadRec /\ (next.pc = "idle" \/ (next.pc \in {"resyncing", "ending"} /\ next.s = s))
    BY <1>2, <2>1, RestingRecord DEF ThreadRec, Counters
  <2> QED
    BY <1>1, <1>2, <1>4, <1>6, <2>1, <2>2, MoveKeeps
<1>7. ASSUME NEW op \in {"", "badAuth", "reset"},
             session' = [session EXCEPT ![s].waits = {}],
             thread' = [thread EXCEPT ![Loop].pc = "telling", ![Loop].op = op,
                                      ![Loop].calls = f.waits],
             UNCHANGED <<registered, asked>>
      PROVE  IInv'
  <2> DEFINE next == [thread[Loop] EXCEPT !.pc = "telling", !.op = op, !.calls = f.waits]
  <2>1. thread' = [thread EXCEPT ![Loop] = next]
    BY <1>1, <1>7 DEF IInv, Types
  <2>2. next \in ThreadRec /\ next.pc = "telling" /\ next.s = s
    BY <1>2, <1>3 DEF ThreadRec, Counters, Operations
  <2>3. /\ session' \in [Sessions -> SessionRec]
        /\ \A x \in Sessions : /\ session'[x].state = session[x].state
                               /\ session'[x].under = session[x].under
                               /\ session'[x].owes = session[x].owes
    BY <1>3, <1>7 DEF SessionRec
  <2>4. registered' = registered /\ asked' = asked
    BY <1>7
  <2> QED
    BY <1>1, <1>2, <1>4, <2>1, <2>2, <2>3, <2>4, PlainStep
<1> DEFINE cancels(op) ==
        /\ session' = [session EXCEPT ![s].waits = {}]
        /\ thread' = [thread EXCEPT ![Loop].pc = "telling", ![Loop].op = op,
                                    ![Loop].calls = f.waits]
        /\ UNCHANGED <<registered, asked>>
<1>8. \/ thread[Loop].op = "expired" /\ f.state = "active"
      \/ /\ UNCHANGED <<session, registered, asked>>
         /\ \/ thread' = [thread EXCEPT ![Loop] = Resting]
            \/ thread' = [thread EXCEPT ![Loop].pc = "resyncing"]
            \/ thread' = [thread EXCEPT ![Loop].pc = "ending"]
      \/ \E op \in {"", "badAuth", "reset"} : cancels(op)
  <2>1. thread[Loop].op \in {"expired", "fatal", "badAuth", "reset", "denied"}
    BY <1>1, <1>2, SyncAssumption DEF ThreadRec, SyncAssumption
  <2>2. CASE thread[Loop].op = "expired" /\ f.state # "active"
    BY <2>2 DEF handleError
  <2>3. CASE thread[Loop].op \in {"fatal", "badAuth"}
    BY <2>3 DEF handleError
  <2>4. CASE thread[Loop].op = "reset"
    <3>1. f.resync \in BOOLEAN
      BY <1>3 DEF SessionRec
    <3>2. CASE f.resync
      BY <2>4, <3>2 DEF handleError
    <3>3. CASE ~f.resync
      BY <2>4, <3>3 DEF handleError
    <3> QED
      BY <3>1, <3>2, <3>3
  <2>5. CASE thread[Loop].op = "denied"
    BY <2>5 DEF handleError
  <2> QED
    BY <2>1, <2>2, <2>3, <2>4, <2>5
<1> QED
  BY <1>5, <1>6, <1>7, <1>8
------------------------------------------------------------------------------
(* The steps that take or release a mutex, or change the registry.          *)

(* A thread that moves while the sessions and handlers stay.                *)
LEMMA SameSessions ==
  ASSUME IInv, UNCHANGED <<session, registered>>
  PROVE  /\ Connected' /\ DeathsAhead' /\ \A s : Made(s) => Made(s)'
         /\ \A h \in registered' : Made(h.s)'
         /\ \A s \in Sessions : session[s].state # "none" => session'[s].state # "none"
  BY DEF IInv, Connected, DeathsAhead, InUse, Made

LEMMA SameRefs ==
  ASSUME IInv, refs' = refs
  PROVE  \A s \in Sessions : refs'[s] =< refs[s]
<1> SUFFICES ASSUME NEW s \in Sessions PROVE refs'[s] =< refs[s]
  OBVIOUS
<1>1. refs[s] \in Nat
  BY SyncAssumption DEF IInv, Types, SyncAssumption
<1> QED
  BY <1>1

(* Thread t goes on as next.                                                *)
LEMMA NextThread ==
  ASSUME IInv, NEW t \in AllThreads, NEW next \in ThreadRec,
         thread' = [thread EXCEPT ![t] = next]
  PROVE  /\ thread' \in [AllThreads -> ThreadRec] /\ thread'[t] = next
         /\ \A u \in AllThreads : u # t => thread'[u] = thread[u]
  BY DEF IInv, Types

LEMMA RegisterKeeps ==
  ASSUME IInv, NEW t \in AllThreads, registerSession(t)
  PROVE  IInv'
<1> DEFINE s == thread[t].s
           next == [thread[t] EXCEPT !.pc =
                      IF user.state = "Active" THEN "reviving" ELSE "registered"]
<1>1. thread[t] \in ThreadRec /\ thread[t].pc = "registering" /\ Made(s) /\ userMutex # t
  BY WhereThreadIs DEF registerSession, At
<1>2. SessionMutexOf(t) /\ sessionMutex = t /\ thread[t].op \in {"get", "create"}
  BY <1>1 DEF IInv, Mutexes, SessionMutexOf, Holds
<1>3. /\ next \in ThreadRec /\ next.pc \in {"reviving", "registered"}
      /\ next.op = thread[t].op /\ next.s = s
  BY <1>1 DEF ThreadRec, Counters
<1>4. thread' = [thread EXCEPT ![t] = next]
  BY DEF registerSession, IInv, Types
<1>5. /\ thread' \in [AllThreads -> ThreadRec] /\ thread'[t] = next
      /\ \A u \in AllThreads : u # t => thread'[u] = thread[u]
  BY <1>3, <1>4, NextThread
<1>6. /\ UNCHANGED <<session, registered>> /\ unsent' = unsent /\ refs' = refs
      /\ asked' = asked /\ map' = map /\ sessionMutex' = sessionMutex /\ userMutex' = userMutex
  BY DEF registerSession, managerVars
<1>7. Types'
  <2>1. s \in 0 .. MaxSession
    BY <1>1 DEF ThreadRec
  <2>2. user' \in [state : {"Active", "LoggedOut", "Error"}, session : 0 .. MaxSession,
                   waiting : 0 .. MaxSession]
    BY <2>1 DEF registerSession, IInv, Types
  <2> QED
    BY <1>5, <1>6, <2>2 DEF IInv, Types
<1>8. SessionMutexOf(t)' /\ UserMutexOf(t)'
  BY <1>1, <1>2, <1>3, <1>5, <1>6 DEF SessionMutexOf, UserMutexOf, Holds
<1>9. Made(thread[t].s)' /\ (map' # 0 => Made(map)')
  BY <1>1, <1>3, <1>5, <1>6, SameSessions DEF IInv, InUse, Made
<1> QED
  BY <1>5, <1>6, <1>7, <1>8, <1>9, SameSessions, SameRefs, ThreadStep

LEMMA GiveKeeps ==
  ASSUME IInv, NEW t \in AllThreads, giveReference(t)
  PROVE  IInv'
<1>0. PICK s : s = thread[t].s
  OBVIOUS
<1>1. thread[t] \in ThreadRec /\ thread[t].pc = "registered" /\ Made(s) /\ userMutex # t
  BY <1>0, WhereThreadIs DEF giveReference, At
<1>2. sessionMutex = t /\ (thread[t].op = "get" => refs[s] < MaxRefs)
  BY <1>0, <1>1 DEF IInv, Mutexes, SessionMutexOf, Holds
<1>3. /\ thread' \in [AllThreads -> ThreadRec] /\ thread'[t] = Resting
      /\ \A u \in AllThreads : u # t => thread'[u] = thread[u]
  BY RestingRecord, NextThread DEF giveReference
<1>4. /\ UNCHANGED <<session, registered>> /\ unsent' = unsent /\ user' = user
      /\ asked' = asked /\ map' = map /\ sessionMutex' = Nobody /\ userMutex' = userMutex
  BY DEF giveReference, userVars
<1>5. refs \in [Sessions -> 0 .. MaxRefs] /\ s \in Sessions /\ MaxRefs \in Nat
  BY <1>1, SyncAssumption DEF IInv, Types, Made, SyncAssumption
<1>6. /\ refs' \in [Sessions -> 0 .. MaxRefs]
      /\ \A x \in Sessions : refs'[x] =< refs[x] \/ x = s
  <2>1. CASE thread[t].op = "get"
    BY <1>0, <1>2, <1>5, <2>1 DEF giveReference
  <2>2. CASE thread[t].op # "get"
    BY <1>5, <2>2 DEF giveReference
  <2> QED
    BY <2>1, <2>2
<1>7. Types'
  BY <1>3, <1>4, <1>6 DEF IInv, Types
<1>8. SessionMutexOf(t)' /\ UserMutexOf(t)'
  <2>1. t # Nobody
    BY SyncAssumption DEF SyncAssumption, AllThreads
  <2> QED
    BY <1>1, <1>3, <1>4, <2>1, RestingRecord DEF SessionMutexOf, UserMutexOf, Holds
<1>9. (map' # 0 => Made(map)') /\ Made(s)'
  BY <1>1, <1>4, SameSessions DEF IInv, InUse, Made
<1>10. \A x \in Sessions : refs'[x] =< refs[x] \/ (sessionMutex \in {Nobody, t} /\ Made(x)')
  BY <1>2, <1>6, <1>9
<1>11. thread'[t].pc = "idle"
  BY <1>3, RestingRecord
<1> QED
  BY <1>2, <1>3, <1>4, <1>7, <1>8, <1>9, <1>10, <1>11, SameSessions, ThreadStep

LEMMA DropKeeps ==
  ASSUME IInv, NEW t \in AllThreads, NEW s \in Sessions, dropReference(t, s)
  PROVE  IInv'
<1> DEFINE next == IF refs[s] > 1 \/ IsLookedAt(s) THEN Resting ELSE Start("dropped", "", s)
<1>1. /\ thread[t].pc = "idle" /\ sessionMutex # t /\ userMutex # t /\ Made(s)
  BY WhereThreadIs DEF dropReference, IsIdle, At, Holds, IInv, InUse
<1>2. next \in ThreadRec /\ (next.pc = "idle" \/ (next.pc = "dropped" /\ next.s = s))
  BY RestingRecord, SessionRange DEF Start, Resting, ThreadRec, Operations, Counters
<1>3. /\ thread' \in [AllThreads -> ThreadRec] /\ thread'[t] = next
      /\ \A u \in AllThreads : u # t => thread'[u] = thread[u]
  BY <1>2, NextThread DEF dropReference
<1>4. /\ UNCHANGED <<session, registered>> /\ unsent' = unsent /\ user' = user
      /\ asked' = asked /\ map' = map /\ sessionMutex' = sessionMutex /\ userMutex' = userMutex
      /\ refs[s] > 0 /\ refs' = [refs EXCEPT ![s] = @ - 1]
  BY DEF dropReference, managerVars, userVars
<1>5. refs' \in [Sessions -> 0 .. MaxRefs] /\ \A x \in Sessions : refs'[x] =< refs[x]
  <2>1. refs \in [Sessions -> 0 .. MaxRefs] /\ MaxRefs \in Nat
    BY SyncAssumption DEF IInv, Types, SyncAssumption
  <2>2. ASSUME NEW x \in Sessions PROVE refs'[x] \in 0 .. MaxRefs /\ refs'[x] =< refs[x]
    BY <1>4, <2>1
  <2> QED
    BY <1>4, <2>1, <2>2
<1>6. Types'
  BY <1>3, <1>4, <1>5 DEF IInv, Types
<1>7. SessionMutexOf(t)' /\ UserMutexOf(t)'
  BY <1>1, <1>2, <1>3, <1>4 DEF SessionMutexOf, UserMutexOf, Holds
<1>8. (map' # 0 => Made(map)') /\ (thread'[t].pc \notin {"idle", "loggedOut"} => Made(thread[t].s)')
  BY <1>1, <1>2, <1>3, <1>4, SameSessions DEF IInv, InUse, Made
<1> QED
  BY <1>3, <1>4, <1>5, <1>6, <1>7, <1>8, SameSessions, ThreadStep
LEMMA DidDropKeeps ==
  ASSUME IInv, NEW t \in AllThreads, didDropExternalReference(t)
  PROVE  IInv'
<1> DEFINE s == thread[t].s
           unregister == [Resting EXCEPT !.pc = "unregistering", !.s = s]
<1>1. thread[t].pc = "dropped" /\ Made(s) /\ s \in Sessions
  BY WhereThreadIs DEF didDropExternalReference, At, Made
<1>2. UNCHANGED <<unsent, refs, managerVars, userVars, asked>>
  BY DEF didDropExternalReference, InSession
<1>3. CASE thread' = [thread EXCEPT ![t] = Resting] /\ UNCHANGED <<session, registered>>
  BY <1>1, <1>2, <1>3, RestingRecord, MoveKeeps
<1>4. CASE thread' = [thread EXCEPT ![t] = unregister] /\ UNCHANGED <<session, registered>>
  <2>1. unregister \in ThreadRec /\ unregister.pc = "unregistering" /\ unregister.s = s
    BY <1>1, SessionRange DEF Resting, ThreadRec, Operations, Counters
  <2> QED
    BY <1>1, <1>2, <1>4, <2>1, MoveKeeps
<1>5. CASE becomeWith(registered, t, s, Closed(session[s]), Resting)
  BY <1>1, <1>2, <1>5, SessionFacts, IdleBecomeKeeps
<1> QED
  BY <1>3, <1>4, <1>5 DEF didDropExternalReference, close, become

LEMMA UnregisterKeeps ==
  ASSUME IInv, NEW t \in AllThreads, unregisterSession(t)
  PROVE  IInv'
<1>1. /\ thread[t] \in ThreadRec /\ thread[t].pc = "unregistering" /\ Made(thread[t].s)
      /\ UserMutexOf(t) /\ sessionMutex = Nobody
  BY WhereThreadIs DEF unregisterSession, At, IInv, Mutexes
<1>2. /\ UNCHANGED <<session, registered>> /\ unsent' = unsent /\ refs' = refs /\ user' = user
      /\ asked' = asked /\ userMutex' = userMutex
  BY DEF unregisterSession, userVars
<1>3. t # Nobody
  BY SyncAssumption DEF SyncAssumption, AllThreads
<1>4. PICK pc \in {"checked", "telling"} :
        /\ thread' = [thread EXCEPT ![t] = [thread[t] EXCEPT !.pc = pc]]
        /\ pc = "checked" => sessionMutex' = t /\ map' = map /\ map # 0
        /\ pc = "telling" => sessionMutex' = Nobody /\ map' = 0
  <2>1. CASE map # 0 /\ IsReferenced(map)
    <3>1. /\ thread' = [thread EXCEPT ![t] = [thread[t] EXCEPT !.pc = "checked"]]
          /\ sessionMutex' = t /\ map' = map
      BY <2>1 DEF unregisterSession, IInv, Types
    <3> QED
      BY <2>1, <3>1
  <2>2. CASE ~(map # 0 /\ IsReferenced(map))
    <3>1. /\ thread' = [thread EXCEPT ![t] = [thread[t] EXCEPT !.pc = "telling"]]
          /\ sessionMutex' = Nobody /\ map' = 0
      BY <1>1, <2>2 DEF unregisterSession, IInv, Types
    <3> QED
      BY <3>1
  <2> QED
    BY <2>1, <2>2
<1> DEFINE next == [thread[t] EXCEPT !.pc = pc]
<1>5. next \in ThreadRec /\ next.pc = pc /\ next.op = thread[t].op /\ next.s = thread[t].s
  BY <1>1, <1>4 DEF ThreadRec, Counters
<1>6. /\ thread' \in [AllThreads -> ThreadRec] /\ thread'[t] = next
      /\ \A u \in AllThreads : u # t => thread'[u] = thread[u]
  BY <1>4, <1>5, NextThread
<1>7. map' \in 0 .. MaxSession /\ (map' # 0 => Made(map)')
  <2>1. 0 \in 0 .. MaxSession
    BY SyncAssumption DEF SyncAssumption
  <2> QED
    BY <1>2, <1>4, <2>1, SameSessions DEF IInv, Types, InUse
<1>8. Types'
  BY <1>2, <1>6, <1>7 DEF IInv, Types
<1>9. SessionMutexOf(t)' /\ UserMutexOf(t)'
  BY <1>1, <1>2, <1>3, <1>4, <1>5, <1>6 DEF SessionMutexOf, UserMutexOf, Holds
<1>10. Made(thread[t].s)'
  BY <1>1, <1>2, <1>5, <1>6, SameSessions DEF Made
<1>11. sessionMutex' = Nobody \/ sessionMutex' = t
  BY <1>4
<1>12. sessionMutex' = sessionMutex \/ sessionMutex' = t
  BY <1>1, <1>11
<1> QED
  BY <1>1, <1>2, <1>6, <1>7, <1>8, <1>9, <1>10, <1>12, SameSessions, SameRefs, ThreadStep

LEMMA LogOutKeeps ==
  ASSUME IInv, NEW t \in AllThreads, logOut(t)
  PROVE  IInv'
<1> DEFINE next == IF user.session # 0 /\ IsAlive(user.session)
                   THEN Start("loggingOut", "logOut", user.session)
                   ELSE Start("loggedOut", "logOut", 0)
<1>1. /\ thread[t].pc = "idle" /\ sessionMutex # t /\ userMutex = Nobody
  BY WhereThreadIs DEF logOut, IsIdle, At, Holds
<1>2. /\ UNCHANGED <<session, registered>> /\ unsent' = unsent /\ refs' = refs
      /\ asked' = asked /\ map' = map /\ sessionMutex' = sessionMutex /\ userMutex' = t
  BY DEF logOut, managerVars
<1>3. user.session \in 0 .. MaxSession /\ 0 \in 0 .. MaxSession
      /\ (user.session # 0 => user.session \in Sessions)
  BY SyncAssumption DEF IInv, Types, SyncAssumption, Sessions
<1>4. /\ next \in ThreadRec /\ next.op = "logOut"
      /\ next.pc = "loggedOut" \/ (next.pc = "loggingOut" /\ Made(next.s))
  <2>1. CASE user.session # 0 /\ IsAlive(user.session)
    <3>1. Made(user.session)
      BY <1>3, <2>1, AliveIsMade
    <3> QED
      BY <1>3, <2>1, <3>1 DEF Start, Resting, ThreadRec, Operations, Counters
  <2>2. CASE ~(user.session # 0 /\ IsAlive(user.session))
    BY <1>3, <2>2 DEF Start, Resting, ThreadRec, Operations, Counters
  <2> QED
    BY <2>1, <2>2
<1>5. /\ thread' \in [AllThreads -> ThreadRec] /\ thread'[t] = next
      /\ \A u \in AllThreads : u # t => thread'[u] = thread[u]
  BY <1>4, NextThread DEF logOut
<1>6. Types'
  <2>1. user' \in [state : {"Active", "LoggedOut", "Error"}, session : 0 .. MaxSession,
                   waiting : 0 .. MaxSession]
    BY DEF logOut, IInv, Types
  <2> QED
    BY <1>2, <1>5, <2>1 DEF IInv, Types
<1>7. SessionMutexOf(t)' /\ UserMutexOf(t)'
  BY <1>1, <1>2, <1>4, <1>5 DEF SessionMutexOf, UserMutexOf, Holds
<1>8. (map' # 0 => Made(map)') /\ (thread'[t].pc \notin {"idle", "loggedOut"} => Made(thread[t].s)')
  BY <1>2, <1>4, <1>5, SameSessions DEF IInv, InUse, Made
<1> QED
  BY <1>1, <1>2, <1>5, <1>6, <1>7, <1>8, SameSessions, SameRefs, ThreadStep

LEMMA PutInWaitingKeeps ==
  ASSUME IInv, NEW t \in AllThreads, putInWaiting(t)
  PROVE  IInv'
<1>1. thread[t] \in ThreadRec /\ thread[t].pc = "loggedOut" /\ sessionMutex # t
  BY WhereThreadIs DEF putInWaiting, At, Holds
<1>2. /\ UNCHANGED <<session, registered>> /\ unsent' = unsent /\ refs' = refs
      /\ asked' = asked /\ map' = map /\ sessionMutex' = sessionMutex /\ userMutex' = Nobody
  BY DEF putInWaiting, managerVars
<1>3. /\ thread' \in [AllThreads -> ThreadRec] /\ thread'[t] = Resting
      /\ \A u \in AllThreads : u # t => thread'[u] = thread[u]
  BY RestingRecord, NextThread DEF putInWaiting
<1>4. Types'
  <2>1. thread[t].s \in 0 .. MaxSession /\ 0 \in 0 .. MaxSession
    BY <1>1, SyncAssumption DEF ThreadRec, SyncAssumption
  <2>2. user' \in [state : {"Active", "LoggedOut", "Error"}, session : 0 .. MaxSession,
                   waiting : 0 .. MaxSession]
    BY <2>1 DEF putInWaiting, IInv, Types
  <2> QED
    BY <1>2, <1>3, <2>2 DEF IInv, Types
<1>5. t # Nobody
  BY SyncAssumption DEF SyncAssumption, AllThreads
<1>6. SessionMutexOf(t)' /\ UserMutexOf(t)' /\ thread'[t].pc = "idle"
  BY <1>1, <1>2, <1>3, <1>5, RestingRecord DEF SessionMutexOf, UserMutexOf, Holds
<1>7. map' # 0 => Made(map)'
  BY <1>2, SameSessions DEF IInv, InUse, Made
<1> QED
  BY <1>2, <1>3, <1>4, <1>6, <1>7, SameSessions, SameRefs, ThreadStep
LEMMA LeaveKeeps ==
  ASSUME IInv, NEW t \in AllThreads, leaveRegistered(t)
  PROVE  IInv'
<1> DEFINE next == [thread[t] EXCEPT !.pc = "telling"]
           unregister == [next EXCEPT !.pc = "unregistering", !.s = map]
<1>1. /\ thread[t] \in ThreadRec /\ thread[t].pc = "checked" /\ Made(thread[t].s)
      /\ UserMutexOf(t) /\ SessionMutexOf(t)
  BY WhereThreadIs DEF leaveRegistered, At, IInv, Mutexes
<1>2. sessionMutex = t /\ map # 0 /\ Made(map) /\ map \in Sessions
  BY <1>1 DEF SessionMutexOf, Holds, IInv, InUse, Made
<1>3. /\ unsent' = unsent /\ refs' = refs /\ user' = user /\ asked' = asked
      /\ userMutex' = userMutex /\ map' = map
      /\ sessionMutex' = IF thread'[t].pc = "telling" THEN Nobody ELSE t
  BY DEF leaveRegistered, userVars
<1>4. next \in ThreadRec /\ next.pc = "telling" /\ next.op = thread[t].op /\ next.s = thread[t].s
  BY <1>1 DEF ThreadRec, Counters
<1>5. /\ thread' \in [AllThreads -> ThreadRec]
      /\ \A u \in AllThreads : u # t => thread'[u] = thread[u]
      /\ thread'[t].op = thread[t].op
      /\ \/ thread'[t].pc = "telling" /\ thread'[t].s = thread[t].s
         \/ thread'[t].pc = "unregistering" /\ thread'[t].s = map
      /\ session' \in [Sessions -> SessionRec] /\ registered' \in SUBSET HandlerRec
      /\ Connected' /\ DeathsAhead'
      /\ \A x \in Sessions : session[x].state # "none" => session'[x].state # "none"
      /\ \A h \in registered' : h.s = map \/ \E g \in registered : g.s = h.s
  <2>1. CASE UNCHANGED <<session, registered>>
    <3>1. \/ thread' = [thread EXCEPT ![t] = next]
          \/ thread' = [thread EXCEPT ![t] = unregister]
          \/ becomeWith(registered, t, map, Closed(session[map]), next)
      BY DEF leaveRegistered, close, become
    <3>2. /\ session' \in [Sessions -> SessionRec] /\ registered' \in SUBSET HandlerRec
          /\ Connected' /\ DeathsAhead'
          /\ \A x \in Sessions : session[x].state # "none" => session'[x].state # "none"
          /\ \A h \in registered' : \E g \in registered : g.s = h.s
      BY <2>1, SameSessions DEF IInv, Types
    <3>3. CASE thread' = [thread EXCEPT ![t] = next]
      BY <1>4, <3>2, <3>3, NextThread
    <3>4. CASE thread' = [thread EXCEPT ![t] = unregister]
      <4>1. /\ unregister \in ThreadRec /\ unregister.pc = "unregistering"
            /\ unregister.op = thread[t].op /\ unregister.s = map
        BY <1>1, <1>2, SessionRange DEF ThreadRec, Counters
      <4> QED
        BY <3>2, <3>4, <4>1, NextThread
    <3>5. CASE becomeWith(registered, t, map, Closed(session[map]), next)
      <4>1. Became(t, map, Closed(session[map]), next)
        BY <1>2, <1>4, <3>5, SessionFacts, Become
      <4> QED
        BY <1>4, <4>1 DEF Became
    <3> QED
      BY <3>1, <3>3, <3>4, <3>5
  <2>2. CASE ~UNCHANGED <<session, registered>>
    <3>1. becomeWith(registered, t, map, Closed(session[map]), next)
      BY <2>2 DEF leaveRegistered, close, become
    <3>2. Became(t, map, Closed(session[map]), next)
      BY <1>2, <1>4, <3>1, SessionFacts, Become
    <3> QED
      BY <1>4, <3>2 DEF Became
  <2> QED
    BY <2>1, <2>2
<1>6. Types'
  BY <1>3, <1>5 DEF IInv, Types
<1>7. \A s : Made(s) => Made(s)'
  BY <1>5 DEF Made
<1>8. (map' # 0 => Made(map)') /\ \A h \in registered' : Made(h.s)'
  BY <1>2, <1>3, <1>5, <1>7 DEF IInv, InUse
<1>9. Made(thread[t].s)'
  BY <1>1, <1>2, <1>5, <1>7 DEF Made
<1>10. t # Nobody
  BY SyncAssumption DEF SyncAssumption, AllThreads
<1>11. SessionMutexOf(t)' /\ UserMutexOf(t)'
  BY <1>1, <1>3, <1>5, <1>10 DEF SessionMutexOf, UserMutexOf, Holds
<1> QED
  BY <1>2, <1>3, <1>5, <1>6, <1>8, <1>9, <1>11, SameRefs, ThreadStep

LEMMA LogInKeeps ==
  ASSUME IInv, NEW t \in AllThreads, logIn(t)
  PROVE  IInv'
<1> DEFINE w == user.waiting
           there == w # 0 /\ IsAlive(w)
           next == IF there THEN Start("reviving", "", w) ELSE Resting
<1>1. /\ thread[t].pc = "idle" /\ sessionMutex # t /\ userMutex # t
  BY WhereThreadIs DEF logIn, IsIdle, At, Holds
<1>2. /\ UNCHANGED <<session, registered>> /\ unsent' = unsent /\ refs' = refs
      /\ asked' = asked /\ map' = map /\ sessionMutex' = sessionMutex /\ userMutex' = userMutex
  BY DEF logIn, managerVars
<1>3. w \in 0 .. MaxSession /\ user.session \in 0 .. MaxSession /\ 0 \in 0 .. MaxSession
      /\ (w # 0 => w \in Sessions)
  BY SyncAssumption DEF IInv, Types, SyncAssumption, Sessions
<1>4. next \in ThreadRec
      /\ (next.pc = "idle" \/ (next.pc = "reviving" /\ next.op = "" /\ Made(next.s)))
  <2>1. CASE there
    <3>1. Made(w)
      BY <1>3, <2>1, AliveIsMade
    <3> QED
      BY <1>3, <2>1, <3>1 DEF Start, Resting, ThreadRec, Operations, Counters
  <2>2. CASE ~there
    BY <2>2, RestingRecord
  <2> QED
    BY <2>1, <2>2
<1>5. /\ thread' \in [AllThreads -> ThreadRec] /\ thread'[t] = next
      /\ \A u \in AllThreads : u # t => thread'[u] = thread[u]
  BY <1>4, NextThread DEF logIn
<1>6. Types'
  <2>1. user' \in [state : {"Active", "LoggedOut", "Error"}, session : 0 .. MaxSession,
                   waiting : 0 .. MaxSession]
    BY <1>3 DEF logIn
  <2> QED
    BY <1>2, <1>5, <2>1 DEF IInv, Types
<1>7. SessionMutexOf(t)' /\ UserMutexOf(t)'
  BY <1>1, <1>2, <1>4, <1>5 DEF SessionMutexOf, UserMutexOf, Holds
<1>8. (map' # 0 => Made(map)') /\ (thread'[t].pc \notin {"idle", "loggedOut"} => Made(thread[t].s)')
  BY <1>2, <1>4, <1>5, SameSessions DEF IInv, InUse, Made
<1> QED
  BY <1>2, <1>5, <1>6, <1>7, <1>8, SameSessions, SameRefs, ThreadStep

LEMMA InvalidateKeeps == ASSUME IInv, invalidateUser PROVE IInv'
<1>1. Loop \in AllThreads /\ thread[Loop].pc = "invalidating"
  BY DEF invalidateUser, At, AllThreads
<1>2. sessionMutex # Loop /\ userMutex # Loop
  BY <1>1, WhereThreadIs DEF Holds
<1>3. /\ UNCHANGED <<session, registered>> /\ unsent' = unsent /\ refs' = refs
      /\ asked' = asked /\ map' = map /\ sessionMutex' = sessionMutex /\ userMutex' = userMutex
  BY DEF invalidateUser, managerVars
<1>4. /\ thread' \in [AllThreads -> ThreadRec] /\ thread'[Loop] = Resting
      /\ \A u \in AllThreads : u # Loop => thread'[u] = thread[u]
  BY <1>1, RestingRecord, NextThread DEF invalidateUser
<1>5. Types'
  <2>1. user' \in [state : {"Active", "LoggedOut", "Error"}, session : 0 .. MaxSession,
                   waiting : 0 .. MaxSession]
    BY DEF invalidateUser, IInv, Types
  <2> QED
    BY <1>3, <1>4, <2>1 DEF IInv, Types
<1>6. SessionMutexOf(Loop)' /\ UserMutexOf(Loop)' /\ thread'[Loop].pc = "idle"
  BY <1>2, <1>3, <1>4, RestingRecord DEF SessionMutexOf, UserMutexOf, Holds
<1>7. map' # 0 => Made(map)'
  BY <1>3, SameSessions DEF IInv, InUse, Made
<1> QED
  BY <1>1, <1>3, <1>4, <1>5, <1>6, <1>7, SameSessions, SameRefs, ThreadStep
(* get_session with a session of the registry, or with a new one.           *)
LEMMA GetKeeps ==
  ASSUME IInv, NEW t \in AllThreads, NEW p \in Policies, NEW resync \in BOOLEAN,
         getSession(t, p, resync)
  PROVE  IInv'
<1>1. /\ thread[t].pc = "idle" /\ userMutex # t /\ sessionMutex = Nobody /\ sessionMutex' = t
  BY WhereThreadIs DEF getSession, IsIdle, At
<1>2. /\ unsent' = unsent /\ asked' = asked /\ registered' = registered
      /\ user' = user /\ userMutex' = userMutex
  BY DEF getSession, userVars
<1>3. /\ session \in [Sessions -> SessionRec] /\ refs \in [Sessions -> 0 .. MaxRefs]
      /\ MaxRefs \in Nat \ {0}
  BY SyncAssumption DEF IInv, Types, SyncAssumption
<1>4. CASE /\ map # 0 /\ refs[map] < MaxRefs
           /\ thread' = [thread EXCEPT ![t] = Start("registering", "get", map)]
           /\ UNCHANGED <<session, refs, map>>
  <2> DEFINE next == Start("registering", "get", map)
  <2>1. Made(map) /\ map \in Sessions
    BY <1>4 DEF IInv, InUse, Made
  <2>2. next \in ThreadRec /\ next.pc = "registering" /\ next.op = "get" /\ next.s = map
    BY <2>1, SessionRange DEF Start, Resting, ThreadRec, Operations, Counters
  <2>3. /\ thread' \in [AllThreads -> ThreadRec] /\ thread'[t] = next
        /\ \A u \in AllThreads : u # t => thread'[u] = thread[u]
    BY <1>4, <2>2, NextThread
  <2>4. Types'
    BY <1>2, <1>4, <2>3 DEF IInv, Types
  <2>5. SessionMutexOf(t)' /\ UserMutexOf(t)'
    BY <1>1, <1>2, <1>4, <2>2, <2>3 DEF SessionMutexOf, UserMutexOf, Holds
  <2>6. (map' # 0 => Made(map)') /\ Made(thread[t].s)'
    BY <1>2, <1>4, <2>1, <2>2, <2>3 DEF Made
  <2>7. UNCHANGED <<session, registered>> /\ refs' = refs /\ map' = map
    BY <1>2, <1>4
  <2> QED
    BY <1>1, <1>2, <2>3, <2>4, <2>5, <2>6, <2>7, SameSessions, SameRefs, ThreadStep
<1>5. ASSUME NEW s \in Sessions, map = 0,
             session' = [session EXCEPT ![s] =
               [NoSession EXCEPT !.state = "inactive", !.policy = p, !.resync = resync]],
             refs' = [refs EXCEPT ![s] = 1],
             map' = s,
             thread' = [thread EXCEPT ![t] = Start("registering", "create", s)]
      PROVE  IInv'
  <2> DEFINE next == Start("registering", "create", s)
             new == [NoSession EXCEPT !.state = "inactive", !.policy = p, !.resync = resync]
  <2>1. next \in ThreadRec /\ next.pc = "registering" /\ next.op = "create" /\ next.s = s
    BY SessionRange DEF Start, Resting, ThreadRec, Operations, Counters
  <2>2. /\ thread' \in [AllThreads -> ThreadRec] /\ thread'[t] = next
        /\ \A u \in AllThreads : u # t => thread'[u] = thread[u]
    BY <1>5, <2>1, NextThread
  <2>3. new \in SessionRec /\ new.state = "inactive"
    BY DEF NoSession, SessionRec
  <2>4. /\ session' \in [Sessions -> SessionRec] /\ session'[s].state = "inactive"
        /\ \A x \in Sessions : x # s => session'[x] = session[x]
    BY <1>3, <1>5, <2>3
  <2>5. refs' \in [Sessions -> 0 .. MaxRefs] /\ \A x \in Sessions : x # s => refs'[x] = refs[x]
    BY <1>3, <1>5
  <2>6. \A x : Made(x) => Made(x)'
    BY <2>4 DEF Made
  <2>7. /\ Connected' /\ DeathsAhead' /\ Made(s)' /\ \A h \in registered' : Made(h.s)'
        /\ \A x \in Sessions : session[x].state # "none" => session'[x].state # "none"
    <3>1. Connected'
      BY <2>4 DEF IInv, Connected
    <3>2. DeathsAhead'
      BY <1>2, <2>4 DEF IInv, DeathsAhead, InUse, Made
    <3> QED
      BY <1>2, <2>4, <2>6, <3>1, <3>2 DEF IInv, InUse, Made
  <2>8. Types'
    BY <1>2, <1>5, <2>2, <2>4, <2>5, SessionRange DEF IInv, Types
  <2>9. SessionMutexOf(t)' /\ UserMutexOf(t)'
    BY <1>1, <1>2, <2>1, <2>2 DEF SessionMutexOf, UserMutexOf, Holds
  <2>10. Made(map)' /\ Made(thread[t].s)'
    BY <1>5, <2>1, <2>2, <2>7 DEF Made
  <2>11. \A x \in Sessions :
           refs'[x] =< refs[x] \/ (sessionMutex \in {Nobody, t} /\ Made(x)')
    <3> SUFFICES ASSUME NEW x \in Sessions, x # s PROVE refs'[x] =< refs[x]
      BY <1>1, <2>7
    <3>1. refs[x] \in Nat
      BY <1>3
    <3> QED
      BY <2>5, <3>1
  <2> QED
    BY <1>1, <1>2, <2>2, <2>7, <2>8, <2>9, <2>10, <2>11, ThreadStep
<1> QED
  BY <1>4, <1>5 DEF getSession

(* Commits and uploads: no thread goes anywhere.                            *)
LEMMA QuietStep ==
  ASSUME IInv, UNCHANGED <<refs, asked, managerVars, userVars, thread>>,
         Types', Connected', DeathsAhead',
         \A s \in Sessions : session[s].state # "none" => session'[s].state # "none",
         \A h \in registered' : \E g \in registered : g.s = h.s
  PROVE  IInv'
<1>1. /\ Loop \in AllThreads /\ refs' = refs /\ asked' = asked /\ map' = map
      /\ sessionMutex' = sessionMutex /\ userMutex' = userMutex /\ thread' = thread
  BY DEF AllThreads, managerVars, userVars
<1>2. \A s : Made(s) => Made(s)'
  BY DEF Made
<1>3. (map' # 0 => Made(map)') /\ \A h \in registered' : Made(h.s)'
  BY <1>1, <1>2 DEF IInv, InUse
<1>4. thread'[Loop].pc \notin {"idle", "loggedOut"} => Made(thread[Loop].s)'
  BY <1>1, <1>2 DEF IInv, InUse, Made
<1>5. SessionMutexOf(Loop)' /\ UserMutexOf(Loop)'
  BY <1>1 DEF IInv, Mutexes, SessionMutexOf, UserMutexOf, Holds
<1> QED
  BY <1>1, <1>3, <1>4, <1>5, SameRefs, ThreadStep

LEMMA CommitKeeps ==
  ASSUME IInv, NEW t \in AllThreads, commit(t)
  PROVE  IInv'
<1>1. /\ UNCHANGED <<refs, asked, managerVars, userVars, thread>>
      /\ UNCHANGED <<session, registered>> /\ unsent' = TRUE
  BY DEF commit
<1>2. Types'
  BY <1>1 DEF IInv, Types, managerVars, userVars
<1> QED
  BY <1>1, <1>2, SameSessions, QuietStep

LEMMA UploadKeeps == ASSUME IInv, upload PROVE IInv'
<1>1. /\ UNCHANGED <<refs, asked, managerVars, userVars, thread>> /\ unsent' = FALSE
  BY DEF upload
<1>2. session \in [Sessions -> SessionRec] /\ registered \in SUBSET HandlerRec
  BY DEF IInv, Types
<1>3. /\ session' \in [Sessions -> SessionRec]
      /\ \A s \in Sessions : /\ session'[s].state = session[s].state
                             /\ session'[s].under = session[s].under
                             /\ ~session'[s].owes
  <2>1. session' = [s \in Sessions |-> [session[s] EXCEPT !.owes = FALSE]]
    BY DEF upload
  <2>2. ASSUME NEW f \in SessionRec
        PROVE  /\ [f EXCEPT !.owes = FALSE] \in SessionRec
               /\ [f EXCEPT !.owes = FALSE].state = f.state
               /\ [f EXCEPT !.owes = FALSE].under = f.under
               /\ [f EXCEPT !.owes = FALSE].owes = FALSE
    BY DEF SessionRec
  <2>3. ASSUME NEW s \in Sessions
        PROVE  /\ session'[s] \in SessionRec
               /\ session'[s].state = session[s].state
               /\ session'[s].under = session[s].under
               /\ ~session'[s].owes
    <3>1. session'[s] = [session[s] EXCEPT !.owes = FALSE] /\ session[s] \in SessionRec
      BY <1>2, <2>1
    <3> QED
      BY <2>2, <3>1
  <2> QED
    BY <2>1, <2>3
<1>4. \A h \in registered' : h \in HandlerRec /\ \E g \in registered : g.s = h.s
  <2> SUFFICES ASSUME NEW h \in registered'
               PROVE  h \in HandlerRec /\ \E g \in registered : g.s = h.s
    OBVIOUS
  <2>1. PICK g \in registered : h = IF g.due = "not yet" THEN [g EXCEPT !.due = "yes"] ELSE g
    BY DEF upload
  <2> QED
    BY <1>2, <2>1 DEF HandlerRec
<1>5. Types'
  BY <1>1, <1>3, <1>4 DEF IInv, Types, managerVars, userVars
<1>6. Connected' /\ DeathsAhead'
  BY <1>3, <1>4 DEF IInv, Connected, DeathsAhead, HandlerRec
<1>7. \A s \in Sessions : session[s].state # "none" => session'[s].state # "none"
  BY <1>3
<1> QED
  BY <1>1, <1>4, <1>5, <1>6, <1>7, QuietStep
------------------------------------------------------------------------------
LEMMA InitEstablishes == Init => IInv
<1> SUFFICES ASSUME Init PROVE IInv
  OBVIOUS
<1>1. 0 \in 0 .. MaxSession /\ 0 \in 0 .. MaxRefs
  BY SyncAssumption DEF SyncAssumption
<1>2. NoSession \in SessionRec /\ NoSession.state = "none"
  BY DEF NoSession, SessionRec
<1>3. /\ session = [s \in Sessions |-> NoSession] /\ refs = [s \in Sessions |-> 0]
      /\ thread = [t \in AllThreads |-> Resting] /\ registered = {} /\ asked = {} /\ map = 0
      /\ unsent = FALSE /\ sessionMutex = Nobody /\ userMutex = Nobody
      /\ user = [state |-> "Active", session |-> 0, waiting |-> 0]
  BY DEF Init
<1>4. Types
  BY <1>1, <1>2, <1>3, RestingRecord DEF Types
<1>5. Connected /\ DeathsAhead
  BY <1>2, <1>3 DEF Connected, DeathsAhead
<1>6. InUse
  BY <1>3, RestingRecord DEF InUse
<1>7. Mutexes
  <2> SUFFICES ASSUME NEW t \in AllThreads PROVE SessionMutexOf(t) /\ UserMutexOf(t)
    BY DEF Mutexes
  <2>1. t # Nobody /\ thread[t].pc = "idle"
    BY <1>3, RestingRecord, SyncAssumption DEF SyncAssumption, AllThreads
  <2> QED
    BY <1>3, <2>1 DEF SessionMutexOf, UserMutexOf, Holds
<1> QED
  BY <1>4, <1>5, <1>6, <1>7 DEF IInv

LEMMA StutterKeeps == IInv /\ UNCHANGED vars => IInv'
<1> SUFFICES ASSUME IInv, UNCHANGED vars PROVE IInv'
  OBVIOUS
<1>1. /\ UNCHANGED <<refs, asked, managerVars, userVars, thread>>
      /\ UNCHANGED <<session, registered>> /\ unsent' = unsent
  BY DEF vars
<1>2. Types'
  BY <1>1 DEF IInv, Types, managerVars, userVars
<1> QED
  BY <1>1, <1>2, SameSessions, QuietStep

(* Every step of the app, of the event loop and of whoever calls into a     *)
(* session keeps the invariant.                                             *)
LEMMA NextKeeps == IInv /\ [Next]_vars => IInv'
<1> SUFFICES ASSUME IInv, [Next]_vars PROVE IInv'
  OBVIOUS
<1>1. ASSUME NEW t \in Threads, appStep(t) PROVE IInv'
  <2>1. t \in AllThreads
    BY DEF AllThreads
  <2>2. CASE \E p \in Policies, resync \in BOOLEAN :
               getSession(t, p, resync) \/ configure(t, p, resync)
    BY <2>1, <2>2, GetKeeps, ConfigureKeeps
  <2>3. CASE \/ registerSession(t) \/ giveReference(t) \/ didDropExternalReference(t)
             \/ logOut(t) \/ logOutSession(t) \/ putInWaiting(t) \/ logIn(t)
             \/ reconnect(t) \/ commit(t)
    BY <2>1, <2>3, RegisterKeeps, GiveKeeps, DidDropKeeps, LogOutKeeps, LogOutSessionKeeps,
       PutInWaitingKeeps, LogInKeeps, ReconnectKeeps, CommitKeeps
  <2>4. ASSUME NEW s \in Sessions,
               \/ dropReference(t, s) \/ suspend(t, s) \/ resume(t, s)
               \/ updateConfiguration(t, s) \/ refreshAccessToken(t, s) \/ tokenFails(t, s)
               \/ \E w \in Waiters : waitForCompletion(t, w, s)
        PROVE  IInv'
    BY <2>1, <2>4, DropKeeps, SuspendKeeps, ResumeKeeps, RefreshKeeps, TokenFailsKeeps, WaitKeeps
  <2> QED
    BY <1>1, <2>2, <2>3, <2>4 DEF appStep
<1>2. ASSUME NEW t \in AllThreads, anyStep(t) PROVE IInv'
  BY <1>2, RevivingKeeps, UnregisterKeeps, LeaveKeeps, TellKeeps DEF anyStep
<1>3. ASSUME loopStep PROVE IInv'
  <2>1. CASE \/ upload \/ errorWhileDying \/ handleError \/ endSession \/ resyncSession
             \/ putBackWaits \/ invalidateUser
    BY <2>1, UploadKeeps, DyingErrorKeeps, HandleErrorKeeps, EndSessionKeeps, ResyncKeeps,
       PutBackKeeps, InvalidateKeeps
  <2>2. CASE \E s \in Sessions, error \in Errors : hearError(s, error)
    BY <2>2, HearErrorKeeps
  <2>3. CASE \E h \in registered : waitCompletes(h) \/ deathCompletes(h)
    BY <2>3, WaitCompletesKeeps, DeathKeeps
  <2> QED
    BY <1>3, <2>1, <2>2, <2>3 DEF loopStep
<1> QED
  BY <1>1, <1>2, <1>3, StutterKeeps DEF Next

LEMMA InductiveInvariant == Spec => []IInv
<1> QED
  BY InitEstablishes, NextKeeps, PTL DEF Spec
------------------------------------------------------------------------------
(* The types are kept, and SyncManager::m_session_mutex and SyncUser::      *)
(* m_mutex are held only by threads between taking and releasing them.      *)
THEOREM TypeCorrect == Spec => []TypeOK
<1> QED
  BY InductiveInvariant, IInvImplies, PTL

(* A session that dies after its uploads owes nothing of what was committed *)
(* before it began to die, however often it was revived in between: the     *)
(* handler of an earlier death, told apart by m_death_count, cannot end it. *)
THEOREM DeathsAreUploaded == Spec => UploadedWhenDead
<1>1. IInv => \A h \in registered : deathCompletes(h) /\ IsAlive(h.s) =>
                ~(session[h.s].state = "dying" /\ session[h.s].owes)
  BY DEF IInv, DeathsAhead, deathCompletes, isDue
<1> QED
  BY <1>1, InductiveInvariant, PTL DEF UploadedWhenDead
===============================================================================
