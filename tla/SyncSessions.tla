---------------------------- MODULE SyncSessions ----------------------------
(***************************************************************************)
(* The sync sessions of the Realm object store: SyncManager, one SyncUser   *)
(* and the SyncSession objects of one Realm file, used by the threads of    *)
(* the app and by the event loop of the sync client.  What a thread does    *)
(* with the state mutex of a session held is one step; the mutexes of the   *)
(* manager and of the user, which are held across calls, are variables.     *)
(* Waits for uploads and for downloads are alike: there is one kind.        *)
(***************************************************************************)
EXTENDS Integers, FiniteSets

CONSTANTS Threads,      \* threads of the app
          Loop,         \* the thread of the event loop
          MaxSession,   \* bound: SyncSession objects ever made
          Waiters,      \* completion callbacks
          Policies,     \* stop policies in use
          Errors,       \* kinds of errors the server sends
          MaxRefs       \* bound: references the app holds to a session

Nobody == "nobody"

ASSUME SyncAssumption ==
  /\ Loop \notin Threads /\ Nobody \notin Threads \cup {Loop}
  /\ MaxSession \in Nat \ {0} /\ MaxRefs \in Nat \ {0}
  /\ Policies \subseteq {"Immediately", "LiveIndefinitely", "AfterChangesUploaded"}
  /\ Errors \subseteq {"expired", "badAuth", "denied", "reset", "fatal"}

AllThreads == Threads \cup {Loop}
Sessions == 1 .. MaxSession

VARIABLES
  unsent,        \* there are commits the server has not
  session,       \* the fields of each SyncSession
  refs,          \* the references the app holds to each
  asked,         \* sessions whose binding fetches an access token
  registered,    \* completion handlers the event loop is to call
  map,           \* SyncManager::m_sessions at the path, 0 when none
  sessionMutex,  \* who holds SyncManager::m_session_mutex
  user,          \* the fields of the SyncUser
  userMutex,     \* who holds SyncUser::m_mutex
  thread,        \* where each thread is
  waiter,        \* what became of each completion callback
  aborted        \* where an assertion failed, "" while none has

managerVars == <<map, sessionMutex>>
userVars == <<user, userMutex>>
vars == <<unsent, session, refs, asked, registered, managerVars, userVars,
          thread, waiter, aborted>>

(* under: m_session is not null.  owes is for a property: commits that were *)
(* unsent when the session began to die still are.                          *)
NoSession == [state |-> "none", policy |-> "", resync |-> FALSE, under |-> FALSE,
              deferredClose |-> FALSE, waits |-> {}, owes |-> FALSE]
Resting == [pc |-> "idle", op |-> "", s |-> 0, calls |-> {}, saved |-> {}]

Init ==
  /\ unsent = FALSE
  /\ session = [s \in Sessions |-> NoSession]
  /\ refs = [s \in Sessions |-> 0] /\ asked = {} /\ registered = {}
  /\ map = 0 /\ sessionMutex = Nobody
  /\ user = [state |-> "Active", session |-> 0, waiting |-> 0] /\ userMutex = Nobody
  /\ thread = [t \in AllThreads |-> Resting]
  /\ waiter = [w \in Waiters |-> "new"]
  /\ aborted = ""
------------------------------------------------------------------------------
At(t, pc) == thread[t].pc = pc /\ aborted = ""
IsIdle(t) == At(t, "idle")

(* A shared pointer to s: of the manager, of an external reference, of the  *)
(* binding that fetches a token, or of a thread that uses s.                *)
IsAlive(s) ==
  /\ session[s].state # "none"
  /\ \/ map = s \/ refs[s] > 0 \/ s \in asked
     \/ \E t \in AllThreads : thread[t].pc # "idle" /\ thread[t].s = s

(* m_external_reference is not expired; unregister_session holds one for a  *)
(* while.                                                                   *)
IsLookedAt(s) == map = s /\ \E t \in AllThreads : thread[t].pc = "checked"
IsReferenced(s) == refs[s] > 0 \/ IsLookedAt(s)

(* A handler is due once the commits of when it was registered are sent, or *)
(* when the sync::Session it was registered with is destroyed.              *)
Handler(kind, s) == [kind |-> kind, s |-> s, due |-> IF unsent THEN "not yet" ELSE "yes"]

(* A mutant: the counters do not tell the handlers of before apart.         *)
neverOutdated(kind, s) == {}

(* m_death_count or m_client_resync_counter goes up: handlers registered    *)
(* before will do nothing, and are left out.                                *)
Outdated(kind, s) == {h \in registered : h.kind = kind /\ h.s = s}

(* advance_state and enter_state: session s becomes f, and t goes on as     *)
(* next; H are the handlers that count.  Pending waits are registered on the*)
(* way to active, the end of the uploads on the way to dying; an inactive   *)
(* session has destroyed its sync::Session and is to be unregistered.       *)
becomeWith(H, t, s, f, next) ==
  LET old == session[s]
      activated == f.state # old.state /\ f.state \in {"active", "dying"}
                     /\ (f.state = "active" \/ old.state = "waiting")
      toDie == f.state = "dying" /\ old.state # "dying"
      ended == f.state = "inactive" /\ old.state # "inactive"
  IN /\ session' = [session EXCEPT ![s] = IF toDie THEN [f EXCEPT !.owes = unsent] ELSE f]
     /\ registered' =
          IF ended THEN {IF h.s = s THEN [h EXCEPT !.due = "cancelled"] ELSE h : h \in H}
          ELSE (IF toDie THEN (H \ Outdated("death", s)) \cup {Handler("death", s)} ELSE H)
                 \cup (IF activated /\ f.waits # {} THEN {Handler("wait", s)} ELSE {})
     /\ thread' = [thread EXCEPT ![t] =
          IF ended THEN [next EXCEPT !.pc = "unregistering", !.s = s,
                                     !.calls = @ \cup (old.waits \ next.saved)]
          ELSE next]

become(t, s, f, next) == becomeWith(registered, t, s, f, next)

(* A mutant: the pending waits are told of, not taken out.                  *)
copiesWaits(f) == [f EXCEPT !.state = "inactive", !.under = FALSE]

Inactive(f) == [f EXCEPT !.state = "inactive", !.waits = {}, !.under = FALSE]

(* State::close, but for an inactive session's.                             *)
Closed(f) ==
  IF f.state \in {"waiting", "active"} /\ f.policy = "Immediately" THEN Inactive(f)
  ELSE IF f.state = "waiting" THEN [f EXCEPT !.deferredClose = TRUE]
  ELSE IF f.state = "active" /\ f.policy = "AfterChangesUploaded"
  THEN [f EXCEPT !.state = "dying"]
  ELSE f

(* State::revive_if_needed.                                                 *)
Revived(f) ==
  IF f.state = "inactive" THEN [f EXCEPT !.state = "waiting", !.deferredClose = FALSE]
  ELSE IF f.state = "waiting" THEN [f EXCEPT !.deferredClose = FALSE]
  ELSE [f EXCEPT !.state = "active"]

(* close(): an inactive session is only unregistered.                       *)
close(t, s, next) ==
  IF session[s].state = "inactive"
  THEN /\ thread' = [thread EXCEPT ![t] = [next EXCEPT !.pc = "unregistering", !.s = s]]
       /\ UNCHANGED <<session, registered>>
  ELSE become(t, s, Closed(session[s]), next)

InSession == <<unsent, refs, managerVars, userVars, waiter, aborted>>
------------------------------------------------------------------------------
Start(pc, op, s) == [Resting EXCEPT !.pc = pc, !.op = op, !.s = s]

(* get_session: a session is created unless there is one at the path.  The  *)
(* session mutex is held to the end.                                        *)
getSession(t, policy, resync) ==
  LET s == Cardinality({i \in Sessions : session[i].state # "none"}) + 1
  IN /\ IsIdle(t) /\ sessionMutex = Nobody
     /\ sessionMutex' = t
     /\ \/ /\ map # 0 /\ refs[map] < MaxRefs
           /\ thread' = [thread EXCEPT ![t] = Start("registering", "get", map)]
           /\ UNCHANGED <<session, refs, map>>
        \/ /\ map = 0 /\ s \in Sessions
           /\ session' = [session EXCEPT ![s] =
                [NoSession EXCEPT !.state = "inactive", !.policy = policy, !.resync = resync]]
           /\ refs' = [refs EXCEPT ![s] = 1]
           /\ map' = s
           /\ thread' = [thread EXCEPT ![t] = Start("registering", "create", s)]
     /\ UNCHANGED <<unsent, asked, registered, userVars, waiter, aborted>>

registerSession(t) ==
  LET s == thread[t].s
  IN /\ At(t, "registering") /\ userMutex = Nobody
     /\ user' = CASE user.state = "Active" -> [user EXCEPT !.session = s]
                 [] user.state = "LoggedOut" -> [user EXCEPT !.waiting = s]
                 [] user.state = "Error" -> user
     /\ thread' = [thread EXCEPT ![t].pc =
                     IF user.state = "Active" THEN "reviving" ELSE "registered"]
     /\ UNCHANGED <<unsent, session, refs, asked, registered, managerVars, userMutex,
                    waiter, aborted>>

(* A session that was inactive makes the binding fetch a token.             *)
reviveIfNeeded(t) ==
  LET s == thread[t].s
  IN /\ At(t, "reviving")
     /\ become(t, s, Revived(session[s]),
               IF thread[t].op \in {"get", "create"}
               THEN [thread[t] EXCEPT !.pc = "registered"] ELSE Resting)
     /\ asked' = IF session[s].state = "inactive" THEN asked \cup {s} ELSE asked
     /\ UNCHANGED InSession

(* A mutant: the lock is released only with a reference of its own.         *)
keepsLock(t) ==
  /\ At(t, "registered")
  /\ refs' = IF thread[t].op = "get" THEN [refs EXCEPT ![thread[t].s] = @ + 1] ELSE refs
  /\ sessionMutex' = IF thread[t].op = "get" THEN Nobody ELSE sessionMutex
  /\ thread' = [thread EXCEPT ![t] = Resting]
  /\ UNCHANGED <<unsent, session, asked, registered, map, userVars, waiter, aborted>>

(* The caller of get_session is given an external reference.                *)
giveReference(t) ==
  /\ At(t, "registered")
  /\ refs' = IF thread[t].op = "get" THEN [refs EXCEPT ![thread[t].s] = @ + 1] ELSE refs
  /\ sessionMutex' = Nobody
  /\ thread' = [thread EXCEPT ![t] = Resting]
  /\ UNCHANGED <<unsent, session, asked, registered, map, userVars, waiter, aborted>>

(* The app lets go of a reference; who lets go of the last one goes on in   *)
(* did_drop_external_reference.                                             *)
dropReference(t, s) ==
  /\ IsIdle(t) /\ refs[s] > 0
  /\ refs' = [refs EXCEPT ![s] = @ - 1]
  /\ thread' = [thread EXCEPT ![t] =
       IF refs[s] > 1 \/ IsLookedAt(s) THEN Resting ELSE Start("dropped", "", s)]
  /\ UNCHANGED <<unsent, session, asked, registered, managerVars, userVars, waiter, aborted>>

didDropExternalReference(t) ==
  LET s == thread[t].s
  IN /\ At(t, "dropped")
     /\ IF IsReferenced(s)
        THEN /\ thread' = [thread EXCEPT ![t] = Resting]
             /\ UNCHANGED <<session, registered>>
        ELSE close(t, s, Resting)
     /\ UNCHANGED asked /\ UNCHANGED InSession
------------------------------------------------------------------------------
(* unregister_session, for the session that is at the path by now: one that *)
(* is referenced stays.                                                     *)
unregisterSession(t) ==
  /\ At(t, "unregistering") /\ sessionMutex = Nobody
  /\ aborted' = IF map = 0 THEN "unregister_session" ELSE ""
  /\ IF map # 0 /\ IsReferenced(map)
     THEN /\ sessionMutex' = t
          /\ thread' = [thread EXCEPT ![t].pc = "checked"]
          /\ UNCHANGED map
     ELSE /\ map' = 0
          /\ thread' = [thread EXCEPT ![t].pc = "telling"]
          /\ UNCHANGED sessionMutex
  /\ UNCHANGED <<unsent, session, refs, asked, registered, userVars, waiter>>

(* The reference it looked at is let go.  If the app has let go of all      *)
(* others by now the session is closed from here, and this thread waits for *)
(* the mutex it holds if that means to unregister it.                       *)
leaveRegistered(t) ==
  LET next == [thread[t] EXCEPT !.pc = "telling"]
  IN /\ At(t, "checked")
     /\ IF refs[map] > 0
        THEN /\ thread' = [thread EXCEPT ![t] = next]
             /\ UNCHANGED <<session, registered>>
        ELSE close(t, map, next)
     /\ sessionMutex' = IF thread'[t].pc = "telling" THEN Nobody ELSE t
     /\ UNCHANGED <<unsent, refs, asked, map, userVars, waiter, aborted>>

(* What each operation goes on with when the callbacks have been called.    *)
Then(op) == CASE op = "logOut" -> "loggedOut"
              [] op = "config" -> "configuring"
              [] op = "resync" -> "puttingBack"
              [] op = "badAuth" -> "invalidating"
              [] op = "reset" -> "ending"
              [] OTHER -> "idle"

tell(t) ==
  LET pc == Then(thread[t].op)
  IN /\ At(t, "telling")
     /\ waiter' = [w \in Waiters |-> IF w \in thread[t].calls THEN "told" ELSE waiter[w]]
     /\ thread' = [thread EXCEPT ![t] =
          IF pc = "idle" THEN Resting ELSE [@ EXCEPT !.pc = pc, !.calls = {}]]
     /\ UNCHANGED <<unsent, session, refs, asked, registered, managerVars, userVars, aborted>>
------------------------------------------------------------------------------
(* SyncUser::log_out: the user's mutex is held to the end.                  *)
logOut(t) ==
  /\ IsIdle(t) /\ userMutex = Nobody /\ user.state # "LoggedOut"
  /\ user' = [user EXCEPT !.state = "LoggedOut"]
  /\ userMutex' = t
  /\ thread' = [thread EXCEPT ![t] =
       IF user.session # 0 /\ IsAlive(user.session)
       THEN Start("loggingOut", "logOut", user.session) ELSE Start("loggedOut", "logOut", 0)]
  /\ UNCHANGED <<unsent, session, refs, asked, registered, managerVars, waiter, aborted>>

(* SyncSession::log_out.                                                    *)
logOutSession(t) ==
  LET s == thread[t].s
      loggedOut == [thread[t] EXCEPT !.pc = "loggedOut"]
  IN /\ At(t, "loggingOut")
     /\ become(t, s, IF session[s].state = "inactive" THEN session[s] ELSE Inactive(session[s]),
               loggedOut)
     /\ UNCHANGED asked /\ UNCHANGED InSession

(* The session waits for the user to log in again.                          *)
putInWaiting(t) ==
  LET s == thread[t].s
  IN /\ At(t, "loggedOut")
     /\ user' = [user EXCEPT !.session = 0, !.waiting = IF s = 0 THEN @ ELSE s]
     /\ userMutex' = Nobody
     /\ thread' = [thread EXCEPT ![t] = Resting]
     /\ UNCHANGED <<unsent, session, refs, asked, registered, managerVars, waiter, aborted>>

(* SyncManager::get_user, update_refresh_token.                             *)
logIn(t) ==
  LET s == user.waiting
      there == s # 0 /\ IsAlive(s)
  IN /\ IsIdle(t) /\ userMutex = Nobody /\ user.state = "LoggedOut"
     /\ user' = [state |-> "Active", session |-> IF there THEN s ELSE user.session, waiting |-> 0]
     /\ thread' = [thread EXCEPT ![t] = IF there THEN Start("reviving", "", s) ELSE Resting]
     /\ UNCHANGED <<unsent, session, refs, asked, registered, managerVars, userMutex,
                    waiter, aborted>>

(* RLMSyncSession: suspend, which logs the session out, and resume.         *)
suspend(t, s) ==
  /\ IsIdle(t) /\ IsAlive(s) /\ session[s].state # "inactive"
  /\ become(t, s, Inactive(session[s]), Resting)
  /\ UNCHANGED asked /\ UNCHANGED InSession

resume(t, s) ==
  /\ IsIdle(t) /\ IsAlive(s)
  /\ thread' = [thread EXCEPT ![t] = Start("reviving", "", s)]
  /\ UNCHANGED <<session, asked, registered>> /\ UNCHANGED InSession

updateConfiguration(t, s) ==
  /\ IsIdle(t) /\ IsAlive(s)
  /\ thread' = [thread EXCEPT ![t] = Start("configuring", "config", s)]
  /\ UNCHANGED <<session, asked, registered>> /\ UNCHANGED InSession

(* The loop of update_configuration: until the session stays inactive; then *)
(* all of its configuration is replaced.                                    *)
configure(t, policy, resync) ==
  LET s == thread[t].s
      inactive == session[s].state = "inactive"
  IN /\ At(t, "configuring")
     /\ become(t, s, IF inactive THEN [session[s] EXCEPT !.policy = policy, !.resync = resync]
                     ELSE Inactive(session[s]),
               IF inactive THEN Start("reviving", "", s) ELSE thread[t])
     /\ UNCHANGED asked /\ UNCHANGED InSession
------------------------------------------------------------------------------
(* The binding got a token: refresh_access_token makes the sync::Session    *)
(* and closes what was to be closed.                                        *)
refreshAccessToken(t, s) ==
  LET old == session[s]
      active == [old EXCEPT !.state = "active", !.under = TRUE]
  IN /\ IsIdle(t) /\ s \in asked
     /\ asked' = asked \ {s}
     /\ become(t, s, IF old.state # "waiting" THEN old
                     ELSE IF old.deferredClose THEN Closed(active) ELSE active, Resting)
     /\ UNCHANGED InSession

(* It got none, and logs the session out.                                   *)
tokenFails(t, s) ==
  /\ IsIdle(t) /\ s \in asked
  /\ asked' = asked \ {s}
  /\ become(t, s, IF session[s].state = "inactive" THEN session[s] ELSE Inactive(session[s]),
            Resting)
  /\ UNCHANGED InSession

(* SyncManager::reconnect, handle_reconnect.                                *)
reconnect(t) ==
  /\ IsIdle(t) /\ sessionMutex = Nobody /\ map # 0
  /\ session[map].state = "waiting"
  /\ asked' = asked \cup {map}
  /\ UNCHANGED <<session, registered, thread>> /\ UNCHANGED InSession

(* A mutant: a dying session takes no waits.                                *)
notWhileDying(t, w, s) ==
  /\ IsIdle(t) /\ IsAlive(s) /\ waiter[w] = "new"
  /\ session' = [session EXCEPT ![s].waits = @ \cup {w}]
  /\ registered' = IF session[s].waits = {} /\ session[s].state = "active"
                   THEN registered \cup {Handler("wait", s)} ELSE registered
  /\ waiter' = [waiter EXCEPT ![w] = "queued"]
  /\ UNCHANGED <<unsent, refs, asked, managerVars, userVars, thread, aborted>>

(* wait_for_upload_completion, wait_for_download_completion.                *)
waitForCompletion(t, w, s) ==
  /\ IsIdle(t) /\ IsAlive(s) /\ waiter[w] = "new"
  /\ session' = [session EXCEPT ![s].waits = @ \cup {w}]
  /\ registered' = IF session[s].waits = {} /\ session[s].state \in {"active", "dying"}
                   THEN registered \cup {Handler("wait", s)} ELSE registered
  /\ waiter' = [waiter EXCEPT ![w] = "queued"]
  /\ UNCHANGED <<unsent, refs, asked, managerVars, userVars, thread, aborted>>

(* The app commits to the open Realm.                                       *)
commit(t) ==
  /\ IsIdle(t) /\ \E s \in Sessions : refs[s] > 0
  /\ unsent' = TRUE
  /\ UNCHANGED <<session, refs, asked, registered, managerVars, userVars,
                 thread, waiter, aborted>>
------------------------------------------------------------------------------
(* The event loop.  The server has all that was committed.                  *)
upload ==
  /\ aborted = "" /\ unsent /\ \E s \in Sessions : session[s].under /\ IsAlive(s)
  /\ unsent' = FALSE
  /\ registered' = {IF h.due = "not yet" THEN [h EXCEPT !.due = "yes"] ELSE h : h \in registered}
  /\ session' = [s \in Sessions |-> [session[s] EXCEPT !.owes = FALSE]]
  /\ UNCHANGED <<refs, asked, managerVars, userVars, thread, waiter, aborted>>

(* The listener of the connection state hears of an error.                  *)
hearError(s, error) ==
  /\ IsIdle(Loop) /\ IsAlive(s) /\ session[s].under
  /\ thread' = [thread EXCEPT ![Loop] = Start("error", error, s)]
  /\ UNCHANGED <<session, registered, asked>> /\ UNCHANGED InSession

(* handle_error: a dying session takes any error, and dies of fatal ones.   *)
errorWhileDying ==
  LET s == thread[Loop].s
  IN /\ At(Loop, "error") /\ session[s].state = "dying"
     /\ become(Loop, s, IF thread[Loop].op = "expired" THEN session[s] ELSE Inactive(session[s]),
               Resting)
     /\ UNCHANGED asked /\ UNCHANGED InSession

handleError ==
  LET s == thread[Loop].s
      f == session[s]
      cancelPendingWaits(op) ==
        /\ session' = [session EXCEPT ![s].waits = {}]
        /\ thread' = [thread EXCEPT ![Loop].pc = "telling", ![Loop].op = op, ![Loop].calls = f.waits]
        /\ UNCHANGED <<registered, asked>>
  IN /\ At(Loop, "error") /\ f.state # "dying"
     /\ CASE thread[Loop].op = "expired" /\ f.state = "active" ->
               /\ become(Loop, s, [f EXCEPT !.state = "waiting", !.deferredClose = FALSE], Resting)
               /\ asked' = asked \cup {s}
          [] thread[Loop].op = "expired" /\ f.state # "active" ->
               /\ thread' = [thread EXCEPT ![Loop] = Resting]
               /\ UNCHANGED <<session, registered, asked>>
          [] thread[Loop].op = "fatal" -> cancelPendingWaits("")
          [] thread[Loop].op = "badAuth" -> cancelPendingWaits("badAuth")
          [] thread[Loop].op = "reset" /\ ~f.resync -> cancelPendingWaits("reset")
          [] thread[Loop].op = "reset" /\ f.resync ->
               /\ thread' = [thread EXCEPT ![Loop].pc = "resyncing"]
               /\ UNCHANGED <<session, registered, asked>>
          [] thread[Loop].op = "denied" ->
               /\ thread' = [thread EXCEPT ![Loop].pc = "ending"]
               /\ UNCHANGED <<session, registered, asked>>
     /\ UNCHANGED InSession

(* advance_state asserts that the session was not inactive.                 *)
endSession ==
  LET s == thread[Loop].s
  IN /\ At(Loop, "ending")
     /\ aborted' = IF session[s].state = "inactive" THEN "advance_state" ELSE ""
     /\ become(Loop, s, IF aborted' = "" THEN Inactive(session[s]) ELSE session[s], Resting)
     /\ UNCHANGED <<unsent, refs, asked, managerVars, userVars, waiter>>

(* A client resync: the waits are put aside while the session is torn down, *)
(* and put back without the mutex, over what waits there by then: a         *)
(* callback that was handed in between is lost.                             *)
resyncSession ==
  LET s == thread[Loop].s
  IN /\ At(Loop, "resyncing")
     /\ aborted' = IF session[s].state = "inactive" THEN "advance_state" ELSE ""
     /\ IF aborted' # "" THEN UNCHANGED <<session, registered, thread>>
        ELSE becomeWith(registered \ Outdated("wait", s), Loop, s, Inactive(session[s]),
                        [Start("", "resync", s) EXCEPT !.saved = session[s].waits])
     /\ UNCHANGED <<unsent, refs, asked, managerVars, userVars, waiter>>

putBackWaits ==
  LET s == thread[Loop].s
  IN /\ At(Loop, "puttingBack")
     /\ session' = [session EXCEPT ![s].waits = thread[Loop].saved]
     /\ waiter' = [w \in Waiters |->
          IF w \in session[s].waits THEN "lost"
          ELSE IF w \in thread[Loop].saved THEN "put back" ELSE waiter[w]]
     /\ thread' = [thread EXCEPT ![Loop] = Start("reviving", "", s)]
     /\ UNCHANGED <<unsent, refs, asked, registered, managerVars, userVars, aborted>>

(* SyncUser::invalidate.                                                    *)
invalidateUser ==
  /\ At(Loop, "invalidating") /\ userMutex = Nobody
  /\ user' = [user EXCEPT !.state = "Error"]
  /\ thread' = [thread EXCEPT ![Loop] = Resting]
  /\ UNCHANGED <<unsent, session, refs, asked, registered, managerVars, userMutex,
                 waiter, aborted>>

(* Handlers are called when they are due.                                   *)
isDue(h) == h \in registered /\ (h.due # "not yet" \/ ~IsAlive(h.s))

waitCompletes(h) ==
  LET f == session[h.s]
  IN /\ IsIdle(Loop) /\ h.kind = "wait" /\ isDue(h)
     /\ registered' = registered \ {h}
     /\ IF IsAlive(h.s)
        THEN /\ session' = [session EXCEPT ![h.s].waits = {}]
             /\ thread' = [thread EXCEPT ![Loop] = [Start("telling", "", h.s) EXCEPT !.calls = f.waits]]
        ELSE UNCHANGED <<session, thread>>
     /\ UNCHANGED asked /\ UNCHANGED InSession

deathCompletes(h) ==
  LET f == session[h.s]
  IN /\ IsIdle(Loop) /\ h.kind = "death" /\ isDue(h)
     /\ becomeWith(registered \ {h}, Loop, h.s,
                   IF IsAlive(h.s) /\ f.state = "dying" THEN Inactive(f) ELSE f, Resting)
     /\ UNCHANGED asked /\ UNCHANGED InSession

------------------------------------------------------------------------------
appStep(t) ==
  \/ \E p \in Policies, resync \in BOOLEAN : getSession(t, p, resync) \/ configure(t, p, resync)
  \/ registerSession(t) \/ giveReference(t) \/ didDropExternalReference(t)
  \/ logOut(t) \/ logOutSession(t) \/ putInWaiting(t) \/ logIn(t)
  \/ reconnect(t) \/ commit(t)
  \/ \E s \in Sessions :
       \/ dropReference(t, s) \/ suspend(t, s) \/ resume(t, s) \/ updateConfiguration(t, s)
       \/ refreshAccessToken(t, s) \/ tokenFails(t, s)
       \/ \E w \in Waiters : waitForCompletion(t, w, s)

anyStep(t) == reviveIfNeeded(t) \/ unregisterSession(t) \/ leaveRegistered(t) \/ tell(t)

loopStep ==
  \/ upload \/ errorWhileDying \/ handleError \/ endSession \/ resyncSession
  \/ putBackWaits \/ invalidateUser
  \/ \E s \in Sessions, error \in Errors : hearError(s, error)
  \/ \E h \in registered : waitCompletes(h) \/ deathCompletes(h)

Next ==
  \/ \E t \in Threads : appStep(t)
  \/ \E t \in AllThreads : anyStep(t)
  \/ loopStep

Spec == Init /\ [][Next]_vars
------------------------------------------------------------------------------
(* Every variable holds what it may, and a mutex is held only by a thread   *)
(* that is somewhere between taking and releasing it.                       *)
TypeOK ==
  /\ unsent \in BOOLEAN
  /\ session \in [Sessions -> [state : {"none", "waiting", "active", "dying", "inactive"},
                               policy : Policies \cup {""}, resync : BOOLEAN, under : BOOLEAN,
                               deferredClose : BOOLEAN, waits : SUBSET Waiters, owes : BOOLEAN]]
  /\ \A s \in Sessions : session[s].state \in {"active", "dying"} => session[s].under
  /\ refs \in [Sessions -> 0 .. MaxRefs] /\ asked \subseteq Sessions
  /\ registered \subseteq [kind : {"wait", "death"}, s : Sessions,
                           due : {"not yet", "yes", "cancelled"}]
  /\ {map, user.session, user.waiting} \subseteq Sessions \cup {0}
  /\ user.state \in {"Active", "LoggedOut", "Error"}
  /\ \A t \in AllThreads :
       /\ sessionMutex = t => thread[t].pc \in {"registering", "reviving", "registered",
                                               "checked", "unregistering"}
       /\ userMutex = t => thread[t].pc \in {"loggingOut", "unregistering", "checked",
                                            "telling", "loggedOut"}
       /\ thread[t].pc # "idle" => thread[t].s \in Sessions \/ thread[t].pc = "loggedOut"

(* Where a completion callback is kept.                                     *)
Places(w) == {<<s, "waits">> : s \in {s \in Sessions : w \in session[s].waits}}
  \cup {<<t, "calls">> : t \in {t \in AllThreads : w \in thread[t].calls}}
  \cup {<<t, "saved">> : t \in {t \in AllThreads : w \in thread[t].saved}}

(* A completion callback that was handed in and is not called yet is in one *)
(* place, and one that was called is in none: no error, log out, resync or  *)
(* death of the session has it called twice, and none drops it, but for a   *)
(* client resync, which loses what was handed in meanwhile                  *)
(* (ResyncLosesNoWait).  An app that lets go of an inactive session gives   *)
(* up the callbacks there.                                                  *)
WaitersKept ==
  \A w \in Waiters :
    waiter[w] # "lost" =>
      Cardinality(Places(w)) = IF waiter[w] \in {"queued", "put back"} THEN 1 ELSE 0

(* handle_error puts the completion callbacks aside so that a client resync *)
(* is transparent to the user: a callback that was handed in and not called *)
(* is still somewhere, as long as the app holds on to the session.          *)
ResyncLosesNoWait ==
  (\A s \in Sessions : session[s].state # "none" => refs[s] > 0) =>
    \A w \in Waiters : waiter[w] \notin {"new", "told"} => Places(w) # {}

(* While callbacks wait at a session that is active or dying, the event     *)
(* loop has a handler of the sync::Session in use that will call them; but  *)
(* for callbacks a client resync put back, which may come too late.         *)
WaitersRegistered ==
  \A s \in Sessions :
    IsAlive(s) /\ session[s].state \in {"active", "dying"} /\ session[s].waits # {}
      /\ (\A w \in session[s].waits : waiter[w] = "queued") =>
        \E h \in registered : h.kind = "wait" /\ h.s = s /\ h.due # "cancelled"

(* A dying session, revived and dying again however often, is not ended by  *)
(* the handler of an earlier death: when a handler ends it, what was        *)
(* committed before this death is uploaded.                                 *)
UploadedWhenDead ==
  [][\A h \in registered : deathCompletes(h) /\ IsAlive(h.s) =>
       ~(session[h.s].state = "dying" /\ session[h.s].owes)]_vars

(* unregister_session asserts that there is a session to unregister.        *)
(* SyncManager::m_sessions is looked up by path: a session that became      *)
(* inactive and was unregistered can be resumed, and has nothing to         *)
(* unregister when it becomes inactive again.                               *)
NothingUnregisteredTwice == aborted # "unregister_session"
=============================================================================
