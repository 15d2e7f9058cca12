------------------------- MODULE SyncWaitersProofs -------------------------
(***************************************************************************)
(* Proofs about the completion callbacks of SyncSessions: each is kept in   *)
(* one place until it is called, and the event loop has a handler that will *)
(* call those of a session in use.                                          *)
(*                                                                          *)
(* The inductive invariant says where a thread may hold callbacks, that two *)
(* places never hold the same one, and that the callbacks in some place are *)
(* those that wait.                                                         *)
(***************************************************************************)
EXTENDS SyncSessionsProofs, FiniteSetTheorems

Waiting == {"queued", "put back"}

(* What a thread holds: callbacks it is about to call, and those a client   *)
(* resync put aside.                                                        *)
MayHold(t, r) ==
  /\ r.calls # {} => r.pc \in {"unregistering", "checked", "telling"}
  /\ r.saved # {} => /\ t = Loop /\ r.op = "resync"
                     /\ r.pc \in {"unregistering", "checked", "telling", "puttingBack"}
HoldsCallbacks == \A t \in AllThreads : MayHold(t, thread[t])

Apart(w) ==
  /\ \A s, r \in Sessions : w \in session[s].waits /\ w \in session[r].waits => r = s
  /\ \A s \in Sessions, t \in AllThreads : w \in session[s].waits =>
       w \notin thread[t].calls /\ w \notin thread[t].saved
  /\ \A t, u \in AllThreads : w \in thread[t].calls =>
       w \notin thread[u].saved /\ (w \in thread[u].calls => u = t)

Kept(w) ==
  waiter[w] \in Waiting <=>
    \/ \E s \in Sessions : w \in session[s].waits
    \/ \E t \in AllThreads : w \in thread[t].calls \/ w \in thread[t].saved

CallbacksKept ==
  /\ waiter \in [Waiters -> Waiting \cup {"new", "told", "lost"}]
  /\ HoldsCallbacks
  /\ \A w \in Waiters : Apart(w) /\ Kept(w)
------------------------------------------------------------------------------
LEMMA KeptOnce == CallbacksKept => WaitersKept
<1> SUFFICES ASSUME CallbacksKept, NEW w \in Waiters
             PROVE  Cardinality(Places(w)) = IF waiter[w] \in Waiting THEN 1 ELSE 0
  BY DEF WaitersKept, Waiting
<1>1. Apart(w) /\ Kept(w) /\ HoldsCallbacks
  BY DEF CallbacksKept
<1>2. CASE \E s \in Sessions : w \in session[s].waits
  <2>1. PICK s \in Sessions : w \in session[s].waits
    BY <1>2
  <2>2. {r \in Sessions : w \in session[r].waits} = {s}
    BY <1>1, <2>1 DEF Apart
  <2>3. /\ {t \in AllThreads : w \in thread[t].calls} = {}
        /\ {t \in AllThreads : w \in thread[t].saved} = {}
    BY <1>1, <2>1 DEF Apart
  <2>4. Places(w) = {<<s, "waits">>}
    BY <2>2, <2>3 DEF Places
  <2> QED
    BY <1>1, <2>1, <2>4, FS_Singleton DEF Kept
<1>3. CASE \E t \in AllThreads : w \in thread[t].calls
  <2>1. PICK t \in AllThreads : w \in thread[t].calls
    BY <1>3
  <2>2. {u \in AllThreads : w \in thread[u].calls} = {t}
    BY <1>1, <2>1 DEF Apart
  <2>3. /\ {s \in Sessions : w \in session[s].waits} = {}
        /\ {u \in AllThreads : w \in thread[u].saved} = {}
    BY <1>1, <2>1 DEF Apart
  <2>4. Places(w) = {<<t, "calls">>}
    BY <2>2, <2>3 DEF Places
  <2> QED
    BY <1>1, <2>1, <2>4, FS_Singleton DEF Kept
<1>4. CASE \E t \in AllThreads : w \in thread[t].saved
  <2>1. PICK t \in AllThreads : w \in thread[t].saved
    BY <1>4
  <2>2. {u \in AllThreads : w \in thread[u].saved} = {t}
    BY <1>1, <2>1 DEF HoldsCallbacks, MayHold
  <2>3. /\ {s \in Sessions : w \in session[s].waits} = {}
        /\ {u \in AllThreads : w \in thread[u].calls} = {}
    BY <1>1, <2>1 DEF Apart
  <2>4. Places(w) = {<<t, "saved">>}
    BY <2>2, <2>3 DEF Places
  <2> QED
    BY <1>1, <2>1, <2>4, FS_Singleton DEF Kept
<1>5. CASE /\ \A s \in Sessions : w \notin session[s].waits
           /\ \A t \in AllThreads : w \notin thread[t].calls /\ w \notin thread[t].saved
  <2>1. Places(w) = {}
    BY <1>5 DEF Places
  <2> QED
    BY <1>1, <1>5, <2>1, FS_EmptySet DEF Kept
<1> QED
  BY <1>2, <1>3, <1>4, <1>5

(* A step that leaves every callback where it is.                           *)
LEMMA NoneMoved ==
  ASSUME CallbacksKept, waiter' = waiter,
         \A s \in Sessions : session'[s].waits = session[s].waits,
         \A t \in AllThreads : /\ thread'[t].calls = thread[t].calls
                               /\ thread'[t].saved = thread[t].saved
                               /\ MayHold(t, thread'[t])
  PROVE  CallbacksKept'
<1>1. HoldsCallbacks'
  BY DEF HoldsCallbacks, MayHold
<1>2. ASSUME NEW w \in Waiters PROVE Apart(w)' /\ Kept(w)'
  <2>1. Apart(w) /\ Kept(w)
    BY DEF CallbacksKept
  <2>2. Apart(w)'
    BY <2>1 DEF Apart
  <2>3. Kept(w)'
    BY <2>1 DEF Kept
  <2> QED
    BY <2>2, <2>3
<1> QED
  BY <1>1, <1>2 DEF CallbacksKept

(* What becomes of the callbacks when session s becomes f in a step of t:   *)
(* t takes those that wait if the session ends, and a client resync saves   *)
(* them first.                                                              *)
Ends(s, f) == f.state = "inactive" /\ session[s].state # "inactive"

TakesOver(t, s, f, next) ==
  /\ f.waits = IF Ends(s, f) THEN {} ELSE session[s].waits
  /\ next.calls = thread[t].calls
  /\ \/ next.saved = thread[t].saved
     \/ /\ Ends(s, f) /\ t = Loop /\ next.op = "resync"
        /\ thread[t].saved = {} /\ next.saved = session[s].waits
  /\ ~Ends(s, f) => MayHold(t, next)
  /\ Ends(s, f) /\ next.saved # {} => t = Loop /\ next.op = "resync"

LEMMA BecomeMoves ==
  ASSUME IInv, CallbacksKept, NEW H, NEW t \in AllThreads,
         NEW s \in Sessions, NEW f \in SessionRec, NEW next \in ThreadRec,
         becomeWith(H, t, s, f, next), waiter' = waiter, TakesOver(t, s, f, next)
  PROVE  CallbacksKept'
<1> DEFINE ended == Ends(s, f)
<1>e. /\ ended \in BOOLEAN
      /\ ended <=> (f.state = "inactive" /\ session[s].state # "inactive")
      /\ f.waits = IF ended THEN {} ELSE session[s].waits
      /\ next.calls = thread[t].calls
      /\ \/ next.saved = thread[t].saved
         \/ /\ ended /\ t = Loop /\ next.op = "resync"
            /\ thread[t].saved = {} /\ next.saved = session[s].waits
      /\ ~ended => MayHold(t, next)
      /\ ended /\ next.saved # {} => t = Loop /\ next.op = "resync"
  BY DEF Ends, TakesOver
<1> HIDE DEF ended
<1>0. session \in [Sessions -> SessionRec] /\ thread \in [AllThreads -> ThreadRec]
  BY DEF IInv, Types
<1>1. /\ \A x \in Sessions : x # s => session'[x] = session[x]
      /\ session'[s].waits = IF ended THEN {} ELSE session[s].waits
  <2>1. PICK g \in {f, [f EXCEPT !.owes = unsent]} : session' = [session EXCEPT ![s] = g]
    BY DEF becomeWith
  <2>2. g.waits = f.waits
    BY <2>1 DEF SessionRec
  <2> QED
    BY <1>0, <1>e, <2>1, <2>2
<1>2. /\ \A u \in AllThreads : u # t => thread'[u] = thread[u]
      /\ thread'[t].saved = next.saved
      /\ thread'[t].calls = IF ended THEN next.calls \cup (session[s].waits \ next.saved)
                            ELSE next.calls
      /\ MayHold(t, thread'[t])
  <2>1. CASE ~ended
    <3>1. thread' = [thread EXCEPT ![t] = next]
      BY <1>e, <2>1 DEF becomeWith
    <3> QED
      BY <1>0, <1>e, <2>1, <3>1
  <2>2. CASE ended
    <3> DEFINE new == [next EXCEPT !.pc = "unregistering", !.s = s,
                                   !.calls = @ \cup (session[s].waits \ next.saved)]
    <3>1. thread' = [thread EXCEPT ![t] = new]
      BY <1>e, <2>2 DEF becomeWith
    <3>2. /\ new.saved = next.saved /\ new.op = next.op /\ new.pc = "unregistering"
          /\ new.calls = next.calls \cup (session[s].waits \ next.saved)
      BY DEF ThreadRec
    <3>3. MayHold(t, new)
      BY <1>e, <2>2, <3>2 DEF MayHold
    <3> HIDE DEF new
    <3> QED
      BY <1>0, <1>e, <2>2, <3>1, <3>2, <3>3
  <2> QED
    BY <2>1, <2>2
<1>3. HoldsCallbacks'
  BY <1>2 DEF HoldsCallbacks, CallbacksKept, MayHold
<1>4. ASSUME NEW w \in Waiters PROVE Apart(w)' /\ Kept(w)'
  <2>1. Apart(w) /\ Kept(w)
    BY DEF CallbacksKept
  <2>2. CASE ~ended
    <3>1. /\ \A x \in Sessions : session'[x].waits = session[x].waits
          /\ \A u \in AllThreads : /\ thread'[u].calls = thread[u].calls
                                   /\ thread'[u].saved = thread[u].saved
      BY <1>1, <1>2, <1>e, <2>2
    <3> QED
      BY <2>1, <3>1 DEF Apart, Kept
  <2>3. CASE ended /\ w \notin session[s].waits
    <3>1. /\ \A x \in Sessions : w \in session'[x].waits <=> w \in session[x].waits
          /\ \A u \in AllThreads : /\ w \in thread'[u].calls <=> w \in thread[u].calls
                                   /\ w \in thread'[u].saved <=> w \in thread[u].saved
      BY <1>1, <1>2, <1>e, <2>3
    <3> QED
      BY <2>1, <3>1 DEF Apart, Kept
  <2>4. CASE ended /\ w \in session[s].waits
    <3>1. /\ \A x \in Sessions : w \notin session'[x].waits
          /\ \A u \in AllThreads : u # t => w \notin thread'[u].calls /\ w \notin thread'[u].saved
          /\ w \notin thread[t].calls /\ w \notin thread[t].saved
      BY <1>1, <1>2, <1>e, <2>1, <2>4 DEF Apart
    <3>2. \/ w \in thread'[t].calls /\ w \notin thread'[t].saved
          \/ w \notin thread'[t].calls /\ w \in thread'[t].saved
      BY <1>2, <1>e, <2>4, <3>1
    <3>3. Apart(w)'
      BY <3>1, <3>2 DEF Apart
    <3>4. Kept(w)'
      BY <2>1, <2>4, <3>2 DEF Kept
    <3> QED
      BY <3>3, <3>4
  <2> QED
    BY <2>2, <2>3, <2>4
<1> QED
  BY <1>3, <1>4 DEF CallbacksKept

(* The sessions that the actions make.                                      *)
LEMMA WaitsOf ==
  ASSUME NEW f \in SessionRec
  PROVE  /\ Inactive(f).waits = {}
         /\ Closed(f).waits = IF Closed(f).state = "inactive" /\ f.state # "inactive" THEN {}
                              ELSE f.waits
         /\ Revived(f).waits = f.waits /\ Revived(f).state # "inactive"
  BY DEF Inactive, Closed, Revived, SessionRec

LEMMA RestingHolds == Resting.calls = {} /\ Resting.saved = {} /\ \A t : MayHold(t, Resting)
  BY DEF Resting, MayHold

LEMMA StartHolds ==
  ASSUME NEW pc, NEW op, NEW s
  PROVE  Start(pc, op, s).calls = {} /\ Start(pc, op, s).saved = {}
  BY DEF Start, Resting

(* Nothing is held but where MayHold says so.                               *)
LEMMA HoldsNothing ==
  ASSUME CallbacksKept, NEW t \in AllThreads,
         thread[t].pc \notin {"unregistering", "checked", "telling"}
  PROVE  /\ thread[t].calls = {}
         /\ thread[t].pc # "puttingBack" => thread[t].saved = {}
         /\ MayHold(t, thread[t])
  BY DEF CallbacksKept, HoldsCallbacks, MayHold
------------------------------------------------------------------------------
(* One lemma for each action, or for a few that are alike.                  *)

(* A session s and what it may become keep or give up the callbacks.        *)
GivesUp(s, f) ==
  f.waits = IF f.state = "inactive" /\ session[s].state # "inactive" THEN {} ELSE session[s].waits

LEMMA GivenUp ==
  ASSUME IInv, NEW s, Made(s)
  PROVE  /\ GivesUp(s, session[s]) /\ GivesUp(s, Closed(session[s]))
         /\ GivesUp(s, Revived(session[s]))
         /\ session[s].state # "inactive" => GivesUp(s, Inactive(session[s]))
<1>1. session[s] \in SessionRec
  BY DEF Made, IInv, Types
<1> QED
  BY <1>1, WaitsOf, SessionFacts DEF GivesUp

LEMMA IdleBecomeMoves ==
  ASSUME IInv, CallbacksKept, NEW t \in AllThreads, NEW s \in Sessions, NEW f \in SessionRec,
         NEW H \in SUBSET registered, becomeWith(H, t, s, f, Resting),
         GivesUp(s, f), waiter' = waiter,
         thread[t].pc \in {"idle", "dropped", "error", "ending", "reviving", "configuring"}
  PROVE  CallbacksKept'
<1>1. thread[t].calls = {} /\ thread[t].saved = {}
  BY HoldsNothing
<1>2. TakesOver(t, s, f, Resting)
  BY <1>1, RestingHolds DEF GivesUp, TakesOver, Ends
<1> QED
  BY <1>2, RestingRecord, BecomeMoves

LEMMA RevivingMoves ==
  ASSUME IInv, CallbacksKept, NEW t \in AllThreads, reviveIfNeeded(t)
  PROVE  CallbacksKept'
<1> DEFINE s == thread[t].s
           f == Revived(session[s])
           on == [thread[t] EXCEPT !.pc = "registered"]
<1>1. thread[t] \in ThreadRec /\ thread[t].pc = "reviving" /\ Made(s)
  BY WhereThreadIs DEF reviveIfNeeded, At
<1>2. s \in Sessions /\ session[s] \in SessionRec /\ f \in SessionRec
      /\ f.state # "inactive" /\ f.waits = session[s].waits
  BY <1>1, SessionFacts, WaitsOf
<1>3. waiter' = waiter
  BY DEF reviveIfNeeded, InSession
<1>4. CASE thread[t].op \in {"get", "create"}
  <2>1. becomeWith(registered, t, s, f, on)
    BY <1>4 DEF reviveIfNeeded, become
  <2>2. on \in ThreadRec /\ on.calls = thread[t].calls /\ on.saved = thread[t].saved
    BY <1>1 DEF ThreadRec, Counters
  <2>3. thread[t].calls = {} /\ thread[t].saved = {}
    BY <1>1, HoldsNothing
  <2>4. MayHold(t, on)
    BY <2>2, <2>3 DEF MayHold
  <2> HIDE DEF s, f, on
  <2>5. TakesOver(t, s, f, on)
    BY <1>2, <2>2, <2>4 DEF TakesOver, Ends
  <2> QED
    BY <1>2, <1>3, <2>1, <2>2, <2>5, BecomeMoves
<1>5. CASE thread[t].op \notin {"get", "create"}
  <2>1. becomeWith(registered, t, s, f, Resting)
    BY <1>5 DEF reviveIfNeeded, become
  <2>2. GivesUp(s, f)
    BY <1>1, GivenUp
  <2> QED
    BY <1>1, <1>2, <1>3, <2>1, <2>2, IdleBecomeMoves
<1> QED
  BY <1>4, <1>5

LEMMA SuspendMoves ==
  ASSUME IInv, CallbacksKept, NEW t \in AllThreads, NEW s \in Sessions, suspend(t, s)
  PROVE  CallbacksKept'
<1>1. Made(s) /\ thread[t].pc = "idle" /\ session[s].state # "inactive" /\ waiter' = waiter
  BY AliveIsMade DEF suspend, IsIdle, At, InSession
<1>2. becomeWith(registered, t, s, Inactive(session[s]), Resting)
  BY DEF suspend, become
<1>3. GivesUp(s, Inactive(session[s])) /\ Inactive(session[s]) \in SessionRec
  BY <1>1, GivenUp, SessionFacts
<1> QED
  BY <1>1, <1>2, <1>3, IdleBecomeMoves

LEMMA TokenFailsMoves ==
  ASSUME IInv, CallbacksKept, NEW t \in AllThreads, NEW s \in Sessions, tokenFails(t, s)
  PROVE  CallbacksKept'
<1> DEFINE f == IF session[s].state = "inactive" THEN session[s] ELSE Inactive(session[s])
<1>1. Made(s) /\ thread[t].pc = "idle" /\ waiter' = waiter
  BY DEF tokenFails, IsIdle, At, IInv, InUse, InSession
<1>2. becomeWith(registered, t, s, f, Resting)
  BY DEF tokenFails, become
<1>3. f \in SessionRec /\ GivesUp(s, f)
  BY <1>1, GivenUp, SessionFacts
<1> QED
  BY <1>1, <1>2, <1>3, IdleBecomeMoves

LEMMA RefreshMoves ==
  ASSUME IInv, CallbacksKept, NEW t \in AllThreads, NEW s \in Sessions, refreshAccessToken(t, s)
  PROVE  CallbacksKept'
<1> DEFINE active == [session[s] EXCEPT !.state = "active", !.under = TRUE]
           f == IF session[s].state # "waiting" THEN session[s]
                ELSE IF session[s].deferredClose THEN Closed(active) ELSE active
<1>1. Made(s) /\ thread[t].pc = "idle" /\ waiter' = waiter
  BY DEF refreshAccessToken, IsIdle, At, IInv, InUse, InSession
<1>2. becomeWith(registered, t, s, f, Resting)
  BY DEF refreshAccessToken, become
<1>3. /\ active \in SessionRec /\ active.state = "active" /\ active.under
      /\ active.waits = session[s].waits
  <2>1. session[s] \in SessionRec
    BY <1>1, SessionFacts
  <2> QED
    BY <2>1 DEF SessionRec
<1>4. /\ Closed(active) \in SessionRec
      /\ Closed(active).waits = IF Closed(active).state = "inactive" THEN {} ELSE session[s].waits
  BY <1>3, ClosedRecord, WaitsOf
<1>5. f \in SessionRec /\ GivesUp(s, f)
  BY <1>1, <1>3, <1>4, GivenUp, SessionFacts DEF GivesUp
<1> QED
  BY <1>1, <1>2, <1>5, IdleBecomeMoves

LEMMA DyingErrorMoves == ASSUME IInv, CallbacksKept, errorWhileDying PROVE CallbacksKept'
<1> DEFINE s == thread[Loop].s
           f == IF thread[Loop].op = "expired" THEN session[s] ELSE Inactive(session[s])
<1>1. /\ Loop \in AllThreads /\ thread[Loop].pc = "error" /\ Made(s) /\ waiter' = waiter
      /\ session[s].state = "dying"
  BY WhereThreadIs DEF errorWhileDying, At, AllThreads, InSession
<1>2. becomeWith(registered, Loop, s, f, Resting)
  BY DEF errorWhileDying, become
<1>3. s \in Sessions /\ f \in SessionRec /\ GivesUp(s, f)
  BY <1>1, SessionFacts, GivenUp
<1> QED
  BY <1>1, <1>2, <1>3, IdleBecomeMoves

LEMMA EndSessionMoves == ASSUME IInv, CallbacksKept, endSession PROVE CallbacksKept'
<1> DEFINE s == thread[Loop].s
           f == IF aborted' = "" THEN Inactive(session[s]) ELSE session[s]
<1>1. Loop \in AllThreads /\ thread[Loop].pc = "ending" /\ Made(s) /\ waiter' = waiter
  BY WhereThreadIs DEF endSession, At, AllThreads
<1>2. becomeWith(registered, Loop, s, f, Resting) /\ (aborted' = "" => session[s].state # "inactive")
  BY DEF endSession, become
<1>3. s \in Sessions /\ f \in SessionRec /\ GivesUp(s, f)
  BY <1>1, <1>2, SessionFacts, GivenUp
<1> QED
  BY <1>1, <1>2, <1>3, IdleBecomeMoves

LEMMA DeathMoves ==
  ASSUME IInv, CallbacksKept, NEW h \in registered, deathCompletes(h) PROVE CallbacksKept'
<1> DEFINE f == IF IsAlive(h.s) /\ session[h.s].state = "dying" THEN Inactive(session[h.s])
                ELSE session[h.s]
<1>1. Loop \in AllThreads /\ thread[Loop].pc = "idle" /\ Made(h.s) /\ waiter' = waiter
  BY DEF deathCompletes, IsIdle, At, AllThreads, IInv, InUse, InSession
<1>2. becomeWith(registered \ {h}, Loop, h.s, f, Resting)
  BY DEF deathCompletes
<1>3. h.s \in Sessions /\ f \in SessionRec /\ GivesUp(h.s, f)
  BY <1>1, SessionFacts, GivenUp
<1> QED
  BY <1>1, <1>2, <1>3, IdleBecomeMoves

LEMMA DidDropMoves ==
  ASSUME IInv, CallbacksKept, NEW t \in AllThreads, didDropExternalReference(t)
  PROVE  CallbacksKept'
<1> DEFINE s == thread[t].s
<1>1. /\ thread[t].pc = "dropped" /\ Made(s) /\ waiter' = waiter
      /\ thread \in [AllThreads -> ThreadRec]
  BY WhereThreadIs DEF didDropExternalReference, At, InSession, IInv, Types
<1>2. thread[t].calls = {} /\ thread[t].saved = {}
  BY <1>1, HoldsNothing
<1>3. CASE becomeWith(registered, t, s, Closed(session[s]), Resting)
  <2>1. s \in Sessions /\ Closed(session[s]) \in SessionRec /\ GivesUp(s, Closed(session[s]))
    BY <1>1, SessionFacts, GivenUp
  <2> QED
    BY <1>1, <1>3, <2>1, IdleBecomeMoves
<1>4. CASE /\ UNCHANGED <<session, registered>>
           /\ \E next \in {Resting, [Resting EXCEPT !.pc = "unregistering", !.s = s]} :
                thread' = [thread EXCEPT ![t] = next]
  <2>1. PICK next \in {Resting, [Resting EXCEPT !.pc = "unregistering", !.s = s]} :
               thread' = [thread EXCEPT ![t] = next]
    BY <1>4
  <2>2. next.calls = {} /\ next.saved = {}
    <3>1. /\ [Resting EXCEPT !.pc = "unregistering", !.s = s].calls = {}
          /\ [Resting EXCEPT !.pc = "unregistering", !.s = s].saved = {}
      BY DEF Resting
    <3> QED
      BY <3>1, RestingHolds
  <2>3. \A u \in AllThreads : /\ thread'[u].calls = thread[u].calls
                              /\ thread'[u].saved = thread[u].saved
                              /\ MayHold(u, thread'[u])
    BY <1>1, <1>2, <2>1, <2>2 DEF CallbacksKept, HoldsCallbacks, MayHold
  <2> QED
    BY <1>1, <1>4, <2>3, NoneMoved
<1>5. \/ becomeWith(registered, t, s, Closed(session[s]), Resting)
      \/ /\ UNCHANGED <<session, registered>>
         /\ \E next \in {Resting, [Resting EXCEPT !.pc = "unregistering", !.s = s]} :
              thread' = [thread EXCEPT ![t] = next]
  BY DEF didDropExternalReference, close, become
<1> QED
  BY <1>3, <1>4, <1>5

LEMMA LogOutSessionMoves ==
  ASSUME IInv, CallbacksKept, NEW t \in AllThreads, logOutSession(t)
  PROVE  CallbacksKept'
<1> DEFINE s == thread[t].s
           f == IF session[s].state = "inactive" THEN session[s] ELSE Inactive(session[s])
           next == [thread[t] EXCEPT !.pc = "loggedOut"]
<1>1. thread[t] \in ThreadRec /\ thread[t].pc = "loggingOut" /\ Made(s)
  BY WhereThreadIs DEF logOutSession, At
<1>2. s \in Sessions /\ f \in SessionRec /\ GivesUp(s, f)
  BY <1>1, SessionFacts, GivenUp
<1>3. /\ next \in ThreadRec /\ next.calls = thread[t].calls /\ next.saved = thread[t].saved
      /\ thread[t].calls = {} /\ thread[t].saved = {}
  BY <1>1, HoldsNothing DEF ThreadRec, Counters
<1>4. becomeWith(registered, t, s, f, next) /\ waiter' = waiter
  BY DEF logOutSession, become, InSession
<1>5. MayHold(t, next)
  BY <1>3 DEF MayHold
<1> HIDE DEF s, f, next
<1>6. TakesOver(t, s, f, next)
  BY <1>2, <1>3, <1>5 DEF GivesUp, TakesOver, Ends
<1> QED
  BY <1>2, <1>3, <1>4, <1>6, BecomeMoves

LEMMA ConfigureMoves ==
  ASSUME IInv, CallbacksKept, NEW t \in AllThreads, NEW p \in Policies, NEW resync \in BOOLEAN,
         configure(t, p, resync)
  PROVE  CallbacksKept'
<1> DEFINE s == thread[t].s
           inactive == session[s].state = "inactive"
           f == Configured(s, p, resync)
           next == IF inactive THEN Start("reviving", "", s) ELSE thread[t]
<1>1. thread[t] \in ThreadRec /\ thread[t].pc = "configuring" /\ Made(s)
  BY WhereThreadIs DEF configure, At
<1>2. s \in Sessions /\ f \in SessionRec /\ GivesUp(s, f)
  BY <1>1, SessionFacts, ConfiguredFacts, GivenUp DEF GivesUp
<1>3. thread[t].calls = {} /\ thread[t].saved = {}
  BY <1>1, HoldsNothing
<1>4. next \in ThreadRec /\ next.calls = {} /\ next.saved = {}
  <2>1. /\ Start("reviving", "", s) \in ThreadRec
        /\ Start("reviving", "", s).calls = {} /\ Start("reviving", "", s).saved = {}
    BY <1>2, SessionRange DEF Start, Resting, ThreadRec, Operations, Counters
  <2> QED
    BY <1>1, <1>3, <2>1
<1>5. becomeWith(registered, t, s, f, next) /\ waiter' = waiter
  BY DEF configure, become, InSession, Configured
<1>6. MayHold(t, next)
  BY <1>4 DEF MayHold
<1> HIDE DEF s, f, next
<1>7. TakesOver(t, s, f, next)
  BY <1>2, <1>3, <1>4, <1>6 DEF GivesUp, TakesOver, Ends
<1> QED
  BY <1>2, <1>4, <1>5, <1>7, BecomeMoves

LEMMA ResyncMoves == ASSUME IInv, CallbacksKept, resyncSession PROVE CallbacksKept'
<1> DEFINE s == thread[Loop].s
           H == registered \ Outdated("wait", s)
           next == [Start("", "resync", s) EXCEPT !.saved = session[s].waits]
<1>1. /\ Loop \in AllThreads /\ thread[Loop].pc = "resyncing" /\ waiter' = waiter
      /\ Made(s) /\ thread[Loop] \in ThreadRec
  <2>1. Loop \in AllThreads /\ thread[Loop].pc = "resyncing"
    BY DEF resyncSession, At, AllThreads
  <2> QED
    BY <2>1, WhereThreadIs DEF resyncSession
<1>2. thread[Loop].calls = {} /\ thread[Loop].saved = {}
  BY <1>1, HoldsNothing
<1>3. CASE session[s].state = "inactive"
  <2>1. UNCHANGED <<session, registered, thread>>
    BY <1>3 DEF resyncSession
  <2> QED
    BY <1>1, <2>1, NoneMoved DEF CallbacksKept, HoldsCallbacks
<1>4. CASE session[s].state # "inactive"
  <2>1. becomeWith(H, Loop, s, Inactive(session[s]), next)
    BY <1>4 DEF resyncSession
  <2>2. /\ s \in Sessions /\ session[s] \in SessionRec
        /\ Inactive(session[s]) \in SessionRec /\ Inactive(session[s]).waits = {}
        /\ Inactive(session[s]).state = "inactive"
    BY <1>1, SessionFacts, WaitsOf
  <2>3. Start("", "resync", s) \in ThreadRec /\ session[s].waits \in SUBSET Waiters
    BY <2>2, SessionRange DEF Start, Resting, ThreadRec, Operations, Counters, SessionRec
  <2>4. Start("", "resync", s).calls = {} /\ Start("", "resync", s).op = "resync"
        /\ Start("", "resync", s).pc = ""
    BY DEF Start, Resting
  <2>5. /\ next \in ThreadRec /\ next.calls = {} /\ next.op = "resync"
        /\ next.saved = session[s].waits
    BY <2>3, <2>4 DEF ThreadRec
  <2> HIDE DEF s, H, next
  <2>6. TakesOver(Loop, s, Inactive(session[s]), next)
    BY <1>1, <1>2, <1>4, <2>2, <2>5 DEF TakesOver, Ends
  <2> QED
    BY <1>1, <2>1, <2>2, <2>5, <2>6, BecomeMoves
<1> QED
  BY <1>3, <1>4

(* A step that only sends thread t elsewhere, with what it held.            *)
LEMMA HeldOn ==
  ASSUME IInv, CallbacksKept, NEW t \in AllThreads, NEW next,
         thread' = [thread EXCEPT ![t] = next],
         next.calls = thread[t].calls, next.saved = thread[t].saved, MayHold(t, next),
         \A s \in Sessions : session'[s].waits = session[s].waits,
         waiter' = waiter
  PROVE  CallbacksKept'
<1>1. thread \in [AllThreads -> ThreadRec]
  BY DEF IInv, Types
<1>2. \A u \in AllThreads : /\ thread'[u].calls = thread[u].calls
                            /\ thread'[u].saved = thread[u].saved
                            /\ MayHold(u, thread'[u])
  BY <1>1 DEF CallbacksKept, HoldsCallbacks, MayHold
<1> QED
  BY <1>2, NoneMoved

LEMMA EmptyHanded ==
  ASSUME IInv, CallbacksKept, NEW t \in AllThreads, NEW next,
         thread' = [thread EXCEPT ![t] = next], next.calls = {}, next.saved = {},
         thread[t].pc \notin {"unregistering", "checked", "telling", "puttingBack"},
         \A s \in Sessions : session'[s].waits = session[s].waits,
         waiter' = waiter
  PROVE  CallbacksKept'
<1>1. thread[t].calls = {} /\ thread[t].saved = {}
  BY HoldsNothing
<1>2. MayHold(t, next)
  BY DEF MayHold
<1> QED
  BY <1>1, <1>2, HeldOn

LEMMA LeaveMoves ==
  ASSUME IInv, CallbacksKept, NEW t \in AllThreads, leaveRegistered(t)
  PROVE  CallbacksKept'
<1> DEFINE next == [thread[t] EXCEPT !.pc = "telling"]
           off == [next EXCEPT !.pc = "unregistering", !.s = map]
           f == Closed(session[map])
<1>1. thread[t] \in ThreadRec /\ thread[t].pc = "checked" /\ waiter' = waiter
  BY WhereThreadIs DEF leaveRegistered, At
<1>2. Made(map)
  BY <1>1 DEF IInv, Mutexes, SessionMutexOf, InUse
<1>3. /\ next \in ThreadRec /\ next.calls = thread[t].calls /\ next.saved = thread[t].saved
      /\ next.op = thread[t].op /\ next.pc = "telling"
  BY <1>1 DEF ThreadRec, Counters
<1>4. MayHold(t, next) /\ (next.saved # {} => t = Loop /\ next.op = "resync")
  BY <1>1, <1>3 DEF CallbacksKept, HoldsCallbacks, MayHold
<1>5. /\ off.calls = thread[t].calls /\ off.saved = thread[t].saved /\ MayHold(t, off)
  <2>1. /\ off.calls = next.calls /\ off.saved = next.saved /\ off.op = next.op
        /\ off.pc = "unregistering"
    BY <1>1 DEF ThreadRec
  <2> HIDE DEF off, next
  <2> QED
    BY <1>3, <1>4, <2>1 DEF MayHold
<1>6. CASE becomeWith(registered, t, map, f, next)
  <2>1. map \in Sessions /\ f \in SessionRec /\ GivesUp(map, f)
    BY <1>2, SessionFacts, GivenUp
  <2> HIDE DEF f, next
  <2>2. TakesOver(t, map, f, next)
    BY <1>3, <1>4, <2>1 DEF GivesUp, TakesOver, Ends
  <2> QED
    BY <1>1, <1>3, <1>6, <2>1, <2>2, BecomeMoves
<1>7. CASE UNCHANGED session /\ thread' = [thread EXCEPT ![t] = next]
  <2> HIDE DEF next
  <2> QED
    BY <1>1, <1>3, <1>4, <1>7, HeldOn
<1>8. CASE UNCHANGED session /\ thread' = [thread EXCEPT ![t] = off]
  <2> HIDE DEF off
  <2> QED
    BY <1>1, <1>5, <1>8, HeldOn
<1>9. \/ becomeWith(registered, t, map, f, next)
      \/ UNCHANGED session /\ thread' = [thread EXCEPT ![t] = next]
      \/ UNCHANGED session /\ thread' = [thread EXCEPT ![t] = off]
  BY DEF leaveRegistered, close, become
<1> QED
  BY <1>6, <1>7, <1>8, <1>9
------------------------------------------------------------------------------
(* Sessions are made in the order of their numbers, and one that is not     *)
(* made yet is as it was in the beginning.                                  *)
MadeUpTo(k) == \A s \in Sessions : session[s].state # "none" <=> s =< k
MadeInOrder ==
  /\ \E k \in 0 .. MaxSession : MadeUpTo(k)
  /\ \A s \in Sessions : session[s].state = "none" => session[s] = NoSession

(* The session that get_session makes next.                                 *)
LEMMA NextToMake ==
  ASSUME IInv, MadeInOrder, NEW k \in 0 .. MaxSession, MadeUpTo(k)
  PROVE  Cardinality({i \in Sessions : session[i].state # "none"}) + 1 = k + 1
<1> USE SyncAssumption DEF SyncAssumption
<1>1. {i \in Sessions : session[i].state # "none"} = 1 .. k
  BY DEF MadeUpTo, Sessions
<1>2. Cardinality(1 .. k) = k
  BY FS_Interval
<1> QED
  BY <1>1, <1>2

(* A step that changes a session changes one that is made, or no session.   *)
ChangesMade ==
  \/ session' = session
  \/ \E s \in Sessions : \E g :
       Made(s) /\ g.state # "none" /\ session' = [session EXCEPT ![s] = g]

LEMMA ChangesKeepOrder == ASSUME IInv, MadeInOrder, ChangesMade PROVE MadeInOrder'
<1>1. \A s \in Sessions : /\ session'[s].state = "none" <=> session[s].state = "none"
                          /\ session[s].state = "none" => session'[s] = session[s]
  BY DEF IInv, Types, ChangesMade, Made
<1> QED
  BY <1>1 DEF MadeInOrder, MadeUpTo

LEMMA BecomeChangesMade ==
  ASSUME IInv, NEW s \in Sessions, NEW f \in SessionRec, Made(s), f.state # "none",
         NEW H, NEW t, NEW next, becomeWith(H, t, s, f, next)
  PROVE  ChangesMade
<1>1. PICK g \in {f, [f EXCEPT !.owes = unsent]} : session' = [session EXCEPT ![s] = g]
  BY DEF becomeWith
<1>2. g.state # "none"
  BY <1>1 DEF SessionRec
<1> QED
  BY <1>1, <1>2 DEF ChangesMade

(* A change of what waits at a session.                                     *)
LEMMA WaitsChangeMade ==
  ASSUME IInv, NEW s \in Sessions, Made(s), NEW W,
         session' = [session EXCEPT ![s].waits = W]
  PROVE  ChangesMade
<1>1. session[s] \in SessionRec /\ session \in [Sessions -> SessionRec]
  BY DEF IInv, Types
<1>2. session' = [session EXCEPT ![s] = [session[s] EXCEPT !.waits = W]]
  BY <1>1
<1>3. [session[s] EXCEPT !.waits = W].state = session[s].state
  BY <1>1 DEF SessionRec
<1> QED
  BY <1>2, <1>3 DEF ChangesMade, Made

(* What the steps of the app's threads do to the sessions.                  *)
LEMMA AppChangesMade ==
  ASSUME IInv, NEW t \in AllThreads, NEW s \in Sessions
  PROVE  /\ suspend(t, s) => ChangesMade
         /\ refreshAccessToken(t, s) => ChangesMade
         /\ tokenFails(t, s) => ChangesMade
         /\ \A w \in Waiters : waitForCompletion(t, w, s) => ChangesMade
         /\ dropReference(t, s) \/ resume(t, s) \/ updateConfiguration(t, s) => ChangesMade
<1>1. ASSUME suspend(t, s) PROVE ChangesMade
  <2>1. Made(s) /\ becomeWith(registered, t, s, Inactive(session[s]), Resting)
    BY <1>1, AliveIsMade DEF suspend, become
  <2> QED
    BY <2>1, SessionFacts, BecomeChangesMade
<1>2. ASSUME refreshAccessToken(t, s) PROVE ChangesMade
  <2> DEFINE active == [session[s] EXCEPT !.state = "active", !.under = TRUE]
             f == IF session[s].state # "waiting" THEN session[s]
                  ELSE IF session[s].deferredClose THEN Closed(active) ELSE active
  <2>1. Made(s) /\ becomeWith(registered, t, s, f, Resting)
    BY <1>2 DEF refreshAccessToken, become, IInv, InUse
  <2>0. session[s] \in SessionRec
    BY <2>1, SessionFacts
  <2>2. active \in SessionRec /\ active.state = "active" /\ active.under
    BY <2>0 DEF SessionRec
  <2>3. Closed(active) \in SessionRec /\ Closed(active).state # "none"
    BY <2>2, ClosedRecord
  <2>4. f \in SessionRec /\ f.state # "none"
    BY <2>1, <2>2, <2>3, SessionFacts
  <2> HIDE DEF f
  <2> QED
    BY <2>1, <2>4, BecomeChangesMade
<1>3. ASSUME tokenFails(t, s) PROVE ChangesMade
  <2> DEFINE f == IF session[s].state = "inactive" THEN session[s] ELSE Inactive(session[s])
  <2>1. Made(s) /\ becomeWith(registered, t, s, f, Resting)
    BY <1>3 DEF tokenFails, become, IInv, InUse
  <2>2. f \in SessionRec /\ f.state # "none"
    BY <2>1, SessionFacts
  <2> HIDE DEF f
  <2> QED
    BY <2>1, <2>2, BecomeChangesMade
<1>4. ASSUME NEW w \in Waiters, waitForCompletion(t, w, s) PROVE ChangesMade
  <2>1. Made(s) /\ session' = [session EXCEPT ![s].waits = @ \cup {w}]
    BY <1>4, AliveIsMade DEF waitForCompletion
  <2>2. session' = [session EXCEPT ![s].waits = session[s].waits \cup {w}]
    BY <2>1
  <2> QED
    BY <2>1, <2>2, WaitsChangeMade
<1>5. ASSUME dropReference(t, s) \/ resume(t, s) \/ updateConfiguration(t, s) PROVE ChangesMade
  BY <1>5 DEF dropReference, resume, updateConfiguration, ChangesMade
<1> QED
  BY <1>1, <1>2, <1>3, <1>4, <1>5

LEMMA ThreadChangesMade ==
  ASSUME IInv, NEW t \in AllThreads
  PROVE  /\ didDropExternalReference(t) => ChangesMade
         /\ logOutSession(t) => ChangesMade
         /\ \A p \in Policies, resync \in BOOLEAN : configure(t, p, resync) => ChangesMade
         /\ reviveIfNeeded(t) => ChangesMade
         /\ leaveRegistered(t) => ChangesMade
         /\ \/ registerSession(t) \/ giveReference(t) \/ logOut(t) \/ putInWaiting(t)
            \/ logIn(t) \/ reconnect(t) \/ commit(t) \/ unregisterSession(t) \/ tell(t)
            => ChangesMade
<1> DEFINE s == thread[t].s
           f == IF session[s].state = "inactive" THEN session[s] ELSE Inactive(session[s])
<1>1. ASSUME didDropExternalReference(t) PROVE ChangesMade
  <2>1. Made(s)
    BY <1>1, WhereThreadIs DEF didDropExternalReference, At
  <2>2. session' = session \/ becomeWith(registered, t, s, Closed(session[s]), Resting)
    BY <1>1 DEF didDropExternalReference, close, become
  <2>3. Closed(session[s]) \in SessionRec /\ Closed(session[s]).state # "none" /\ s \in Sessions
    BY <2>1, SessionFacts DEF MayBecome
  <2> QED
    BY <2>1, <2>2, <2>3, BecomeChangesMade DEF ChangesMade
<1>2. ASSUME Made(s) PROVE s \in Sessions /\ f \in SessionRec /\ f.state # "none"
  BY <1>2, SessionFacts DEF MayBecome
<1>3. ASSUME logOutSession(t) PROVE ChangesMade
  <2>1. Made(s) /\ becomeWith(registered, t, s, f, [thread[t] EXCEPT !.pc = "loggedOut"])
    BY <1>3, WhereThreadIs DEF logOutSession, At, become
  <2> HIDE DEF f, s
  <2> QED
    BY <1>2, <2>1, BecomeChangesMade
<1>4. ASSUME NEW p \in Policies, NEW resync \in BOOLEAN, configure(t, p, resync)
      PROVE  ChangesMade
  <2> DEFINE next == IF session[s].state = "inactive" THEN Start("reviving", "", s) ELSE thread[t]
  <2>1. Made(s) /\ becomeWith(registered, t, s, Configured(s, p, resync), next)
    BY <1>4, WhereThreadIs DEF configure, At, become, Configured
  <2> HIDE DEF f, s, next
  <2>2. Configured(s, p, resync) \in SessionRec /\ Configured(s, p, resync).state # "none"
    BY <2>1, ConfiguredFacts DEF MayBecome
  <2> QED
    BY <1>2, <2>1, <2>2, BecomeChangesMade
<1>5. ASSUME reviveIfNeeded(t) PROVE ChangesMade
  <2> DEFINE next == IF thread[t].op \in {"get", "create"}
                     THEN [thread[t] EXCEPT !.pc = "registered"] ELSE Resting
  <2>1. Made(s) /\ becomeWith(registered, t, s, Revived(session[s]), next)
    BY <1>5, WhereThreadIs DEF reviveIfNeeded, At, become
  <2>2. s \in Sessions /\ Revived(session[s]) \in SessionRec /\ Revived(session[s]).state # "none"
    BY <2>1, SessionFacts DEF MayBecome
  <2> HIDE DEF s, next
  <2> QED
    BY <2>1, <2>2, BecomeChangesMade
<1>6. ASSUME leaveRegistered(t) PROVE ChangesMade
  <2>1. Made(map)
    BY <1>6 DEF leaveRegistered, At, IInv, Mutexes, SessionMutexOf, InUse
  <2>2. session' = session
        \/ becomeWith(registered, t, map, Closed(session[map]), [thread[t] EXCEPT !.pc = "telling"])
    BY <1>6 DEF leaveRegistered, close, become
  <2>3. /\ map \in Sessions /\ Closed(session[map]) \in SessionRec
        /\ Closed(session[map]).state # "none"
    BY <2>1, SessionFacts DEF MayBecome
  <2> QED
    BY <2>1, <2>2, <2>3, BecomeChangesMade DEF ChangesMade
<1>7. ASSUME \/ registerSession(t) \/ giveReference(t) \/ logOut(t) \/ putInWaiting(t)
             \/ logIn(t) \/ reconnect(t) \/ commit(t) \/ unregisterSession(t) \/ tell(t)
      PROVE  ChangesMade
  BY <1>7 DEF registerSession, giveReference, logOut, putInWaiting, logIn, reconnect, commit,
              unregisterSession, tell, ChangesMade
<1> QED
  BY <1>1, <1>3, <1>4, <1>5, <1>6, <1>7

LEMMA LoopChangesMade ==
  ASSUME IInv
  PROVE  /\ errorWhileDying => ChangesMade
         /\ handleError => ChangesMade
         /\ endSession => ChangesMade
         /\ resyncSession => ChangesMade
         /\ putBackWaits => ChangesMade
         /\ invalidateUser => ChangesMade
         /\ \A s \in Sessions, error \in Errors : hearError(s, error) => ChangesMade
         /\ \A h \in registered : waitCompletes(h) => ChangesMade
         /\ \A h \in registered : deathCompletes(h) => ChangesMade
<1> DEFINE s == thread[Loop].s
           ended == Inactive(session[s])
<1>1. ASSUME thread[Loop].pc \notin {"idle", "loggedOut"}
      PROVE  /\ Made(s) /\ s \in Sessions /\ session[s] \in SessionRec /\ ended \in SessionRec
             /\ session[s].state # "none" /\ ended.state # "none"
  <2>1. Made(s)
    BY <1>1, WhereThreadIs DEF AllThreads
  <2> QED
    BY <2>1, SessionFacts
<1>2. ASSUME errorWhileDying PROVE ChangesMade
  <2> DEFINE f == IF thread[Loop].op = "expired" THEN session[s] ELSE ended
  <2>1. thread[Loop].pc = "error" /\ becomeWith(registered, Loop, s, f, Resting)
    BY <1>2 DEF errorWhileDying, At, become
  <2>2. f \in SessionRec /\ f.state # "none"
    BY <1>1, <2>1
  <2> HIDE DEF f, s
  <2> QED
    BY <1>1, <2>1, <2>2, BecomeChangesMade
<1>3. ASSUME handleError PROVE ChangesMade
  <2> DEFINE waiting == [session[s] EXCEPT !.state = "waiting", !.deferredClose = FALSE]
  <2>1. thread[Loop].pc = "error"
    BY <1>3 DEF handleError, At
  <2>2. waiting \in SessionRec /\ waiting.state = "waiting"
    BY <1>1, <2>1 DEF SessionRec
  <2>3. thread[Loop].op \in {"expired", "fatal", "badAuth", "reset", "denied"}
    BY <2>1, SyncAssumption, WhereThreadIs DEF ThreadRec, SyncAssumption, AllThreads
  <2>4. \/ session' = session
        \/ becomeWith(registered, Loop, s, waiting, Resting)
        \/ session' = [session EXCEPT ![s].waits = {}]
    BY <1>3, <2>3 DEF handleError, become
  <2> HIDE DEF waiting, s
  <2> QED
    BY <1>1, <2>1, <2>2, <2>4, BecomeChangesMade, WaitsChangeMade DEF ChangesMade
<1>4. ASSUME endSession PROVE ChangesMade
  <2> DEFINE f == IF aborted' = "" THEN ended ELSE session[s]
  <2>1. thread[Loop].pc = "ending" /\ becomeWith(registered, Loop, s, f, Resting)
    BY <1>4 DEF endSession, At, become
  <2>2. f \in SessionRec /\ f.state # "none"
    BY <1>1, <2>1
  <2> HIDE DEF f, s
  <2> QED
    BY <1>1, <2>1, <2>2, BecomeChangesMade
<1>5. ASSUME resyncSession PROVE ChangesMade
  <2>1. /\ thread[Loop].pc = "resyncing"
        /\ \/ session' = session
           \/ becomeWith(registered \ Outdated("wait", s), Loop, s, ended,
                         [Start("", "resync", s) EXCEPT !.saved = session[s].waits])
    BY <1>5 DEF resyncSession, At
  <2> HIDE DEF s, ended
  <2> QED
    BY <1>1, <2>1, BecomeChangesMade DEF ChangesMade
<1>6. ASSUME putBackWaits PROVE ChangesMade
  <2>1. /\ thread[Loop].pc = "puttingBack"
        /\ session' = [session EXCEPT ![s].waits = thread[Loop].saved]
    BY <1>6 DEF putBackWaits, At
  <2> QED
    BY <1>1, <2>1, WaitsChangeMade
<1>7. ASSUME NEW h \in registered PROVE Made(h.s) /\ h.s \in Sessions
  BY <1>7 DEF IInv, InUse, Made
<1>8. ASSUME NEW h \in registered, waitCompletes(h) PROVE ChangesMade
  <2>1. session' = session \/ session' = [session EXCEPT ![h.s].waits = {}]
    BY <1>8 DEF waitCompletes
  <2> QED
    BY <1>7, <2>1, WaitsChangeMade DEF ChangesMade
<1>9. ASSUME NEW h \in registered, deathCompletes(h) PROVE ChangesMade
  <2> DEFINE f == IF IsAlive(h.s) /\ session[h.s].state = "dying" THEN Inactive(session[h.s])
                  ELSE session[h.s]
  <2>1. becomeWith(registered \ {h}, Loop, h.s, f, Resting)
    BY <1>9 DEF deathCompletes
  <2>2. f \in SessionRec /\ f.state # "none"
    BY <1>7, SessionFacts
  <2> HIDE DEF f
  <2> QED
    BY <1>7, <2>1, <2>2, BecomeChangesMade
<1>10. ASSUME invalidateUser PROVE ChangesMade
  BY <1>10 DEF invalidateUser, ChangesMade
<1>11. ASSUME NEW x \in Sessions, NEW error \in Errors, hearError(x, error) PROVE ChangesMade
  BY <1>11 DEF hearError, ChangesMade
<1> QED
  BY <1>2, <1>3, <1>4, <1>5, <1>6, <1>8, <1>9, <1>10, <1>11

LEMMA GetKeepsOrder ==
  ASSUME IInv, MadeInOrder, NEW t \in Threads, NEW p \in Policies, NEW resync \in BOOLEAN,
         getSession(t, p, resync)
  PROVE  /\ MadeInOrder'
         /\ \A s \in Sessions : session'[s].waits = session[s].waits
         /\ \A s \in Sessions : session'[s].state = session[s].state
                                \/ (session[s].state = "none" /\ session'[s].state = "inactive")
<1> USE SyncAssumption DEF SyncAssumption
<1> DEFINE s == Cardinality({i \in Sessions : session[i].state # "none"}) + 1
           new == [NoSession EXCEPT !.state = "inactive", !.policy = p, !.resync = resync]
<1>1. session \in [Sessions -> SessionRec]
  BY DEF IInv, Types
<1>2. PICK k \in 0 .. MaxSession : MadeUpTo(k)
  BY DEF MadeInOrder
<1>3. s = k + 1
  BY <1>2, NextToMake
<1>4. new.state = "inactive" /\ new.waits = NoSession.waits
  BY DEF NoSession
<1>5. session' = session \/ (s \in Sessions /\ session' = [session EXCEPT ![s] = new])
  BY DEF getSession
<1> HIDE DEF s, new
<1>8. \/ session' = session
      \/ k + 1 \in Sessions /\ session' = [session EXCEPT ![k + 1] = new]
  BY <1>3, <1>5
<1>6. CASE session' = session
  BY <1>6 DEF MadeInOrder, MadeUpTo
<1>7. CASE k + 1 \in Sessions /\ session' = [session EXCEPT ![k + 1] = new]
  <2>1. session[k + 1] = NoSession /\ session[k + 1].state = "none"
    BY <1>2, <1>7 DEF MadeInOrder, MadeUpTo, Sessions
  <2>2. session'[k + 1] = new /\ \A r \in Sessions : r # k + 1 => session'[r] = session[r]
    BY <1>1, <1>7
  <2>3. k + 1 \in 0 .. MaxSession
    BY <1>7 DEF Sessions
  <2>4. MadeUpTo(k + 1)'
    <3> SUFFICES ASSUME NEW r \in Sessions PROVE session'[r].state # "none" <=> r =< k + 1
      BY DEF MadeUpTo
    <3>1. CASE r = k + 1
      BY <1>4, <2>2, <3>1 DEF Sessions
    <3>2. CASE r # k + 1
      BY <1>2, <2>2, <3>2 DEF MadeUpTo, Sessions
    <3> QED
      BY <3>1, <3>2
  <2>5. \A r \in Sessions : session'[r].state = "none" => session'[r] = NoSession
    BY <1>4, <2>2 DEF MadeInOrder
  <2>6. MadeInOrder'
    BY <2>3, <2>4, <2>5 DEF MadeInOrder
  <2> QED
    BY <1>4, <2>1, <2>2, <2>6
<1> QED
  BY <1>6, <1>7, <1>8

LEMMA UploadKeepsOrder ==
  ASSUME IInv, MadeInOrder, upload
  PROVE  /\ MadeInOrder'
         /\ \A s \in Sessions : /\ session'[s].waits = session[s].waits
                                /\ session'[s].state = session[s].state
<1>1. session \in [Sessions -> SessionRec]
  BY DEF IInv, Types
<1>2. ASSUME NEW f \in SessionRec
      PROVE  /\ [f EXCEPT !.owes = FALSE].waits = f.waits
             /\ [f EXCEPT !.owes = FALSE].state = f.state
             /\ ~f.owes => [f EXCEPT !.owes = FALSE] = f
  BY DEF SessionRec
<1>3. \A s \in Sessions : session'[s] = [session[s] EXCEPT !.owes = FALSE]
  BY DEF upload
<1>4. \A s \in Sessions : /\ session'[s].waits = session[s].waits
                          /\ session'[s].state = session[s].state
                          /\ ~session[s].owes => session'[s] = session[s]
  BY <1>1, <1>2, <1>3
<1>5. ~NoSession.owes
  BY DEF NoSession
<1>6. MadeInOrder'
  BY <1>4, <1>5 DEF MadeInOrder, MadeUpTo
<1> QED
  BY <1>4, <1>6

(* Every step makes at most the next session and unmakes none.              *)
LEMMA NextKeepsOrder == IInv /\ MadeInOrder /\ [Next]_vars => MadeInOrder'
<1> SUFFICES ASSUME IInv, MadeInOrder, [Next]_vars PROVE MadeInOrder'
  OBVIOUS
<1>1. ASSUME ChangesMade PROVE MadeInOrder'
  BY <1>1, ChangesKeepOrder
<1>2. ASSUME NEW t \in Threads, appStep(t) PROVE MadeInOrder'
  <2>1. t \in AllThreads
    BY DEF AllThreads
  <2>2. CASE \E p \in Policies, resync \in BOOLEAN :
               getSession(t, p, resync) \/ configure(t, p, resync)
    BY <1>1, <2>1, <2>2, GetKeepsOrder, ThreadChangesMade
  <2>3. CASE \/ registerSession(t) \/ giveReference(t) \/ didDropExternalReference(t)
             \/ logOut(t) \/ logOutSession(t) \/ putInWaiting(t) \/ logIn(t)
             \/ reconnect(t) \/ commit(t)
    BY <1>1, <2>1, <2>3, ThreadChangesMade
  <2>4. ASSUME NEW s \in Sessions,
               \/ dropReference(t, s) \/ suspend(t, s) \/ resume(t, s)
               \/ updateConfiguration(t, s) \/ refreshAccessToken(t, s) \/ tokenFails(t, s)
               \/ \E w \in Waiters : waitForCompletion(t, w, s)
        PROVE  MadeInOrder'
    BY <1>1, <2>1, <2>4, AppChangesMade
  <2> QED
    BY <1>2, <2>2, <2>3, <2>4 DEF appStep
<1>3. ASSUME NEW t \in AllThreads, anyStep(t) PROVE MadeInOrder'
  BY <1>1, <1>3, ThreadChangesMade DEF anyStep
<1>4. ASSUME loopStep PROVE MadeInOrder'
  BY <1>1, <1>4, UploadKeepsOrder, LoopChangesMade DEF loopStep
<1>5. CASE UNCHANGED vars
  BY <1>1, <1>5 DEF vars, ChangesMade
<1> QED
  BY <1>2, <1>3, <1>4, <1>5 DEF Next

LEMMA InitInOrder == Init => MadeInOrder
<1> SUFFICES ASSUME Init PROVE MadeInOrder
  OBVIOUS
<1>1. \A s \in Sessions : session[s] = NoSession
  BY DEF Init
<1>2. NoSession.state = "none"
  BY DEF NoSession
<1>3. 0 \in 0 .. MaxSession /\ \A s \in Sessions : ~(s =< 0)
  BY SyncAssumption DEF SyncAssumption, Sessions
<1> QED
  BY <1>1, <1>2, <1>3 DEF MadeInOrder, MadeUpTo
------------------------------------------------------------------------------
(* The steps that leave the callbacks where they are.                       *)
LEMMA StartMoves ==
  ASSUME IInv, CallbacksKept, NEW t \in AllThreads, NEW pc, NEW op, NEW s,
         \/ thread' = [thread EXCEPT ![t] = Start(pc, op, s)]
         \/ thread' = [thread EXCEPT ![t] = Resting],
         thread[t].pc \in {"idle", "registered", "loggedOut", "invalidating"},
         \A x \in Sessions : session'[x].waits = session[x].waits,
         waiter' = waiter
  PROVE  CallbacksKept'
  BY StartHolds, RestingHolds, EmptyHanded

LEMMA GetMoves ==
  ASSUME IInv, CallbacksKept, MadeInOrder, NEW t \in Threads, NEW p \in Policies,
         NEW resync \in BOOLEAN, getSession(t, p, resync)
  PROVE  CallbacksKept'
<1> DEFINE s == Cardinality({i \in Sessions : session[i].state # "none"}) + 1
<1>1. \A x \in Sessions : session'[x].waits = session[x].waits
  BY GetKeepsOrder
<1>2. /\ waiter' = waiter /\ thread[t].pc = "idle" /\ t \in AllThreads
      /\ \/ thread' = [thread EXCEPT ![t] = Start("registering", "get", map)]
         \/ thread' = [thread EXCEPT ![t] = Start("registering", "create", s)]
  BY DEF getSession, IsIdle, At, AllThreads
<1> HIDE DEF s
<1> QED
  BY <1>1, <1>2, StartMoves

LEMMA ElsewhereMoves ==
  ASSUME IInv, CallbacksKept, NEW t \in AllThreads,
         \/ giveReference(t) \/ logOut(t) \/ putInWaiting(t) \/ logIn(t)
         \/ \E s \in Sessions :
              dropReference(t, s) \/ resume(t, s) \/ updateConfiguration(t, s)
         \/ t = Loop /\ (invalidateUser \/ \E s \in Sessions, error \in Errors : hearError(s, error))
  PROVE  CallbacksKept'
<1>1. CASE giveReference(t) \/ putInWaiting(t) \/ (t = Loop /\ invalidateUser)
  <2>1. /\ session' = session /\ waiter' = waiter
        /\ thread[t].pc \in {"registered", "loggedOut", "invalidating"}
        /\ thread' = [thread EXCEPT ![t] = Resting]
    BY <1>1 DEF giveReference, putInWaiting, invalidateUser, At
  <2> QED
    BY <2>1, StartMoves
<1>2. CASE logOut(t)
  <2>1. /\ session' = session /\ waiter' = waiter /\ thread[t].pc = "idle"
        /\ \/ thread' = [thread EXCEPT ![t] = Start("loggingOut", "logOut", user.session)]
           \/ thread' = [thread EXCEPT ![t] = Start("loggedOut", "logOut", 0)]
    BY <1>2 DEF logOut, IsIdle, At
  <2> QED
    BY <2>1, StartMoves
<1>3. CASE logIn(t)
  <2>1. /\ session' = session /\ waiter' = waiter /\ thread[t].pc = "idle"
        /\ \/ thread' = [thread EXCEPT ![t] = Start("reviving", "", user.waiting)]
           \/ thread' = [thread EXCEPT ![t] = Resting]
    BY <1>3 DEF logIn, IsIdle, At
  <2> QED
    BY <2>1, StartMoves
<1>4. ASSUME NEW s \in Sessions, dropReference(t, s) \/ resume(t, s) \/ updateConfiguration(t, s)
      PROVE  CallbacksKept'
  <2>1. /\ session' = session /\ waiter' = waiter /\ thread[t].pc = "idle"
        /\ \/ thread' = [thread EXCEPT ![t] = Start("dropped", "", s)]
           \/ thread' = [thread EXCEPT ![t] = Start("reviving", "", s)]
           \/ thread' = [thread EXCEPT ![t] = Start("configuring", "config", s)]
           \/ thread' = [thread EXCEPT ![t] = Resting]
    BY <1>4 DEF dropReference, resume, updateConfiguration, IsIdle, At, InSession
  <2> QED
    BY <2>1, StartMoves
<1>5. ASSUME NEW s \in Sessions, NEW error \in Errors, t = Loop, hearError(s, error)
      PROVE  CallbacksKept'
  <2>1. /\ session' = session /\ waiter' = waiter /\ thread[t].pc = "idle"
        /\ thread' = [thread EXCEPT ![t] = Start("error", error, s)]
    BY <1>5 DEF hearError, IsIdle, At, InSession
  <2> QED
    BY <2>1, StartMoves
<1> QED
  BY <1>1, <1>2, <1>3, <1>4, <1>5

LEMMA RegisterMoves ==
  ASSUME IInv, CallbacksKept, NEW t \in AllThreads, registerSession(t)
  PROVE  CallbacksKept'
<1> DEFINE pc == IF user.state = "Active" THEN "reviving" ELSE "registered"
           next == [thread[t] EXCEPT !.pc = pc]
<1>1. /\ session' = session /\ waiter' = waiter /\ thread[t].pc = "registering"
      /\ thread[t] \in ThreadRec /\ thread' = [thread EXCEPT ![t] = next]
  BY WhereThreadIs DEF registerSession, At, IInv, Types
<1>2. thread[t].calls = {} /\ thread[t].saved = {}
  BY <1>1, HoldsNothing
<1>3. next.calls = {} /\ next.saved = {}
  BY <1>1, <1>2 DEF ThreadRec
<1> HIDE DEF next
<1> QED
  BY <1>1, <1>3, EmptyHanded

LEMMA UnregisterMoves ==
  ASSUME IInv, CallbacksKept, NEW t \in AllThreads, unregisterSession(t)
  PROVE  CallbacksKept'
<1>1. /\ session' = session /\ waiter' = waiter /\ thread[t].pc = "unregistering"
      /\ thread[t] \in ThreadRec /\ MayHold(t, thread[t])
  BY WhereThreadIs DEF unregisterSession, At, IInv, Types, CallbacksKept, HoldsCallbacks
<1>2. PICK pc \in {"checked", "telling"} : thread' = [thread EXCEPT ![t].pc = pc]
  BY DEF unregisterSession
<1> DEFINE next == [thread[t] EXCEPT !.pc = pc]
<1>3. thread' = [thread EXCEPT ![t] = next]
  BY <1>2
<1>4. /\ next.calls = thread[t].calls /\ next.saved = thread[t].saved
      /\ next.op = thread[t].op /\ next.pc = pc
  BY <1>1 DEF ThreadRec
<1> HIDE DEF next
<1>5. MayHold(t, next)
  BY <1>1, <1>4 DEF MayHold
<1> QED
  BY <1>1, <1>3, <1>4, <1>5, HeldOn

LEMMA StillMoves ==
  ASSUME IInv, CallbacksKept, MadeInOrder, NEW t \in AllThreads,
         reconnect(t) \/ commit(t) \/ upload \/ UNCHANGED vars
  PROVE  CallbacksKept'
<1>1. thread' = thread /\ waiter' = waiter
  BY DEF reconnect, commit, upload, vars, InSession
<1>2. \A s \in Sessions : session'[s].waits = session[s].waits
  BY UploadKeepsOrder DEF reconnect, commit, vars
<1> QED
  BY <1>1, <1>2, NoneMoved DEF CallbacksKept, HoldsCallbacks
------------------------------------------------------------------------------
(* The steps that move callbacks.                                           *)

(* A callback is handed in.                                                 *)
LEMMA WaitMoves ==
  ASSUME IInv, CallbacksKept, NEW t \in AllThreads, NEW w \in Waiters, NEW s \in Sessions,
         waitForCompletion(t, w, s)
  PROVE  CallbacksKept'
<1>1. session \in [Sessions -> SessionRec] /\ session[s] \in SessionRec
  BY DEF IInv, Types
<1>2. /\ session' = [session EXCEPT ![s].waits = session[s].waits \cup {w}]
      /\ waiter' = [waiter EXCEPT ![w] = "queued"] /\ waiter[w] = "new" /\ thread' = thread
  BY DEF waitForCompletion
<1>3. /\ session'[s].waits = session[s].waits \cup {w}
      /\ \A r \in Sessions : r # s => session'[r] = session[r]
  BY <1>1, <1>2 DEF SessionRec
<1>4. HoldsCallbacks'
  BY <1>2 DEF CallbacksKept, HoldsCallbacks, MayHold
<1>5. waiter' \in [Waiters -> Waiting \cup {"new", "told", "lost"}]
  BY <1>2 DEF CallbacksKept, Waiting
<1>6. ASSUME NEW v \in Waiters PROVE Apart(v)' /\ Kept(v)'
  <2>1. Apart(v) /\ Kept(v)
    BY DEF CallbacksKept
  <2>2. CASE v = w
    <3>1. /\ \A r \in Sessions : v \notin session[r].waits
          /\ \A u \in AllThreads : v \notin thread[u].calls /\ v \notin thread[u].saved
      BY <1>2, <2>1, <2>2 DEF Kept, Waiting
    <3>2. \A r \in Sessions : v \in session'[r].waits <=> r = s
      BY <1>3, <2>2, <3>1
    <3>3. Apart(v)'
      BY <1>2, <3>1, <3>2 DEF Apart
    <3>4. waiter'[v] = "queued"
      BY <1>2, <2>2 DEF CallbacksKept
    <3> QED
      BY <3>2, <3>3, <3>4 DEF Kept, Waiting
  <2>3. CASE v # w
    <3>1. \A r \in Sessions : v \in session'[r].waits <=> v \in session[r].waits
      BY <1>3, <2>3
    <3>2. waiter'[v] = waiter[v]
      BY <1>2, <2>3 DEF CallbacksKept
    <3> QED
      BY <1>2, <2>1, <3>1, <3>2 DEF Apart, Kept
  <2> QED
    BY <2>2, <2>3
<1> QED
  BY <1>4, <1>5, <1>6 DEF CallbacksKept

(* The callbacks that wait at session s are taken by t, which holds none,   *)
(* to be called.                                                            *)
LEMMA TakenToTell ==
  ASSUME IInv, CallbacksKept, NEW t \in AllThreads, NEW s \in Sessions, NEW next,
         session' = [session EXCEPT ![s].waits = {}],
         thread' = [thread EXCEPT ![t] = next],
         next.calls = session[s].waits, next.saved = {}, next.pc = "telling",
         thread[t].calls = {}, thread[t].saved = {}, waiter' = waiter
  PROVE  CallbacksKept'
<1>1. session \in [Sessions -> SessionRec] /\ thread \in [AllThreads -> ThreadRec]
  BY DEF IInv, Types
<1>2. session'[s].waits = {} /\ \A r \in Sessions : r # s => session'[r] = session[r]
  <2>1. session'[s] = [session[s] EXCEPT !.waits = {}] /\ session[s] \in SessionRec
    BY <1>1
  <2>2. \A r \in Sessions : r # s => session'[r] = session[r]
    BY <1>1
  <2>3. \A g \in SessionRec : [g EXCEPT !.waits = {}].waits = {}
    BY DEF SessionRec
  <2> QED
    BY <2>1, <2>2, <2>3
<1>3. thread'[t] = next /\ \A u \in AllThreads : u # t => thread'[u] = thread[u]
  BY <1>1
<1>4. HoldsCallbacks'
  BY <1>3 DEF CallbacksKept, HoldsCallbacks, MayHold
<1>5. ASSUME NEW w \in Waiters PROVE Apart(w)' /\ Kept(w)'
  <2>1. Apart(w) /\ Kept(w)
    BY DEF CallbacksKept
  <2>2. CASE w \in session[s].waits
    <3>1. /\ \A r \in Sessions : w \notin session'[r].waits
          /\ \A u \in AllThreads : /\ w \notin thread'[u].saved
                                   /\ w \in thread'[u].calls <=> u = t
      BY <1>2, <1>3, <2>1, <2>2 DEF Apart
    <3>2. Apart(w)'
      BY <3>1 DEF Apart
    <3>3. Kept(w)'
      BY <2>1, <2>2, <3>1 DEF Kept
    <3> QED
      BY <3>2, <3>3
  <2>3. CASE w \notin session[s].waits
    <3>1. /\ \A r \in Sessions : w \in session'[r].waits <=> w \in session[r].waits
          /\ \A u \in AllThreads : /\ w \in thread'[u].saved <=> w \in thread[u].saved
                                   /\ w \in thread'[u].calls <=> w \in thread[u].calls
      BY <1>2, <1>3, <2>3
    <3> QED
      BY <2>1, <3>1 DEF Apart, Kept
  <2> QED
    BY <2>2, <2>3
<1> QED
  BY <1>4, <1>5 DEF CallbacksKept

LEMMA WaitCompletesMoves ==
  ASSUME IInv, CallbacksKept, NEW h \in registered, waitCompletes(h)
  PROVE  CallbacksKept'
<1> DEFINE s == h.s
           told == [Start("telling", "", s) EXCEPT !.calls = session[s].waits]
<1>1. /\ Loop \in AllThreads /\ thread[Loop].pc = "idle" /\ s \in Sessions
      /\ waiter' = waiter
  BY DEF waitCompletes, IsIdle, At, AllThreads, IInv, InUse, Made, InSession
<1>2. thread[Loop].calls = {} /\ thread[Loop].saved = {}
  BY <1>1, HoldsNothing
<1>3. told.calls = session[s].waits /\ told.saved = {} /\ told.pc = "telling"
  BY DEF Start, Resting
<1>4. CASE IsAlive(s)
  <2>1. /\ session' = [session EXCEPT ![s].waits = {}]
        /\ thread' = [thread EXCEPT ![Loop] = told]
    BY <1>4 DEF waitCompletes
  <2> HIDE DEF told, s
  <2> QED
    BY <1>1, <1>2, <1>3, <2>1, TakenToTell
<1>5. CASE ~IsAlive(s)
  <2>1. session' = session /\ thread' = thread
    BY <1>5 DEF waitCompletes
  <2> QED
    BY <1>1, <2>1, NoneMoved DEF CallbacksKept, HoldsCallbacks
<1> QED
  BY <1>4, <1>5

(* The callbacks that t holds are called.                                   *)
LEMMA TellMoves ==
  ASSUME IInv, CallbacksKept, NEW t \in AllThreads, tell(t)
  PROVE  CallbacksKept'
<1> DEFINE pc == Then(thread[t].op)
           next == IF pc = "idle" THEN Resting ELSE [thread[t] EXCEPT !.pc = pc, !.calls = {}]
<1>1. thread[t] \in ThreadRec /\ thread[t].pc = "telling" /\ MayHold(t, thread[t])
      /\ thread \in [AllThreads -> ThreadRec]
  BY WhereThreadIs DEF tell, At, CallbacksKept, HoldsCallbacks, IInv, Types
<1>2. /\ thread' = [thread EXCEPT ![t] = next] /\ session' = session
      /\ waiter' = [w \in Waiters |-> IF w \in thread[t].calls THEN "told" ELSE waiter[w]]
  BY <1>1 DEF tell
<1>3. next.calls = {} /\ next.saved = thread[t].saved /\ MayHold(t, next)
  <2>1. CASE pc = "idle"
    <3>1. thread[t].saved = {}
      BY <1>1, <2>1 DEF MayHold, Then
    <3> QED
      BY <2>1, <3>1, RestingHolds
  <2>2. CASE pc # "idle"
    <3> DEFINE on == [thread[t] EXCEPT !.pc = pc, !.calls = {}]
    <3>1. /\ on.calls = {} /\ on.saved = thread[t].saved /\ on.pc = pc
          /\ on.op = thread[t].op
      <4> HIDE DEF pc
      <4> QED
        BY <1>1 DEF ThreadRec
    <3>2. thread[t].op = "resync" => pc = "puttingBack"
      BY DEF Then
    <3>3. next = on
      BY <2>2
    <3> HIDE DEF on, next, pc
    <3> QED
      BY <1>1, <3>1, <3>2, <3>3 DEF MayHold
  <2> QED
    BY <2>1, <2>2
<1> HIDE DEF next
<1>4. thread'[t] = next /\ \A u \in AllThreads : u # t => thread'[u] = thread[u]
  BY <1>1, <1>2
<1>5. HoldsCallbacks'
  BY <1>3, <1>4 DEF CallbacksKept, HoldsCallbacks, MayHold
<1>6. waiter' \in [Waiters -> Waiting \cup {"new", "told", "lost"}]
  BY <1>2 DEF CallbacksKept
<1>7. ASSUME NEW w \in Waiters PROVE Apart(w)' /\ Kept(w)'
  <2>1. Apart(w) /\ Kept(w)
    BY DEF CallbacksKept
  <2>2. CASE w \in thread[t].calls
    <3>1. /\ \A r \in Sessions : w \notin session'[r].waits
          /\ \A u \in AllThreads : w \notin thread'[u].saved /\ w \notin thread'[u].calls
      BY <1>2, <1>3, <1>4, <2>1, <2>2 DEF Apart
    <3>2. waiter'[w] = "told"
      BY <1>2, <2>2
    <3> QED
      BY <3>1, <3>2 DEF Apart, Kept, Waiting
  <2>3. CASE w \notin thread[t].calls
    <3>1. /\ waiter'[w] = waiter[w]
          /\ \A u \in AllThreads : /\ w \in thread'[u].saved <=> w \in thread[u].saved
                                   /\ w \in thread'[u].calls <=> w \in thread[u].calls
      BY <1>2, <1>3, <1>4, <2>3
    <3> QED
      BY <1>2, <2>1, <3>1 DEF Apart, Kept
  <2> QED
    BY <2>2, <2>3
<1> QED
  BY <1>5, <1>6, <1>7 DEF CallbacksKept

(* The callbacks that were put aside are put back over those that came in   *)
(* between.                                                                 *)
LEMMA PutBackMoves == ASSUME IInv, CallbacksKept, putBackWaits PROVE CallbacksKept'
<1> DEFINE s == thread[Loop].s
           next == Start("reviving", "", s)
           saved == thread[Loop].saved
<1>1. /\ Loop \in AllThreads /\ thread[Loop].pc = "puttingBack"
      /\ thread \in [AllThreads -> ThreadRec] /\ session \in [Sessions -> SessionRec]
  BY DEF putBackWaits, At, AllThreads, IInv, Types
<1>2. s \in Sessions /\ thread[Loop].calls = {}
  BY <1>1, WhereThreadIs, HoldsNothing DEF Made
<1>3. /\ session' = [session EXCEPT ![s].waits = saved]
      /\ thread' = [thread EXCEPT ![Loop] = next]
      /\ waiter' = [w \in Waiters |-> IF w \in session[s].waits THEN "lost"
                                      ELSE IF w \in saved THEN "put back" ELSE waiter[w]]
  BY DEF putBackWaits
<1>4. next.calls = {} /\ next.saved = {}
  BY StartHolds
<1>5. session'[s].waits = saved /\ \A r \in Sessions : r # s => session'[r] = session[r]
  BY <1>1, <1>2, <1>3 DEF SessionRec
<1>6. thread'[Loop] = next /\ \A u \in AllThreads : u # Loop => thread'[u] = thread[u]
  BY <1>1, <1>3
<1> HIDE DEF next
<1>7. HoldsCallbacks'
  BY <1>4, <1>6 DEF CallbacksKept, HoldsCallbacks, MayHold
<1>8. waiter' \in [Waiters -> Waiting \cup {"new", "told", "lost"}]
  BY <1>3 DEF CallbacksKept, Waiting
<1>9. \A u \in AllThreads : u # Loop => thread[u].saved = {}
  BY DEF CallbacksKept, HoldsCallbacks, MayHold
<1> HIDE DEF s, saved
<1>10. ASSUME NEW w \in Waiters PROVE Apart(w)' /\ Kept(w)'
  <2>1. Apart(w) /\ Kept(w)
    BY DEF CallbacksKept
  <2>2. CASE w \in session[s].waits
    <3>1. w \notin saved /\ waiter'[w] = "lost"
      BY <1>1, <1>2, <1>3, <2>1, <2>2 DEF Apart, saved
    <3>2. /\ \A r \in Sessions : w \notin session'[r].waits
          /\ \A u \in AllThreads : w \notin thread'[u].saved /\ w \notin thread'[u].calls
      BY <1>2, <1>4, <1>5, <1>6, <2>1, <2>2, <3>1 DEF Apart
    <3> QED
      BY <3>1, <3>2 DEF Apart, Kept, Waiting
  <2>3. CASE w \in saved
    <3>1. w \notin session[s].waits /\ waiter'[w] = "put back"
      BY <1>1, <1>2, <1>3, <2>1, <2>3 DEF Apart, saved
    <3>2. /\ \A r \in Sessions : w \in session'[r].waits <=> r = s
          /\ \A u \in AllThreads : w \notin thread'[u].saved /\ w \notin thread'[u].calls
      BY <1>1, <1>2, <1>4, <1>5, <1>6, <1>9, <2>1, <2>3 DEF Apart, saved
    <3> QED
      BY <1>2, <3>1, <3>2 DEF Apart, Kept, Waiting
  <2>4. CASE w \notin session[s].waits /\ w \notin saved
    <3>1. /\ waiter'[w] = waiter[w]
          /\ \A r \in Sessions : w \in session'[r].waits <=> w \in session[r].waits
          /\ \A u \in AllThreads : /\ w \in thread'[u].saved <=> w \in thread[u].saved
                                   /\ w \in thread'[u].calls <=> w \in thread[u].calls
      BY <1>2, <1>3, <1>4, <1>5, <1>6, <2>4 DEF saved
    <3> QED
      BY <2>1, <3>1 DEF Apart, Kept
  <2> QED
    BY <2>2, <2>3, <2>4
<1> QED
  BY <1>7, <1>8, <1>10 DEF CallbacksKept

LEMMA HandleErrorMoves == ASSUME IInv, CallbacksKept, handleError PROVE CallbacksKept'
<1> DEFINE s == thread[Loop].s
           f == session[s]
           waiting == [f EXCEPT !.state = "waiting", !.deferredClose = FALSE]
           told(op) == [thread[Loop] EXCEPT !.pc = "telling", !.op = op, !.calls = f.waits]
<1>1. /\ Loop \in AllThreads /\ thread[Loop].pc = "error" /\ f.state # "dying"
      /\ waiter' = waiter /\ thread \in [AllThreads -> ThreadRec]
  BY DEF handleError, At, AllThreads, InSession, IInv, Types
<1>2. /\ Made(s) /\ thread[Loop] \in ThreadRec
      /\ thread[Loop].calls = {} /\ thread[Loop].saved = {}
  BY <1>1, WhereThreadIs, HoldsNothing
<1>3. s \in Sessions /\ f \in SessionRec
  BY <1>2, SessionFacts
<1>4. thread[Loop].op \in {"expired", "fatal", "badAuth", "reset", "denied"}
  BY <1>1, <1>2, SyncAssumption DEF ThreadRec, SyncAssumption
<1>5. CASE thread[Loop].op = "expired" /\ f.state = "active"
  <2>1. becomeWith(registered, Loop, s, waiting, Resting)
    BY <1>5 DEF handleError, become
  <2>2. waiting \in SessionRec /\ GivesUp(s, waiting)
    BY <1>3 DEF SessionRec, GivesUp
  <2> HIDE DEF waiting
  <2> QED
    BY <1>1, <1>3, <2>1, <2>2, IdleBecomeMoves
<1>6. ASSUME NEW pc \in {"resyncing", "ending"},
             session' = session, thread' = [thread EXCEPT ![Loop].pc = pc]
      PROVE  CallbacksKept'
  <2> DEFINE next == [thread[Loop] EXCEPT !.pc = pc]
  <2>1. thread' = [thread EXCEPT ![Loop] = next]
    BY <1>6
  <2>2. next.calls = {} /\ next.saved = {}
    BY <1>2 DEF ThreadRec
  <2> HIDE DEF next
  <2> QED
    BY <1>1, <1>6, <2>1, <2>2, EmptyHanded
<1>7. CASE session' = session /\ thread' = [thread EXCEPT ![Loop] = Resting]
  BY <1>1, <1>7, RestingHolds, EmptyHanded
<1>8. ASSUME NEW op \in {"", "badAuth", "reset"},
             session' = [session EXCEPT ![s].waits = {}],
             thread' = [thread EXCEPT ![Loop] = told(op)]
      PROVE  CallbacksKept'
  <2>1. told(op).calls = f.waits /\ told(op).saved = {} /\ told(op).pc = "telling"
    BY <1>2 DEF ThreadRec
  <2> HIDE DEF told, s
  <2> QED
    BY <1>1, <1>2, <1>3, <1>8, <2>1, TakenToTell DEF s
<1>9. \/ thread[Loop].op = "expired" /\ f.state = "active"
      \/ session' = session /\ thread' = [thread EXCEPT ![Loop] = Resting]
      \/ \E pc \in {"resyncing", "ending"} :
           session' = session /\ thread' = [thread EXCEPT ![Loop].pc = pc]
      \/ \E op \in {"", "badAuth", "reset"} :
           session' = [session EXCEPT ![s].waits = {}] /\ thread' = [thread EXCEPT ![Loop] = told(op)]
  <2>1. CASE thread[Loop].op = "expired" /\ f.state # "active"
    BY <2>1 DEF handleError
  <2>2. CASE thread[Loop].op = "fatal"
    BY <1>1, <2>2 DEF handleError
  <2>3. CASE thread[Loop].op = "badAuth"
    BY <1>1, <2>3 DEF handleError
  <2>4. CASE thread[Loop].op = "reset"
    <3>1. f.resync \in BOOLEAN
      BY <1>3 DEF SessionRec
    <3>2. CASE f.resync
      BY <2>4, <3>2 DEF handleError
    <3>3. CASE ~f.resync
      BY <1>1, <2>4, <3>3 DEF handleError
    <3> QED
      BY <3>1, <3>2, <3>3
  <2>5. CASE thread[Loop].op = "denied"
    BY <2>5 DEF handleError
  <2> QED
    BY <1>4, <2>1, <2>2, <2>3, <2>4, <2>5
<1> QED
  BY <1>5, <1>6, <1>7, <1>8, <1>9
------------------------------------------------------------------------------
LEMMA InitKeepsCallbacks == Init => CallbacksKept
<1> SUFFICES ASSUME Init PROVE CallbacksKept
  OBVIOUS
<1>1. /\ session = [s \in Sessions |-> NoSession] /\ thread = [t \in AllThreads |-> Resting]
      /\ waiter = [w \in Waiters |-> "new"] /\ NoSession.waits = {}
  BY DEF Init, NoSession
<1> QED
  BY <1>1, RestingHolds DEF CallbacksKept, HoldsCallbacks, Apart, Kept, Waiting

LEMMA NextMoves == IInv /\ MadeInOrder /\ CallbacksKept /\ [Next]_vars => CallbacksKept'
<1> SUFFICES ASSUME IInv, MadeInOrder, CallbacksKept, [Next]_vars PROVE CallbacksKept'
  OBVIOUS
<1>0. Loop \in AllThreads
  BY DEF AllThreads
<1>1. ASSUME NEW t \in Threads, appStep(t) PROVE CallbacksKept'
  <2>1. t \in AllThreads
    BY DEF AllThreads
  <2>2. CASE \E p \in Policies, resync \in BOOLEAN :
               getSession(t, p, resync) \/ configure(t, p, resync)
    BY <2>1, <2>2, GetMoves, ConfigureMoves
  <2>3. CASE \/ registerSession(t) \/ giveReference(t) \/ didDropExternalReference(t)
             \/ logOut(t) \/ logOutSession(t) \/ putInWaiting(t) \/ logIn(t)
             \/ reconnect(t) \/ commit(t)
    BY <2>1, <2>3, RegisterMoves, ElsewhereMoves, DidDropMoves, LogOutSessionMoves,
       StillMoves
  <2>4. ASSUME NEW s \in Sessions,
               \/ dropReference(t, s) \/ suspend(t, s) \/ resume(t, s)
               \/ updateConfiguration(t, s) \/ refreshAccessToken(t, s) \/ tokenFails(t, s)
               \/ \E w \in Waiters : waitForCompletion(t, w, s)
        PROVE  CallbacksKept'
    BY <2>1, <2>4, ElsewhereMoves, SuspendMoves, RefreshMoves, TokenFailsMoves, WaitMoves
  <2> QED
    BY <1>1, <2>2, <2>3, <2>4 DEF appStep
<1>2. ASSUME NEW t \in AllThreads, anyStep(t) PROVE CallbacksKept'
  BY <1>2, RevivingMoves, UnregisterMoves, LeaveMoves, TellMoves DEF anyStep
<1>3. ASSUME loopStep PROVE CallbacksKept'
  <2>1. CASE \/ upload \/ errorWhileDying \/ handleError \/ endSession \/ resyncSession
             \/ putBackWaits \/ invalidateUser
    BY <1>0, <2>1, StillMoves, DyingErrorMoves, HandleErrorMoves, EndSessionMoves, ResyncMoves,
       PutBackMoves, ElsewhereMoves
  <2>2. CASE \E s \in Sessions, error \in Errors : hearError(s, error)
    BY <1>0, <2>2, ElsewhereMoves
  <2>3. CASE \E h \in registered : waitCompletes(h) \/ deathCompletes(h)
    BY <2>3, WaitCompletesMoves, DeathMoves
  <2> QED
    BY <1>3, <2>1, <2>2, <2>3 DEF loopStep
<1> QED
  BY <1>0, <1>1, <1>2, <1>3, StillMoves DEF Next

------------------------------------------------------------------------------
(* A session that nothing points to is never pointed to again.              *)
Dead(s) == Made(s) /\ ~IsAlive(s)

LEMMA DeadStep ==
  ASSUME IInv, NEW t \in AllThreads, NEW s \in Sessions, Dead(s),
         map' \in {map, 0} \/ map' # s,
         refs'[s] = refs[s] \/ ~(refs'[s] > 0),
         s \notin asked',
         \A u \in AllThreads : u # t => thread'[u] = thread[u],
         thread'[t].pc = "idle" \/ thread'[t].s # s \/ thread'[t] = thread[t]
  PROVE  ~IsAlive(s)'
  BY SyncAssumption DEF Dead, Made, IsAlive, Sessions, SyncAssumption

LEMMA DeadFacts ==
  ASSUME NEW s \in Sessions, Dead(s)
  PROVE  /\ map # s /\ ~(refs[s] > 0) /\ s \notin asked
         /\ \A t \in AllThreads : thread[t].pc # "idle" => thread[t].s # s
  BY DEF Dead, Made, IsAlive

(* A step in which another session becomes f, or this one does not end.     *)
LEMMA DeadBecome ==
  ASSUME IInv, NEW t \in AllThreads, NEW s \in Sessions, Dead(s), NEW x \in Sessions,
         NEW f \in SessionRec, NEW next \in ThreadRec, NEW H,
         becomeWith(H, t, x, f, next),
         map' = map, refs' = refs, s \notin asked',
         x # s \/ f.state # "inactive" \/ session[x].state = "inactive",
         next.pc = "idle" \/ next.s # s
  PROVE  ~IsAlive(s)'
<1> DEFINE new == [next EXCEPT !.pc = "unregistering", !.s = x,
                               !.calls = @ \cup (session[x].waits \ next.saved)]
<1>1. thread \in [AllThreads -> ThreadRec] /\ new.s = x
  BY DEF IInv, Types, ThreadRec
<1>2. \/ thread' = [thread EXCEPT ![t] = next]
      \/ x # s /\ thread' = [thread EXCEPT ![t] = new]
  BY DEF becomeWith
<1> HIDE DEF new
<1>3. /\ \A u \in AllThreads : u # t => thread'[u] = thread[u]
      /\ thread'[t].pc = "idle" \/ thread'[t].s # s
  BY <1>1, <1>2
<1> QED
  BY <1>3, DeadStep

LEMMA DeadStaysApp ==
  ASSUME IInv, MadeInOrder, NEW t \in Threads, NEW s \in Sessions, Dead(s), appStep(t)
  PROVE  ~IsAlive(s)'
<1>0. t \in AllThreads /\ thread \in [AllThreads -> ThreadRec] /\ refs \in [Sessions -> 0 .. MaxRefs]
  BY DEF AllThreads, IInv, Types
<1> DEFINE z == thread[t].s
<1>1. ASSUME thread[t].pc \notin {"idle", "loggedOut"}
      PROVE  z # s /\ Made(z) /\ z \in Sessions /\ thread[t] \in ThreadRec
  BY <1>0, <1>1, DeadFacts, WhereThreadIs DEF Made
<1>2. ASSUME NEW p \in Policies, NEW resync \in BOOLEAN, getSession(t, p, resync)
      PROVE  ~IsAlive(s)'
  <2> DEFINE n == Cardinality({i \in Sessions : session[i].state # "none"}) + 1
  <2>1. n # s
    <3>1. PICK k \in 0 .. MaxSession : MadeUpTo(k)
      BY DEF MadeInOrder
    <3>2. n = k + 1
      BY <3>1, NextToMake
    <3> HIDE DEF n
    <3> QED
      BY <3>1, <3>2, SyncAssumption DEF MadeUpTo, Dead, Made, Sessions, SyncAssumption
  <2>2. asked' = asked
    BY <1>2 DEF getSession
  <2>3. CASE map # 0 /\ thread' = [thread EXCEPT ![t] = Start("registering", "get", map)]
               /\ UNCHANGED <<refs, map>>
    <3>1. Start("registering", "get", map).s = map
      BY DEF Start, Resting
    <3> QED
      BY <1>0, <2>2, <2>3, <3>1, DeadFacts, DeadStep
  <2>4. CASE /\ n \in Sessions /\ refs' = [refs EXCEPT ![n] = 1] /\ map' = n
             /\ thread' = [thread EXCEPT ![t] = Start("registering", "create", n)]
    <3>1. Start("registering", "create", n).s = n
      BY DEF Start, Resting
    <3> HIDE DEF n
    <3> QED
      BY <1>0, <2>1, <2>2, <2>4, <3>1, DeadFacts, DeadStep
  <2> QED
    BY <1>2, <2>3, <2>4 DEF getSession
<1>3. ASSUME giveReference(t) \/ putInWaiting(t) PROVE ~IsAlive(s)'
  <2>1. /\ asked' = asked /\ map' = map /\ thread' = [thread EXCEPT ![t] = Resting]
        /\ \/ refs' = refs
           \/ thread[t].pc = "registered" /\ refs' = [refs EXCEPT ![z] = @ + 1]
    BY <1>3 DEF giveReference, putInWaiting, At, managerVars
  <2>2. refs'[s] = refs[s]
    BY <1>0, <1>1, <2>1
  <2> QED
    BY <1>0, <2>1, <2>2, RestingRecord, DeadFacts, DeadStep
<1>4. ASSUME registerSession(t) PROVE ~IsAlive(s)'
  <2>1. /\ asked' = asked /\ map' = map /\ refs' = refs /\ thread[t].pc = "registering"
        /\ \E pc \in Counters : thread' = [thread EXCEPT ![t].pc = pc]
    BY <1>4 DEF registerSession, At, managerVars, Counters
  <2>2. thread'[t].s = z /\ \A u \in AllThreads : u # t => thread'[u] = thread[u]
    BY <1>0, <2>1 DEF ThreadRec
  <2> QED
    BY <1>0, <1>1, <2>1, <2>2, DeadFacts, DeadStep
<1>5. ASSUME NEW x \in Sessions, x # s, NEW pc, NEW op,
             asked' = asked \/ asked' = asked \cup {x}, map' = map, refs' = refs,
             \/ thread' = [thread EXCEPT ![t] = Start(pc, op, x)]
             \/ thread' = [thread EXCEPT ![t] = Resting]
      PROVE  ~IsAlive(s)'
  <2>1. Start(pc, op, x).s = x
    BY DEF Start, Resting
  <2> QED
    BY <1>0, <1>5, <2>1, RestingRecord, DeadFacts, DeadStep
<1>6. ASSUME logOut(t) PROVE ~IsAlive(s)'
  <2>1. /\ asked' = asked /\ map' = map /\ refs' = refs
        /\ \/ /\ user.session # 0 /\ IsAlive(user.session)
              /\ thread' = [thread EXCEPT ![t] = Start("loggingOut", "logOut", user.session)]
           \/ thread' = [thread EXCEPT ![t] = Start("loggedOut", "logOut", 0)]
    BY <1>6 DEF logOut, managerVars
  <2>2. Start("loggingOut", "logOut", user.session).s = user.session
        /\ Start("loggedOut", "logOut", 0).s = 0
    BY DEF Start, Resting
  <2>3. 0 # s /\ (IsAlive(user.session) => user.session # s)
    BY SyncAssumption DEF Dead, Sessions, SyncAssumption
  <2> QED
    BY <1>0, <2>1, <2>2, <2>3, DeadFacts, DeadStep
<1>7. ASSUME logIn(t) PROVE ~IsAlive(s)'
  <2>1. /\ asked' = asked /\ map' = map /\ refs' = refs
        /\ \/ /\ user.waiting # 0 /\ IsAlive(user.waiting)
              /\ thread' = [thread EXCEPT ![t] = Start("reviving", "", user.waiting)]
           \/ thread' = [thread EXCEPT ![t] = Resting]
    BY <1>7 DEF logIn, managerVars
  <2>2. Start("reviving", "", user.waiting).s = user.waiting
    BY DEF Start, Resting
  <2>3. IsAlive(user.waiting) => user.waiting # s
    BY DEF Dead
  <2>4. /\ \A u \in AllThreads : u # t => thread'[u] = thread[u]
        /\ thread'[t].pc = "idle" \/ thread'[t].s # s
    BY <1>0, <2>1, <2>2, <2>3, RestingRecord
  <2>5. map # s /\ refs'[s] = refs[s] /\ s \notin asked'
    BY <2>1, DeadFacts
  <2> QED
    BY <1>0, <2>1, <2>4, <2>5, DeadStep
<1>8. ASSUME reconnect(t) \/ commit(t) PROVE ~IsAlive(s)'
  <2>1. /\ asked' = asked \/ asked' = asked \cup {map}
        /\ map' = map /\ refs' = refs
        /\ thread' = thread
    BY <1>8 DEF reconnect, commit, InSession, managerVars
  <2> QED
    BY <1>0, <2>1, DeadFacts, DeadStep
<1>9. ASSUME didDropExternalReference(t) PROVE ~IsAlive(s)'
  <2>1. asked' = asked /\ map' = map /\ refs' = refs /\ thread[t].pc = "dropped"
    BY <1>9 DEF didDropExternalReference, At, InSession, managerVars
  <2>2. CASE becomeWith(registered, t, z, Closed(session[z]), Resting)
    <3>1. Closed(session[z]) \in SessionRec
      BY <1>1, <2>1, SessionFacts
    <3> QED
      BY <1>0, <1>1, <2>1, <2>2, <3>1, RestingRecord, DeadFacts, DeadBecome
  <2>3. CASE \/ thread' = [thread EXCEPT ![t] = Resting]
             \/ thread' = [thread EXCEPT ![t] = [Resting EXCEPT !.pc = "unregistering", !.s = z]]
    <3>1. [Resting EXCEPT !.pc = "unregistering", !.s = z].s = z
      BY DEF Resting
    <3> QED
      BY <1>0, <1>1, <2>1, <2>3, <3>1, RestingRecord, DeadFacts, DeadStep
  <2> QED
    BY <1>9, <2>2, <2>3 DEF didDropExternalReference, close, become
<1>10. ASSUME logOutSession(t) PROVE ~IsAlive(s)'
  <2> DEFINE f == IF session[z].state = "inactive" THEN session[z] ELSE Inactive(session[z])
             next == [thread[t] EXCEPT !.pc = "loggedOut"]
  <2>1. /\ asked' = asked /\ map' = map /\ refs' = refs /\ thread[t].pc = "loggingOut"
        /\ becomeWith(registered, t, z, f, next)
    BY <1>10 DEF logOutSession, At, become, InSession, managerVars
  <2>2. f \in SessionRec /\ next \in ThreadRec /\ next.s = z
    BY <1>1, <2>1, SessionFacts DEF ThreadRec, Counters
  <2> HIDE DEF f, next
  <2> QED
    BY <1>0, <1>1, <2>1, <2>2, DeadFacts, DeadBecome
<1>11. ASSUME NEW p \in Policies, NEW resync \in BOOLEAN, configure(t, p, resync)
       PROVE  ~IsAlive(s)'
  <2> DEFINE f == Configured(z, p, resync)
             next == IF session[z].state = "inactive" THEN Start("reviving", "", z) ELSE thread[t]
  <2>1. /\ asked' = asked /\ map' = map /\ refs' = refs /\ thread[t].pc = "configuring"
        /\ becomeWith(registered, t, z, f, next)
    BY <1>11 DEF configure, At, become, InSession, managerVars, Configured
  <2>2. Start("reviving", "", z) \in ThreadRec /\ Start("reviving", "", z).s = z
    BY <1>1, <2>1, SessionRange DEF Start, Resting, ThreadRec, Operations, Counters
  <2>3. f \in SessionRec /\ next \in ThreadRec /\ next.s = z
    BY <1>1, <2>1, <2>2, ConfiguredFacts
  <2> HIDE DEF f, next
  <2> QED
    BY <1>0, <1>1, <2>1, <2>3, DeadFacts, DeadBecome
<1>12. ASSUME NEW x \in Sessions,
              \/ dropReference(t, x) \/ resume(t, x) \/ updateConfiguration(t, x)
       PROVE  ~IsAlive(s)'
  <2>1. x # s
    <3>1. CASE dropReference(t, x)
      BY <3>1, DeadFacts DEF dropReference
    <3>2. CASE resume(t, x) \/ updateConfiguration(t, x)
      BY <3>2 DEF resume, updateConfiguration, Dead
    <3> QED
      BY <1>12, <3>1, <3>2
  <2>2. CASE resume(t, x)
    <3>1. /\ asked' = asked /\ map' = map /\ refs' = refs
          /\ thread' = [thread EXCEPT ![t] = Start("reviving", "", x)]
      BY <2>2 DEF resume, InSession, managerVars
    <3> QED
      BY <1>5, <2>1, <3>1
  <2>3. CASE updateConfiguration(t, x)
    <3>1. /\ asked' = asked /\ map' = map /\ refs' = refs
          /\ thread' = [thread EXCEPT ![t] = Start("configuring", "config", x)]
      BY <2>3 DEF updateConfiguration, InSession, managerVars
    <3> QED
      BY <1>5, <2>1, <3>1
  <2>4. CASE dropReference(t, x)
    <3>1. /\ asked' = asked /\ map' = map /\ refs' = [refs EXCEPT ![x] = @ - 1]
          /\ \/ thread' = [thread EXCEPT ![t] = Start("dropped", "", x)]
             \/ thread' = [thread EXCEPT ![t] = Resting]
      BY <2>4 DEF dropReference, managerVars
    <3>2. refs'[s] = refs[s] /\ Start("dropped", "", x).s = x
      BY <1>0, <2>1, <3>1 DEF Start, Resting
    <3> QED
      BY <1>0, <2>1, <3>1, <3>2, RestingRecord, DeadFacts, DeadStep
  <2> QED
    BY <1>12, <2>2, <2>3, <2>4
<1>13. ASSUME NEW x \in Sessions,
              \/ suspend(t, x) \/ refreshAccessToken(t, x) \/ tokenFails(t, x)
              \/ \E w \in Waiters : waitForCompletion(t, w, x)
       PROVE  ~IsAlive(s)'
  <2>1. x # s
    <3>1. CASE suspend(t, x) \/ \E w \in Waiters : waitForCompletion(t, w, x)
      BY <3>1 DEF suspend, waitForCompletion, Dead
    <3>2. CASE refreshAccessToken(t, x) \/ tokenFails(t, x)
      BY <3>2, DeadFacts DEF refreshAccessToken, tokenFails
    <3> QED
      BY <1>13, <3>1, <3>2
  <2>2. map' = map /\ refs' = refs /\ s \notin asked'
    BY <1>13, DeadFacts
       DEF suspend, refreshAccessToken, tokenFails, waitForCompletion, InSession, managerVars
  <2>3. CASE \E w \in Waiters : waitForCompletion(t, w, x)
    <3>1. thread' = thread
      BY <2>3 DEF waitForCompletion
    <3> QED
      BY <1>0, <2>2, <3>1, DeadStep
  <2>4. ASSUME NEW f, becomeWith(registered, t, x, f, Resting) PROVE ~IsAlive(s)'
    <3> DEFINE off == [Resting EXCEPT !.pc = "unregistering", !.s = x,
                                      !.calls = @ \cup (session[x].waits \ Resting.saved)]
    <3>1. \/ thread' = [thread EXCEPT ![t] = Resting]
          \/ thread' = [thread EXCEPT ![t] = off]
      BY <2>4 DEF becomeWith
    <3>2. off.s = x
      BY DEF Resting
    <3> HIDE DEF off
    <3> QED
      BY <1>0, <2>1, <2>2, <3>1, <3>2, RestingRecord, DeadStep
  <2>5. CASE suspend(t, x) \/ refreshAccessToken(t, x) \/ tokenFails(t, x)
    <3>1. \E f : becomeWith(registered, t, x, f, Resting)
      BY <2>5 DEF suspend, refreshAccessToken, tokenFails, become
    <3> QED
      BY <2>4, <3>1
  <2> QED
    BY <1>13, <2>3, <2>5
<1> QED
  BY <1>2, <1>3, <1>4, <1>6, <1>7, <1>8, <1>9, <1>10, <1>11, <1>12, <1>13 DEF appStep

LEMMA DeadStaysAny ==
  ASSUME IInv, NEW t \in AllThreads, NEW s \in Sessions, Dead(s), anyStep(t)
  PROVE  ~IsAlive(s)'
<1> DEFINE z == thread[t].s
<1>0. thread \in [AllThreads -> ThreadRec] /\ 0 # s
  BY SyncAssumption DEF IInv, Types, Sessions, SyncAssumption
<1>1. ASSUME thread[t].pc \notin {"idle", "loggedOut"}
      PROVE  z # s /\ Made(z) /\ z \in Sessions /\ thread[t] \in ThreadRec
  BY <1>0, <1>1, DeadFacts, WhereThreadIs DEF Made
<1>2. ASSUME reviveIfNeeded(t) PROVE ~IsAlive(s)'
  <2> DEFINE next == IF thread[t].op \in {"get", "create"}
                     THEN [thread[t] EXCEPT !.pc = "registered"] ELSE Resting
  <2>1. /\ map' = map /\ refs' = refs /\ thread[t].pc = "reviving"
        /\ asked' = asked \/ asked' = asked \cup {z}
        /\ becomeWith(registered, t, z, Revived(session[z]), next)
    BY <1>2 DEF reviveIfNeeded, At, become, InSession, managerVars
  <2>2. Revived(session[z]) \in SessionRec
    BY <1>1, <2>1, SessionFacts
  <2>3. /\ [thread[t] EXCEPT !.pc = "registered"] \in ThreadRec
        /\ [thread[t] EXCEPT !.pc = "registered"].s = z
    BY <1>1, <2>1 DEF ThreadRec, Counters
  <2>4. next \in ThreadRec /\ (next.pc = "idle" \/ next.s = z)
    BY <2>3, RestingRecord
  <2> HIDE DEF next
  <2> QED
    BY <1>1, <2>1, <2>2, <2>4, DeadFacts, DeadBecome
<1>3. ASSUME unregisterSession(t) PROVE ~IsAlive(s)'
  <2>1. /\ map' = map \/ map' = 0
        /\ refs' = refs /\ asked' = asked /\ thread[t].pc = "unregistering"
        /\ \E pc \in Counters : thread' = [thread EXCEPT ![t].pc = pc]
    BY <1>3 DEF unregisterSession, At, Counters
  <2>2. thread'[t].s = z /\ \A u \in AllThreads : u # t => thread'[u] = thread[u]
    BY <1>0, <2>1 DEF ThreadRec
  <2> QED
    BY <1>0, <1>1, <2>1, <2>2, DeadFacts, DeadStep
<1>4. ASSUME leaveRegistered(t) PROVE ~IsAlive(s)'
  <2> DEFINE next == [thread[t] EXCEPT !.pc = "telling"]
             off == [next EXCEPT !.pc = "unregistering", !.s = map]
  <2>1. map' = map /\ refs' = refs /\ asked' = asked /\ thread[t].pc = "checked"
    BY <1>4 DEF leaveRegistered, At
  <2>2. Made(map) /\ map # s
    BY <2>1, DeadFacts DEF IInv, Mutexes, SessionMutexOf, InUse
  <2>3. next \in ThreadRec /\ next.s = z /\ off.s = map
    BY <1>1, <2>1 DEF ThreadRec, Counters
  <2>4. map \in Sessions /\ Closed(session[map]) \in SessionRec
    BY <2>2, SessionFacts
  <2>5. \/ becomeWith(registered, t, map, Closed(session[map]), next)
        \/ thread' = [thread EXCEPT ![t] = next]
        \/ thread' = [thread EXCEPT ![t] = off]
    BY <1>4 DEF leaveRegistered, close, become
  <2> HIDE DEF next, off
  <2>6. CASE becomeWith(registered, t, map, Closed(session[map]), next)
    BY <1>1, <2>1, <2>2, <2>3, <2>4, <2>6, DeadFacts, DeadBecome
  <2>7. CASE thread' = [thread EXCEPT ![t] = next] \/ thread' = [thread EXCEPT ![t] = off]
    BY <1>0, <1>1, <2>1, <2>2, <2>3, <2>7, DeadFacts, DeadStep
  <2> QED
    BY <2>5, <2>6, <2>7
<1>5. ASSUME tell(t) PROVE ~IsAlive(s)'
  <2> DEFINE pc == Then(thread[t].op)
             on == [thread[t] EXCEPT !.pc = pc, !.calls = {}]
  <2>1. /\ map' = map /\ refs' = refs /\ asked' = asked /\ thread[t].pc = "telling"
        /\ \/ thread' = [thread EXCEPT ![t] = Resting]
           \/ thread' = [thread EXCEPT ![t] = on]
    BY <1>0, <1>5 DEF tell, At, managerVars
  <2>2. on.s = z
    <3> HIDE DEF pc
    <3> QED
      BY <1>0 DEF ThreadRec
  <2> HIDE DEF on
  <2> QED
    BY <1>0, <1>1, <2>1, <2>2, RestingRecord, DeadFacts, DeadStep
<1> QED
  BY <1>2, <1>3, <1>4, <1>5 DEF anyStep

LEMMA DeadStaysLoop ==
  ASSUME IInv, NEW s \in Sessions, Dead(s), loopStep
  PROVE  ~IsAlive(s)'
<1> DEFINE z == thread[Loop].s
           ended == Inactive(session[z])
<1>0. Loop \in AllThreads /\ thread \in [AllThreads -> ThreadRec]
  BY DEF IInv, Types, AllThreads
<1>1. ASSUME thread[Loop].pc \notin {"idle", "loggedOut"}
      PROVE  /\ z # s /\ Made(z) /\ z \in Sessions /\ thread[Loop] \in ThreadRec
             /\ session[z] \in SessionRec /\ ended \in SessionRec
  BY <1>0, <1>1, DeadFacts, WhereThreadIs, SessionFacts DEF Made
<1>2. ASSUME upload PROVE ~IsAlive(s)'
  BY <1>0, <1>2, DeadFacts, DeadStep DEF upload, managerVars
<1>3. ASSUME errorWhileDying PROVE ~IsAlive(s)'
  <2> DEFINE f == IF thread[Loop].op = "expired" THEN session[z] ELSE ended
  <2>1. /\ thread[Loop].pc = "error" /\ becomeWith(registered, Loop, z, f, Resting)
        /\ map' = map /\ refs' = refs /\ asked' = asked
    BY <1>3 DEF errorWhileDying, At, become, InSession, managerVars
  <2>2. f \in SessionRec
    BY <1>1, <2>1
  <2> HIDE DEF f, ended
  <2> QED
    BY <1>0, <1>1, <2>1, <2>2, RestingRecord, DeadFacts, DeadBecome
<1>4. ASSUME handleError PROVE ~IsAlive(s)'
  <2> DEFINE waiting == [session[z] EXCEPT !.state = "waiting", !.deferredClose = FALSE]
  <2>1. thread[Loop].pc = "error" /\ map' = map /\ refs' = refs
        /\ thread[Loop].op \in {"expired", "fatal", "badAuth", "reset", "denied"}
    BY <1>0, <1>4, SyncAssumption DEF handleError, At, ThreadRec, SyncAssumption, InSession, managerVars
  <2>2. waiting \in SessionRec
    BY <1>1, <2>1 DEF SessionRec
  <2>3. asked' = asked \/ asked' = asked \cup {z}
    BY <1>4, <2>1 DEF handleError
  <2>4. CASE becomeWith(registered, Loop, z, waiting, Resting)
    <3> HIDE DEF waiting
    <3> QED
      BY <1>0, <1>1, <2>1, <2>2, <2>3, <2>4, RestingRecord, DeadFacts, DeadBecome
  <2>5. CASE thread' = [thread EXCEPT ![Loop] = Resting]
    BY <1>0, <1>1, <2>1, <2>3, <2>5, RestingRecord, DeadFacts, DeadStep
  <2>6. CASE \/ \E pc \in Counters : thread' = [thread EXCEPT ![Loop].pc = pc]
             \/ \E op \in Operations, calls \in SUBSET Waiters :
                  thread' = [thread EXCEPT ![Loop].pc = "telling", ![Loop].op = op,
                                           ![Loop].calls = calls]
    <3>0. \A u \in AllThreads : u # Loop => thread'[u] = thread[u]
      BY <1>0, <2>6
    <3>1. thread'[Loop].s = z
      <4>1. CASE \E pc \in Counters : thread' = [thread EXCEPT ![Loop].pc = pc]
        <5>1. PICK pc \in Counters : thread' = [thread EXCEPT ![Loop].pc = pc]
          BY <4>1
        <5>2. thread'[Loop] = [thread[Loop] EXCEPT !.pc = pc] /\ thread[Loop] \in ThreadRec
          BY <1>0, <5>1
        <5> QED
          BY <5>2 DEF ThreadRec
      <4>2. CASE \E op \in Operations, calls \in SUBSET Waiters :
                   thread' = [thread EXCEPT ![Loop].pc = "telling", ![Loop].op = op,
                                            ![Loop].calls = calls]
        <5>1. PICK op \in Operations, calls \in SUBSET Waiters :
                   thread' = [thread EXCEPT ![Loop].pc = "telling", ![Loop].op = op,
                                            ![Loop].calls = calls]
          BY <4>2
        <5>2. /\ thread'[Loop] = [thread[Loop] EXCEPT !.pc = "telling", !.op = op, !.calls = calls]
              /\ thread[Loop] \in ThreadRec
          BY <1>0, <5>1
        <5> QED
          BY <5>2 DEF ThreadRec
      <4> QED
        BY <2>6, <4>1, <4>2
    <3> QED
      BY <1>0, <1>1, <2>1, <2>3, <3>0, <3>1, DeadFacts, DeadStep
  <2>7. session[z].waits \in SUBSET Waiters
    BY <1>1, <2>1 DEF SessionRec
  <2>8. \/ becomeWith(registered, Loop, z, waiting, Resting)
        \/ thread' = [thread EXCEPT ![Loop] = Resting]
        \/ thread' = [thread EXCEPT ![Loop].pc = "resyncing"]
        \/ thread' = [thread EXCEPT ![Loop].pc = "ending"]
        \/ \E op \in {"", "badAuth", "reset"} :
             thread' = [thread EXCEPT ![Loop].pc = "telling", ![Loop].op = op,
                                      ![Loop].calls = session[z].waits]
    BY <1>4, <2>1 DEF handleError, become
  <2>9. {"resyncing", "ending"} \subseteq Counters /\ {"", "badAuth", "reset"} \subseteq Operations
    BY DEF Counters, Operations
  <2> HIDE DEF waiting
  <2> QED
    BY <2>4, <2>5, <2>6, <2>7, <2>8, <2>9
<1>5. ASSUME endSession PROVE ~IsAlive(s)'
  <2> DEFINE f == IF aborted' = "" THEN ended ELSE session[z]
  <2>1. /\ thread[Loop].pc = "ending" /\ becomeWith(registered, Loop, z, f, Resting)
        /\ map' = map /\ refs' = refs /\ asked' = asked
    BY <1>5 DEF endSession, At, become, managerVars
  <2>2. f \in SessionRec
    BY <1>1, <2>1
  <2> HIDE DEF f, ended
  <2> QED
    BY <1>0, <1>1, <2>1, <2>2, RestingRecord, DeadFacts, DeadBecome
<1>6. ASSUME resyncSession PROVE ~IsAlive(s)'
  <2> DEFINE next == [Start("", "resync", z) EXCEPT !.saved = session[z].waits]
  <2>1. /\ thread[Loop].pc = "resyncing" /\ map' = map /\ refs' = refs /\ asked' = asked
        /\ thread' = thread \/ becomeWith(registered \ Outdated("wait", z), Loop, z, ended, next)
    BY <1>6 DEF resyncSession, At, managerVars
  <2>2. Start("", "resync", z) \in ThreadRec /\ Start("", "resync", z).s = z
        /\ session[z].waits \in SUBSET Waiters
    BY <1>1, <2>1, SessionRange DEF Start, Resting, ThreadRec, Operations, Counters, SessionRec
  <2>3. Start("", "resync", z).pc = ""
    BY DEF Start, Resting
  <2>4. next \in ThreadRec /\ next.s = z
    BY <2>2, <2>3 DEF ThreadRec
  <2> HIDE DEF next, ended
  <2> QED
    BY <1>0, <1>1, <2>1, <2>4, DeadFacts, DeadBecome, DeadStep
<1>7. ASSUME putBackWaits PROVE ~IsAlive(s)'
  <2>1. /\ thread[Loop].pc = "puttingBack" /\ map' = map /\ refs' = refs /\ asked' = asked
        /\ thread' = [thread EXCEPT ![Loop] = Start("reviving", "", z)]
    BY <1>7 DEF putBackWaits, At, managerVars
  <2>2. Start("reviving", "", z).s = z
    BY DEF Start, Resting
  <2> QED
    BY <1>0, <1>1, <2>1, <2>2, DeadFacts, DeadStep
<1>8. ASSUME invalidateUser PROVE ~IsAlive(s)'
  BY <1>0, <1>8, RestingRecord, DeadFacts, DeadStep DEF invalidateUser, managerVars
<1>9. ASSUME NEW x \in Sessions, NEW error \in Errors, hearError(x, error) PROVE ~IsAlive(s)'
  <2>1. /\ x # s /\ map' = map /\ refs' = refs /\ asked' = asked
        /\ thread' = [thread EXCEPT ![Loop] = Start("error", error, x)]
    BY <1>9 DEF hearError, Dead, InSession, managerVars
  <2>2. Start("error", error, x).s = x
    BY DEF Start, Resting
  <2> QED
    BY <1>0, <2>1, <2>2, DeadFacts, DeadStep
<1>10. ASSUME NEW h \in registered, waitCompletes(h) PROVE ~IsAlive(s)'
  <2> DEFINE told == [Start("telling", "", h.s) EXCEPT !.calls = session[h.s].waits]
  <2>1. /\ map' = map /\ refs' = refs /\ asked' = asked
        /\ thread' = thread \/ (IsAlive(h.s) /\ thread' = [thread EXCEPT ![Loop] = told])
    BY <1>10 DEF waitCompletes, InSession, managerVars
  <2>2. told.s = h.s /\ (IsAlive(h.s) => h.s # s)
    BY DEF Start, Resting, Dead
  <2> HIDE DEF told
  <2> QED
    BY <1>0, <2>1, <2>2, DeadFacts, DeadStep
<1>11. ASSUME NEW h \in registered, deathCompletes(h) PROVE ~IsAlive(s)'
  <2> DEFINE f == IF IsAlive(h.s) /\ session[h.s].state = "dying" THEN Inactive(session[h.s])
                  ELSE session[h.s]
  <2>1. /\ map' = map /\ refs' = refs /\ asked' = asked
        /\ becomeWith(registered \ {h}, Loop, h.s, f, Resting)
    BY <1>11 DEF deathCompletes, InSession, managerVars
  <2>2. h.s \in Sessions /\ f \in SessionRec
    BY SessionFacts DEF IInv, InUse
  <2>3. h.s # s \/ f = session[h.s]
    BY DEF Dead
  <2> HIDE DEF f
  <2> QED
    BY <1>0, <2>1, <2>2, <2>3, RestingRecord, DeadFacts, DeadBecome
<1> QED
  BY <1>2, <1>3, <1>4, <1>5, <1>6, <1>7, <1>8, <1>9, <1>10, <1>11 DEF loopStep

LEMMA DeadStays ==
  ASSUME IInv, MadeInOrder, Next, NEW s \in Sessions, Made(s), IsAlive(s)'
  PROVE  IsAlive(s)
<1> QED
  BY DeadStaysApp, DeadStaysAny, DeadStaysLoop DEF Next, Dead
------------------------------------------------------------------------------
(* Session s, if it is active or dying and has callbacks that were not put  *)
(* back, has a handler that will call them.                                 *)
HasHandler(s) == \E h \in registered : h.kind = "wait" /\ h.s = s /\ h.due # "cancelled"
Served(s) ==
  /\ session[s].state \in {"active", "dying"}
  /\ session[s].waits # {}
  /\ \A w \in session[s].waits : waiter[w] = "queued"
  => HasHandler(s)

(* A step that takes no handler of session s away.                          *)
LEMMA StillServed ==
  ASSUME NEW s \in Sessions, Served(s),
         session'[s].waits \subseteq session[s].waits \/ session'[s].state = "inactive",
         session'[s].waits # {} =>
           session[s].waits \subseteq session'[s].waits \/ session'[s].state = "inactive",
         session'[s].state = session[s].state \/ session'[s].state \notin {"active", "dying"},
         \A w \in session[s].waits : waiter'[w] = "queued" => waiter[w] = "queued",
         HasHandler(s) => HasHandler(s)'
  PROVE  Served(s)'
  BY DEF Served

(* What a session that becomes f needs is registered on the way.            *)
LEMMA BecomeServes ==
  ASSUME IInv, NEW t \in AllThreads, NEW x \in Sessions, NEW f \in SessionRec, NEW next,
         NEW H \in SUBSET registered, Made(x), becomeWith(H, t, x, f, next),
         GivesUp(x, f), waiter' = waiter,
         session[x].state = "inactive" => f.state # "dying",
         \A h \in registered :
           h.kind = "wait" /\ h \notin H => h.s = x /\ f.state = "inactive",
         NEW s \in Sessions, Served(s)
  PROVE  Served(s)'
<1> DEFINE toDie == f.state = "dying" /\ session[x].state # "dying"
           ended == f.state = "inactive" /\ session[x].state # "inactive"
           activated == f.state # session[x].state /\ f.state \in {"active", "dying"}
                          /\ (f.state = "active" \/ session[x].state = "waiting")
<1>0. session \in [Sessions -> SessionRec] /\ session[x].state # "none"
      /\ registered \in SUBSET HandlerRec
  BY DEF IInv, Types, Made
<1>1. /\ \A r \in Sessions : r # x => session'[r] = session[r]
      /\ session'[x].waits = f.waits /\ session'[x].state = f.state
  <2>1. PICK g \in {f, [f EXCEPT !.owes = unsent]} : session' = [session EXCEPT ![x] = g]
    BY DEF becomeWith
  <2>2. g.waits = f.waits /\ g.state = f.state
    BY <2>1 DEF SessionRec
  <2> QED
    BY <1>0, <2>1, <2>2
<1>2. ASSUME NEW h \in H, h.kind = "wait", h.due # "cancelled", ~(ended /\ h.s = x)
      PROVE  h \in registered'
  <2>1. CASE ended
    <3>1. h = IF h.s = x THEN [h EXCEPT !.due = "cancelled"] ELSE h
      BY <1>2, <2>1
    <3> QED
      BY <2>1, <3>1 DEF becomeWith
  <2>2. CASE ~ended
    <3>1. h \notin Outdated("death", x)
      BY <1>2 DEF Outdated
    <3> QED
      BY <2>2, <3>1 DEF becomeWith
  <2> QED
    BY <2>1, <2>2
<1>3. HasHandler(s) /\ (s # x \/ f.state # "inactive") => HasHandler(s)'
  BY <1>2 DEF HasHandler
<1>4. CASE s # x
  BY <1>1, <1>3, <1>4 DEF Served
<1>5. CASE s = x
  <2>1. CASE f.state = "inactive"
    BY <1>1, <1>5, <2>1 DEF Served
  <2>2. CASE f.state # "inactive" /\ activated /\ f.waits # {}
    <3>1. Handler("wait", x) \in registered'
      BY <2>2 DEF becomeWith
    <3>2. /\ Handler("wait", x).kind = "wait" /\ Handler("wait", x).s = x
          /\ Handler("wait", x).due # "cancelled"
      BY DEF Handler
    <3> QED
      BY <1>5, <3>1, <3>2 DEF Served, HasHandler
  <2>3. CASE f.waits = {}
    BY <1>1, <1>5, <2>3 DEF Served
  <2>4. CASE f.state # "inactive" /\ ~activated /\ f.waits # {}
    <3>1. f.waits = session[x].waits
      BY <2>4 DEF GivesUp
    <3>2. f.state \in {"active", "dying"} => session[x].state \in {"active", "dying"}
      BY <1>0, <2>4 DEF SessionRec
    <3> QED
      BY <1>1, <1>3, <1>5, <2>4, <3>1, <3>2 DEF Served
  <2> QED
    BY <2>1, <2>2, <2>3, <2>4
<1> QED
  BY <1>4, <1>5

(* A step that changes neither sessions nor handlers nor callbacks.         *)
LEMMA SameServed ==
  ASSUME session' = session, registered' = registered, waiter' = waiter,
         NEW s \in Sessions, Served(s)
  PROVE  Served(s)'
  BY DEF Served, HasHandler

(* What the steps of the app's threads leave behind.                        *)
LEMMA ServedApp ==
  ASSUME IInv, CallbacksKept, MadeInOrder, NEW t \in Threads, appStep(t),
         NEW s \in Sessions, Served(s)
  PROVE  Served(s)'
<1> DEFINE z == thread[t].s
<1>0. t \in AllThreads
  BY DEF AllThreads
<1>1. ASSUME NEW p \in Policies, NEW resync \in BOOLEAN, getSession(t, p, resync)
      PROVE  Served(s)'
  <2>1. registered' = registered /\ waiter' = waiter
    BY <1>1 DEF getSession
  <2>2. /\ session'[s].waits = session[s].waits
        /\ \/ session'[s].state = session[s].state
           \/ session[s].state = "none" /\ session'[s].state = "inactive"
    BY <1>1, GetKeepsOrder
  <2>3. HasHandler(s) => HasHandler(s)'
    BY <2>1 DEF HasHandler
  <2> QED
    BY <2>1, <2>2, <2>3, StillServed
<1>2. ASSUME \/ registerSession(t) \/ giveReference(t) \/ logOut(t) \/ putInWaiting(t)
             \/ logIn(t) \/ reconnect(t) \/ commit(t)
             \/ \E x \in Sessions :
                  dropReference(t, x) \/ resume(t, x) \/ updateConfiguration(t, x)
      PROVE  Served(s)'
  <2>1. session' = session /\ registered' = registered /\ waiter' = waiter
    BY <1>2 DEF registerSession, giveReference, logOut, putInWaiting, logIn, reconnect, commit,
                dropReference, resume, updateConfiguration, InSession
  <2> QED
    BY <2>1, SameServed
<1>3. ASSUME NEW x \in Sessions, Made(x), NEW f \in SessionRec, NEW next,
             becomeWith(registered, t, x, f, next), GivesUp(x, f), waiter' = waiter,
             session[x].state = "inactive" => f.state # "dying"
      PROVE  Served(s)'
  <2>1. registered \in SUBSET registered
    OBVIOUS
  <2> QED
    BY <1>0, <1>3, <2>1, BecomeServes
<1>4. ASSUME NEW x, Made(x)
      PROVE  LET g == Inactive(session[x])
             IN  /\ x \in Sessions /\ session[x] \in SessionRec /\ GivesUp(x, session[x])
                 /\ g \in SessionRec /\ (session[x].state # "inactive" => GivesUp(x, g))
                 /\ g.state = "inactive"
  BY <1>4, SessionFacts, GivenUp
<1>5. ASSUME didDropExternalReference(t) PROVE Served(s)'
  <2>1. Made(z) /\ waiter' = waiter
    BY <1>0, <1>5, WhereThreadIs DEF didDropExternalReference, At, InSession
  <2>2. Closed(session[z]) \in SessionRec /\ GivesUp(z, Closed(session[z])) /\ z \in Sessions
    BY <2>1, SessionFacts, GivenUp
  <2>3. \/ session' = session /\ registered' = registered
        \/ /\ session[z].state # "inactive"
           /\ becomeWith(registered, t, z, Closed(session[z]), Resting)
    BY <1>5 DEF didDropExternalReference, close, become
  <2> QED
    BY <1>3, <2>1, <2>2, <2>3, SameServed
<1>6. ASSUME logOutSession(t) PROVE Served(s)'
  <2> DEFINE f == IF session[z].state = "inactive" THEN session[z] ELSE Inactive(session[z])
  <2>1. Made(z) /\ waiter' = waiter
    BY <1>0, <1>6, WhereThreadIs DEF logOutSession, At, InSession
  <2>2. /\ z \in Sessions /\ f \in SessionRec /\ GivesUp(z, f)
        /\ f.state # "dying"
    BY <1>4, <2>1
  <2>3. becomeWith(registered, t, z, f, [thread[t] EXCEPT !.pc = "loggedOut"])
    BY <1>6 DEF logOutSession, become
  <2> HIDE DEF f, z
  <2> QED
    BY <1>3, <2>1, <2>2, <2>3
<1>7. ASSUME NEW x \in Sessions, suspend(t, x) \/ tokenFails(t, x) PROVE Served(s)'
  <2> DEFINE f == IF session[x].state = "inactive" THEN session[x] ELSE Inactive(session[x])
  <2>1. Made(x) /\ waiter' = waiter
    BY <1>7, AliveIsMade DEF suspend, tokenFails, InSession, IInv, InUse
  <2>2. f \in SessionRec /\ GivesUp(x, f) /\ f.state # "dying"
    BY <1>4, <2>1
  <2>3. becomeWith(registered, t, x, f, Resting)
    BY <1>7 DEF suspend, tokenFails, become
  <2> HIDE DEF f
  <2> QED
    BY <1>3, <2>1, <2>2, <2>3
<1>8. ASSUME NEW x \in Sessions, refreshAccessToken(t, x) PROVE Served(s)'
  <2> DEFINE active == [session[x] EXCEPT !.state = "active", !.under = TRUE]
             f == IF session[x].state # "waiting" THEN session[x]
                  ELSE IF session[x].deferredClose THEN Closed(active) ELSE active
  <2>1. Made(x) /\ waiter' = waiter /\ becomeWith(registered, t, x, f, Resting)
    BY <1>8 DEF refreshAccessToken, InSession, become, IInv, InUse
  <2>2. /\ active \in SessionRec /\ active.state = "active" /\ active.under
        /\ active.waits = session[x].waits
    BY <1>4, <2>1 DEF SessionRec
  <2>3. /\ Closed(active) \in SessionRec
        /\ Closed(active).waits = IF Closed(active).state = "inactive" THEN {} ELSE session[x].waits
    BY <2>2, ClosedRecord, WaitsOf
  <2>4. /\ f \in SessionRec /\ GivesUp(x, f)
        /\ session[x].state = "inactive" => f.state # "dying"
    BY <1>4, <2>1, <2>2, <2>3 DEF GivesUp
  <2> HIDE DEF f
  <2> QED
    BY <1>3, <2>1, <2>4
<1>9. ASSUME NEW x \in Sessions, NEW w \in Waiters, waitForCompletion(t, w, x)
      PROVE  Served(s)'
  <2>1. session \in [Sessions -> SessionRec]
    BY DEF IInv, Types
  <2>2. /\ session' = [session EXCEPT ![x].waits = session[x].waits \cup {w}]
        /\ waiter' = [waiter EXCEPT ![w] = "queued"] /\ waiter[w] = "new"
        /\ registered \subseteq registered'
        /\ session[x].waits = {} /\ session[x].state \in {"active", "dying"} =>
             Handler("wait", x) \in registered'
    BY <1>9 DEF waitForCompletion
  <2>3. /\ session'[x].waits = session[x].waits \cup {w}
        /\ session'[x].state = session[x].state
        /\ \A r \in Sessions : r # x => session'[r] = session[r]
    BY <2>1, <2>2 DEF SessionRec
  <2>4. \A v \in session[s].waits : waiter'[v] = waiter[v]
    <3>1. \A r \in Sessions : w \notin session[r].waits
      BY <2>2 DEF CallbacksKept, Kept, Waiting
    <3>2. session[s].waits \subseteq Waiters
      BY <2>1 DEF SessionRec
    <3> QED
      BY <2>2, <3>1, <3>2 DEF CallbacksKept
  <2>5. HasHandler(s) => HasHandler(s)'
    BY <2>2 DEF HasHandler
  <2>6. CASE s = x /\ session[x].waits = {}
    <3>1. /\ Handler("wait", x).kind = "wait" /\ Handler("wait", x).s = x
          /\ Handler("wait", x).due # "cancelled"
      BY DEF Handler
    <3> QED
      BY <2>2, <2>3, <2>6, <3>1 DEF Served, HasHandler
  <2>7. CASE s = x /\ session[x].waits # {}
    BY <2>3, <2>4, <2>5, <2>7 DEF Served
  <2>8. CASE s # x
    BY <2>3, <2>4, <2>5, <2>8 DEF Served
  <2> QED
    BY <2>6, <2>7, <2>8
<1>10. ASSUME NEW p \in Policies, NEW resync \in BOOLEAN, configure(t, p, resync)
       PROVE  Served(s)'
  <2> DEFINE f == Configured(z, p, resync)
             next == IF session[z].state = "inactive" THEN Start("reviving", "", z) ELSE thread[t]
  <2>1. Made(z) /\ waiter' = waiter
    BY <1>0, <1>10, WhereThreadIs DEF configure, At, InSession
  <2>2. z \in Sessions /\ f \in SessionRec /\ GivesUp(z, f) /\ f.state # "dying"
    BY <1>4, <2>1, ConfiguredFacts DEF GivesUp
  <2>3. becomeWith(registered, t, z, f, next)
    BY <1>10 DEF configure, become, Configured
  <2> HIDE DEF f, next, z
  <2> QED
    BY <1>3, <2>1, <2>2, <2>3
<1> QED
  BY <1>1, <1>2, <1>5, <1>6, <1>7, <1>8, <1>9, <1>10 DEF appStep

LEMMA ServedAny ==
  ASSUME IInv, CallbacksKept, NEW t \in AllThreads, anyStep(t), NEW s \in Sessions, Served(s)
  PROVE  Served(s)'
<1> DEFINE z == thread[t].s
<1>1. registered \in SUBSET registered
  OBVIOUS
<1>2. ASSUME reviveIfNeeded(t) PROVE Served(s)'
  <2> DEFINE next == IF thread[t].op \in {"get", "create"}
                     THEN [thread[t] EXCEPT !.pc = "registered"] ELSE Resting
  <2>1. /\ Made(z) /\ waiter' = waiter
        /\ becomeWith(registered, t, z, Revived(session[z]), next)
    BY <1>2, WhereThreadIs DEF reviveIfNeeded, At, InSession, become
  <2>2. /\ z \in Sessions /\ Revived(session[z]) \in SessionRec
        /\ GivesUp(z, Revived(session[z])) /\ Revived(session[z]).state # "dying"
    BY <2>1, SessionFacts, GivenUp, RevivedRecord
  <2> HIDE DEF next, z
  <2> QED
    BY <1>1, <2>1, <2>2, BecomeServes
<1>3. ASSUME unregisterSession(t) PROVE Served(s)'
  BY <1>3, SameServed DEF unregisterSession
<1>4. ASSUME leaveRegistered(t) PROVE Served(s)'
  <2>1. Made(map) /\ waiter' = waiter
    BY <1>4 DEF leaveRegistered, At, IInv, Mutexes, SessionMutexOf, InUse
  <2>2. /\ map \in Sessions /\ Closed(session[map]) \in SessionRec
        /\ GivesUp(map, Closed(session[map]))
    BY <2>1, SessionFacts, GivenUp
  <2>3. \/ session' = session /\ registered' = registered
        \/ /\ session[map].state # "inactive"
           /\ becomeWith(registered, t, map, Closed(session[map]),
                         [thread[t] EXCEPT !.pc = "telling"])
    BY <1>4 DEF leaveRegistered, close, become
  <2> QED
    BY <1>1, <2>1, <2>2, <2>3, SameServed, BecomeServes
<1>5. ASSUME tell(t) PROVE Served(s)'
  <2>1. /\ session' = session /\ registered' = registered
        /\ \A w \in Waiters : waiter'[w] = "queued" => waiter[w] = "queued"
    BY <1>5 DEF tell
  <2>2. session[s].waits \subseteq Waiters
    BY DEF IInv, Types, SessionRec
  <2> QED
    BY <2>1, <2>2 DEF Served, HasHandler
<1> QED
  BY <1>2, <1>3, <1>4, <1>5 DEF anyStep

LEMMA ServedHandlers ==
  ASSUME IInv, NEW h \in registered, waitCompletes(h) \/ deathCompletes(h),
         NEW s \in Sessions, Served(s), IsAlive(s)
  PROVE  Served(s)'
<1>0. Made(h.s) /\ h.s \in Sessions /\ session \in [Sessions -> SessionRec] /\ Loop \in AllThreads
  BY DEF IInv, InUse, Made, Types, AllThreads
<1>1. CASE waitCompletes(h)
  <2>1. /\ registered' = registered \ {h} /\ waiter' = waiter
        /\ \/ IsAlive(h.s) /\ session' = [session EXCEPT ![h.s].waits = {}]
           \/ ~IsAlive(h.s) /\ session' = session
    BY <1>1 DEF waitCompletes, InSession
  <2>2. s = h.s => session'[s].waits = {}
    BY <1>0, <2>1 DEF SessionRec
  <2>3. s # h.s => session'[s] = session[s] /\ (HasHandler(s) => HasHandler(s)')
    BY <1>0, <2>1 DEF HasHandler
  <2> QED
    BY <2>1, <2>2, <2>3 DEF Served
<1>2. CASE deathCompletes(h)
  <2> DEFINE f == IF IsAlive(h.s) /\ session[h.s].state = "dying" THEN Inactive(session[h.s])
                  ELSE session[h.s]
  <2>1. /\ becomeWith(registered \ {h}, Loop, h.s, f, Resting) /\ waiter' = waiter
        /\ h.kind = "death" /\ registered \ {h} \in SUBSET registered
    BY <1>2 DEF deathCompletes, InSession
  <2>2. /\ f \in SessionRec /\ GivesUp(h.s, f)
        /\ session[h.s].state = "inactive" => f.state # "dying"
    BY <1>0, SessionFacts, GivenUp
  <2> HIDE DEF f
  <2> QED
    BY <1>0, <2>1, <2>2, BecomeServes
<1> QED
  BY <1>1, <1>2

LEMMA ServedLoop ==
  ASSUME IInv, CallbacksKept, MadeInOrder, loopStep,
         NEW s \in Sessions, Served(s), IsAlive(s)
  PROVE  Served(s)'
<1> DEFINE z == thread[Loop].s
           ended == Inactive(session[z])
<1>0. /\ Loop \in AllThreads /\ session \in [Sessions -> SessionRec]
      /\ session[s].waits \subseteq Waiters /\ registered \in SUBSET registered
  BY DEF IInv, Types, AllThreads, SessionRec
<1>1. ASSUME thread[Loop].pc \notin {"idle", "loggedOut"}
      PROVE  /\ Made(z) /\ z \in Sessions /\ thread[Loop] \in ThreadRec
             /\ session[z] \in SessionRec /\ ended \in SessionRec /\ ended.state = "inactive"
             /\ GivesUp(z, session[z])
             /\ session[z].state # "inactive" => GivesUp(z, ended)
  BY <1>0, <1>1, WhereThreadIs, SessionFacts, GivenUp
<1>2. ASSUME upload PROVE Served(s)'
  <2>1. /\ waiter' = waiter
        /\ registered' = {IF h.due = "not yet" THEN [h EXCEPT !.due = "yes"] ELSE h : h \in registered}
    BY <1>2 DEF upload
  <2>2. session'[s].waits = session[s].waits /\ session'[s].state = session[s].state
    BY <1>2, UploadKeepsOrder
  <2>3. ASSUME HasHandler(s) PROVE HasHandler(s)'
    <3>1. PICK h \in registered : h.kind = "wait" /\ h.s = s /\ h.due # "cancelled"
      BY <2>3 DEF HasHandler
    <3>2. h \in HandlerRec
      BY DEF IInv, Types
    <3> DEFINE g == IF h.due = "not yet" THEN [h EXCEPT !.due = "yes"] ELSE h
    <3>3. g.kind = "wait" /\ g.s = s /\ g.due # "cancelled"
      BY <3>1, <3>2 DEF HandlerRec
    <3>4. g \in registered'
      BY <2>1
    <3> QED
      BY <3>3, <3>4 DEF HasHandler
  <2> QED
    BY <2>1, <2>2, <2>3 DEF Served
<1>3. ASSUME errorWhileDying PROVE Served(s)'
  <2> DEFINE f == IF thread[Loop].op = "expired" THEN session[z] ELSE ended
  <2>1. /\ thread[Loop].pc = "error" /\ becomeWith(registered, Loop, z, f, Resting)
        /\ waiter' = waiter /\ session[z].state = "dying"
    BY <1>3 DEF errorWhileDying, At, become, InSession
  <2>2. f \in SessionRec /\ GivesUp(z, f)
    BY <1>1, <2>1
  <2> HIDE DEF f, ended
  <2> QED
    BY <1>0, <1>1, <2>1, <2>2, BecomeServes
<1>4. ASSUME session' = [session EXCEPT ![z].waits = {}], z \in Sessions,
             registered' = registered, waiter' = waiter
      PROVE  Served(s)'
  <2>1. s = z => session'[s].waits = {}
    BY <1>0, <1>4 DEF SessionRec
  <2>2. s # z => session'[s] = session[s]
    BY <1>0, <1>4
  <2> QED
    BY <1>4, <2>1, <2>2 DEF Served, HasHandler
<1>5. ASSUME handleError PROVE Served(s)'
  <2> DEFINE waiting == [session[z] EXCEPT !.state = "waiting", !.deferredClose = FALSE]
  <2>1. /\ thread[Loop].pc = "error" /\ waiter' = waiter
        /\ thread[Loop].op \in {"expired", "fatal", "badAuth", "reset", "denied"}
    BY <1>0, <1>5, SyncAssumption, WhereThreadIs DEF handleError, At, ThreadRec, SyncAssumption, InSession
  <2>2. waiting \in SessionRec /\ GivesUp(z, waiting) /\ waiting.state # "dying"
    BY <1>1, <2>1 DEF SessionRec, GivesUp
  <2>3. \/ becomeWith(registered, Loop, z, waiting, Resting)
        \/ session' = session /\ registered' = registered
        \/ session' = [session EXCEPT ![z].waits = {}] /\ registered' = registered
    BY <1>5, <2>1 DEF handleError, become
  <2> HIDE DEF waiting
  <2> QED
    BY <1>0, <1>1, <1>4, <2>1, <2>2, <2>3, SameServed, BecomeServes
<1>6. ASSUME endSession PROVE Served(s)'
  <2> DEFINE f == IF aborted' = "" THEN ended ELSE session[z]
  <2>1. /\ thread[Loop].pc = "ending" /\ becomeWith(registered, Loop, z, f, Resting)
        /\ waiter' = waiter /\ (aborted' = "" => session[z].state # "inactive")
    BY <1>6 DEF endSession, At, become
  <2>2. /\ f \in SessionRec /\ GivesUp(z, f)
        /\ session[z].state = "inactive" => f.state # "dying"
    BY <1>1, <2>1
  <2> HIDE DEF f, ended
  <2> QED
    BY <1>0, <1>1, <2>1, <2>2, BecomeServes
<1>7. ASSUME resyncSession PROVE Served(s)'
  <2> DEFINE H == registered \ Outdated("wait", z)
             next == [Start("", "resync", z) EXCEPT !.saved = session[z].waits]
  <2>1. /\ thread[Loop].pc = "resyncing" /\ waiter' = waiter
        /\ \/ session' = session /\ registered' = registered
           \/ session[z].state # "inactive" /\ becomeWith(H, Loop, z, ended, next)
    BY <1>7 DEF resyncSession, At
  <2>2. /\ H \in SUBSET registered
        /\ \A h \in registered : h.kind = "wait" /\ h \notin H => h.s = z
    BY DEF Outdated
  <2> HIDE DEF H, next, ended
  <2> QED
    BY <1>0, <1>1, <2>1, <2>2, SameServed, BecomeServes
<1>8. ASSUME putBackWaits PROVE Served(s)'
  <2>1. /\ thread[Loop].pc = "puttingBack" /\ registered' = registered
        /\ session' = [session EXCEPT ![z].waits = thread[Loop].saved]
        /\ \A w \in Waiters : waiter'[w] = "queued" => waiter[w] = "queued"
        /\ \A w \in Waiters : w \in thread[Loop].saved => waiter'[w] # "queued"
    BY <1>8 DEF putBackWaits, At
  <2>2. thread[Loop].saved \subseteq Waiters /\ z \in Sessions
    BY <1>1, <2>1 DEF ThreadRec
  <2>3. s = z => session'[s].waits = thread[Loop].saved
    BY <1>0, <2>1 DEF SessionRec
  <2>4. s # z => session'[s] = session[s]
    BY <1>0, <2>1
  <2>5. CASE s = z
    BY <2>1, <2>2, <2>3, <2>5 DEF Served
  <2>6. CASE s # z
    BY <1>0, <2>1, <2>4, <2>6 DEF Served, HasHandler
  <2> QED
    BY <2>5, <2>6
<1>9. ASSUME invalidateUser \/ \E x \in Sessions, error \in Errors : hearError(x, error)
      PROVE  Served(s)'
  BY <1>9, SameServed DEF invalidateUser, hearError, InSession
<1> QED
  BY <1>2, <1>3, <1>5, <1>6, <1>7, <1>8, <1>9, ServedHandlers DEF loopStep
------------------------------------------------------------------------------
ServedInv == \A s \in Sessions : IsAlive(s) => Served(s)

LEMMA NextServes ==
  IInv /\ MadeInOrder /\ CallbacksKept /\ ServedInv /\ [Next]_vars => ServedInv'
<1> SUFFICES ASSUME IInv, MadeInOrder, CallbacksKept, ServedInv, [Next]_vars,
                    NEW s \in Sessions, IsAlive(s)'
             PROVE  Served(s)'
  BY DEF ServedInv
<1>1. CASE UNCHANGED vars
  <2>1. /\ IsAlive(s) /\ session' = session /\ registered' = registered /\ waiter' = waiter
    BY <1>1 DEF IsAlive, vars, managerVars
  <2> QED
    BY <2>1, SameServed DEF ServedInv
<1>2. CASE Next
  <2>1. CASE Made(s)
    <3>1. IsAlive(s) /\ Served(s)
      BY <1>2, <2>1, DeadStays DEF ServedInv
    <3> QED
      BY <1>2, <3>1, ServedApp, ServedAny, ServedLoop DEF Next
  <2>2. CASE ~Made(s)
    <3>1. Served(s) /\ ~(session[s].state \in {"active", "dying"})
      BY <2>2 DEF Served, Made
    <3>2. ~ChangesMade \/ session'[s] = session[s]
      BY <2>2 DEF ChangesMade, IInv, Types, Made
    <3>3. ASSUME ChangesMade PROVE Served(s)'
      BY <3>1, <3>2, <3>3 DEF Served
    <3>4. ASSUME NEW t \in Threads, appStep(t) PROVE Served(s)'
      BY <3>1, <3>4, ServedApp
    <3>5. ASSUME NEW t \in AllThreads, anyStep(t) PROVE Served(s)'
      BY <3>1, <3>5, ServedAny
    <3>6. ASSUME loopStep PROVE Served(s)'
      <4>1. CASE upload
        BY <3>1, <4>1, UploadKeepsOrder DEF Served
      <4>2. CASE ~upload
        BY <3>3, <3>6, <4>2, LoopChangesMade DEF loopStep
      <4> QED
        BY <4>1, <4>2
    <3> QED
      BY <1>2, <3>4, <3>5, <3>6 DEF Next
  <2> QED
    BY <2>1, <2>2
<1> QED
  BY <1>1, <1>2

LEMMA InitServes == Init => ServedInv
<1> SUFFICES ASSUME Init PROVE ServedInv
  OBVIOUS
<1>1. \A s \in Sessions : session[s].state = "none"
  BY DEF Init, NoSession
<1> QED
  BY <1>1 DEF ServedInv, Served

LEMMA CallbacksInvariant == Spec => [](IInv /\ MadeInOrder /\ CallbacksKept /\ ServedInv)
<1>1. Init => IInv /\ MadeInOrder /\ CallbacksKept /\ ServedInv
  BY InitEstablishes, InitInOrder, InitKeepsCallbacks, InitServes
<1>2. IInv /\ MadeInOrder /\ CallbacksKept /\ ServedInv /\ [Next]_vars =>
        (IInv /\ MadeInOrder /\ CallbacksKept /\ ServedInv)'
  BY NextKeeps, NextKeepsOrder, NextMoves, NextServes
<1> QED
  BY <1>1, <1>2, PTL DEF Spec

(* A completion callback that was handed in is kept in one place until it is *)
(* called, and called once, whatever errors, log outs and deaths come in    *)
(* between; a client resync loses those that were handed in while it tore   *)
(* the session down, which WaitersKept leaves out.                          *)
THEOREM CallbacksAreKept == Spec => []WaitersKept
<1> QED
  BY CallbacksInvariant, KeptOnce, PTL

(* Callbacks that wait at a session in use, and were not put back by a      *)
(* client resync, have a handler of the sync::Session in use: however the   *)
(* session was closed, revived and made again, wait_for_upload_completion   *)
(* is answered.                                                             *)
THEOREM CallbacksAreRegistered == Spec => []WaitersRegistered
<1>1. ServedInv => WaitersRegistered
  BY DEF ServedInv, Served, HasHandler, WaitersRegistered
<1> QED
  BY <1>1, CallbacksInvariant, PTL

(* The weak pointers of the binding and of SyncUser: a SyncSession that     *)
(* nothing points to any more is destroyed, and stays so.                   *)
THEOREM DeadSessionsStayDead == Spec => [][\A s \in Sessions : Dead(s) => ~IsAlive(s)']_vars
<1>1. IInv /\ MadeInOrder /\ [Next]_vars => [\A s \in Sessions : Dead(s) => ~IsAlive(s)']_vars
  BY DeadStays DEF Dead
<1>2. Spec => [](IInv /\ MadeInOrder)
  BY CallbacksInvariant, PTL
<1> QED
  BY <1>1, <1>2, PTL DEF Spec
=============================================================================
