-------------------------- MODULE AuthSessionProofs --------------------------
(***************************************************************************)
(* Proofs about AuthSession, for any number of tasks, sessions and         *)
(* refreshes: its types; that the copies of a session keep apart; that     *)
(* the keyring never goes back to used-up tokens; that no session that     *)
(* waits for a code is used or saved; that the keyring can refresh.        *)
(***************************************************************************)
EXTENDS AuthSession, TLAPS

Statuses == {"none", "wantsCode", "wantsKey", "live", "revoked"}
ServerSide == [status : Statuses, gen : Nat, fresh : BOOLEAN]
TaskSide == [at : Places, sess : MaybeSession]

TasksOK ==
  /\ task \in [Everyone -> TaskSide]
  /\ \A t \in Everyone : task[t].sess = NoSession <=> task[t].at = "idle"

\* Everything TypeOK says but for the tasks.
OthersOK ==
  /\ api \in MaybeSession
  /\ pending \in MaybeSession
  /\ ring \in MaybeSession
  /\ server \in [Uids -> ServerSide]
  /\ out \in BOOLEAN
  /\ spoilt \in SUBSET Uids

-----------------------------------------------------------------------------
(* Types *)

LEMMA TypeParts == /\ TypeOK <=> TasksOK /\ OthersOK
                   /\ TypeOK' <=> TasksOK' /\ OthersOK'
  BY DEF TypeOK, TasksOK, OthersOK, TaskSide, ServerSide, Statuses, At

\* A task that moves to a place with a session, or stops, keeps its type.
LEMMA GotoType ==
  ASSUME TypeOK, NEW t \in Everyone, NEW place \in Places \ {"idle"},
         NEW s \in Session, Goto(t, place, s)
  PROVE  TasksOK'
  BY NoSessionAssumption DEF TypeOK, TasksOK, Goto, TaskSide, MaybeSession, At

LEMMA StopType ==
  ASSUME TypeOK, NEW t \in Everyone, Stop(t)
  PROVE  TasksOK'
  BY DEF TypeOK, TasksOK, Stop, Idle, TaskSide, MaybeSession, At, Places

LEMMA HoldsSession ==
  ASSUME TypeOK, NEW t \in Everyone, ~At(t, "idle")
  PROVE  task[t].sess \in Session
  BY DEF TypeOK, At, MaybeSession

LEMMA StepType ==
  ASSUME TypeOK, NEW t \in Everyone, NEW from \in Places \ {"idle"},
         NEW to \in Places \ {"idle"}, Step(t, from, to)
  PROVE  TasksOK'
  BY HoldsSession, GotoType DEF Step, At

LEMMA AskRefreshType ==
  ASSUME TypeOK, NEW t \in Everyone, NEW from \in Places \ {"idle"},
         NEW to \in Places \ {"idle"}, AskRefresh(t, from, to)
  PROVE  TypeOK'
<1>1. OthersOK
  BY TypeParts
<1> DEFINE s == task[t].sess
<1>2. s \in Session /\ s.uid \in Uids /\ s.gen \in Nat
  BY HoldsSession DEF AskRefresh, At, Session
<1>3. Refreshed(s) \in Session
  BY <1>2 DEF Refreshed, Session
<1>4. TasksOK'
  BY <1>3, GotoType, StopType DEF AskRefresh
<1>5. Rotate(s) => server' \in [Uids -> ServerSide]
  BY <1>1, <1>2 DEF Rotate, OthersOK, ServerSide
<1>6. OthersOK'
  BY <1>1, <1>2, <1>5 DEF AskRefresh, OthersOK
<1> QED BY <1>4, <1>6, TypeParts

LEMMA RequestType ==
  ASSUME TypeOK, NEW t \in Tasks, Request(t)
  PROVE  TypeOK'
<1>1. OthersOK /\ t \in Everyone
  BY TypeParts DEF Everyone
<1>s. ASSUME NEW place \in Places \ {"idle"}, At(t, place)
      PROVE  task[t].sess \in Session /\ task[t].sess.uid \in Uids
  BY <1>1, <1>s, HoldsSession DEF At, Session
<1>2. CASE Authenticate(t)
  <2>1. PICK u \in Uids, status \in {"live", "wantsCode", "wantsKey"},
            answered \in BOOLEAN :
          /\ server' = [server EXCEPT ![u] =
                          [status |-> status, gen |-> 0, fresh |-> TRUE]]
          /\ IF answered
             THEN Goto(t, IF status = "wantsCode" THEN "unverified" ELSE "save",
                       [uid |-> u, gen |-> 0])
             ELSE UNCHANGED task
    BY <1>2 DEF Authenticate
  <2>2. TasksOK'
    <3>1. [uid |-> u, gen |-> 0] \in Session
      BY DEF Session
    <3>2. CASE answered
      BY <1>1, <2>1, <3>1, <3>2, GotoType DEF Places
    <3>3. CASE ~answered
      BY <2>1, <3>3, TypeParts DEF TasksOK
    <3> QED BY <3>2, <3>3
  <2>3. OthersOK'
    BY <1>1, <1>2, <2>1 DEF Authenticate, OthersOK, ServerSide, Statuses
  <2> QED BY <2>2, <2>3, TypeParts
<1>3. CASE KeepPending(t)
  BY <1>1, <1>3, <1>s, StopType, TypeParts
     DEF KeepPending, OthersOK, MaybeSession, Places
<1>4. CASE TakePending(t)
  <2>1. pending \in Session
    BY <1>1, <1>4 DEF TakePending, OthersOK, MaybeSession
  <2>2. TasksOK'
    BY <1>1, <1>4, <2>1, GotoType DEF TakePending, Places
  <2> QED
    BY <1>1, <1>4, <2>2, TypeParts DEF TakePending, OthersOK, MaybeSession
<1>5. CASE Submit(t)
  <2>1. TasksOK'
    BY <1>1, <1>5, StopType, StepType DEF Submit, Places
  <2>2. OthersOK'
    BY <1>1, <1>5, <1>s DEF Submit, OthersOK, ServerSide, Statuses, Places
  <2> QED BY <2>1, <2>2, TypeParts
<1>6. CASE SaveLogin(t)
  <2>1. TasksOK'
    BY <1>1, <1>6, <1>s, StopType, GotoType DEF SaveLogin, Places
  <2>2. OthersOK'
    BY <1>1, <1>6, <1>s DEF SaveLogin, OthersOK, MaybeSession, Places
  <2> QED BY <2>1, <2>2, TypeParts
<1>7. CASE SetLogin(t)
  <2>1. TasksOK'
    BY <1>1, <1>7, StopType, StepType DEF SetLogin, Places
  <2>2. OthersOK'
    BY <1>1, <1>7, <1>s DEF SetLogin, OthersOK, MaybeSession, Places
  <2> QED BY <2>1, <2>2, TypeParts
<1>8. CASE ClearPending(t)
  BY <1>1, <1>8, StopType, TypeParts DEF ClearPending, OthersOK, MaybeSession
<1>9. CASE StartLogout(t) \/ StartCall(t) \/ StartHeldCall(t)
  <2>1. api \in Session
    BY <1>1, <1>9 DEF StartLogout, StartCall, StartHeldCall, OthersOK,
                      MaybeSession
  <2>2. TasksOK'
    BY <1>1, <1>9, <2>1, GotoType
       DEF StartLogout, StartCall, StartHeldCall, Places
  <2> QED
    BY <1>1, <1>9, <2>2, TypeParts
       DEF StartLogout, StartCall, StartHeldCall, OthersOK
<1>10. CASE Revoke(t)
  <2>1. TasksOK'
    BY <1>1, <1>10, StopType, StepType DEF Revoke, Places
  <2>2. OthersOK'
    BY <1>1, <1>10, <1>s DEF Revoke, OthersOK, ServerSide, Statuses, Places
  <2> QED BY <2>1, <2>2, TypeParts
<1>11. CASE Delete(t)
  <2>1. TasksOK'
    BY <1>1, <1>11, StopType, StepType DEF Delete, Places
  <2> QED BY <1>1, <1>11, <2>1, TypeParts DEF Delete, OthersOK, MaybeSession
<1>12. CASE Forget(t)
  BY <1>1, <1>12, StopType, TypeParts DEF Forget, OthersOK, MaybeSession
<1>13. CASE Unauthorized(t)
  <2>1. TasksOK'
    BY <1>1, <1>13, StepType DEF Unauthorized, Places
  <2> QED BY <1>1, <1>13, <2>1, TypeParts DEF Unauthorized, OthersOK
<1>14. CASE EndCall(t)
  BY <1>1, <1>14, StopType, TypeParts DEF EndCall, OthersOK
<1>15. CASE RefreshCall(t)
  BY <1>1, <1>15, AskRefreshType DEF RefreshCall, Places
<1>16. CASE StoreCall(t)
  <2>1. TasksOK'
    BY <1>1, <1>16, StopType, StepType DEF StoreCall, Places
  <2>2. OthersOK'
    BY <1>1, <1>16, <1>s
       DEF StoreCall, Step, OthersOK, MaybeSession, Places
  <2> QED BY <2>1, <2>2, TypeParts
<1> QED
  BY <1>2, <1>3, <1>4, <1>5, <1>6, <1>7, <1>8, <1>9, <1>10, <1>11, <1>12,
     <1>13, <1>14, <1>15, <1>16 DEF Request

LEMMA NextType == TypeOK /\ [Next]_vars => TypeOK'
<1> SUFFICES ASSUME TypeOK, [Next]_vars PROVE TypeOK'
  OBVIOUS
<1>1. OthersOK /\ Loop \in Everyone
  BY TypeParts DEF Everyone
<1>2. CASE \E t \in Tasks : Request(t)
  BY <1>2, RequestType
<1>3. CASE StartRefresh
  <2>1. api \in Session
    BY <1>1, <1>3 DEF StartRefresh, OthersOK, MaybeSession
  <2>2. TasksOK'
    BY <1>1, <1>3, <2>1, GotoType DEF StartRefresh, Places
  <2> QED BY <1>1, <1>3, <2>2, TypeParts DEF StartRefresh, OthersOK
<1>4. CASE RefreshLoop
  BY <1>1, <1>4, AskRefreshType DEF RefreshLoop, Places
<1>5. CASE StoreLoop
  <2>1. task[Loop].sess \in Session /\ task[Loop].sess.uid \in Uids
    BY <1>1, <1>5, HoldsSession DEF StoreLoop, Step, At, Session
  <2>2. TasksOK'
    BY <1>1, <1>5, StepType DEF StoreLoop, Places
  <2> QED
    BY <1>1, <1>5, <2>1, <2>2, TypeParts DEF StoreLoop, OthersOK, MaybeSession
<1>6. CASE SetLoop
  <2>1. task[Loop].sess \in Session
    BY <1>1, <1>6, HoldsSession DEF SetLoop, At
  <2>2. TasksOK'
    BY <1>1, <1>6, StopType DEF SetLoop
  <2> QED
    BY <1>1, <1>6, <2>1, <2>2, TypeParts DEF SetLoop, OthersOK, MaybeSession
<1>7. ASSUME NEW u \in Uids, Expire(u) \/ RevokeElsewhere(u) PROVE TypeOK'
  <2>1. server' \in [Uids -> ServerSide]
    BY <1>1, <1>7
       DEF Expire, RevokeElsewhere, OthersOK, ServerSide, Statuses
  <2> QED
    BY <1>1, <1>7, <2>1, TypeParts
       DEF Expire, RevokeElsewhere, OthersOK, TasksOK
<1>8. CASE Restart
  <2>1. TasksOK'
    BY <1>8 DEF Restart, TasksOK, TaskSide, Idle, Places, MaybeSession
  <2>2. ASSUME NEW t \in Everyone, Saving(t)
        PROVE  task[t].sess.uid \in Uids
    BY <2>2, HoldsSession DEF Saving, At, Session
  <2>3. OthersOK'
    BY <1>1, <1>8, <2>2 DEF Restart, OthersOK, MaybeSession
  <2> QED BY <2>1, <2>3, TypeParts
<1>9. CASE UNCHANGED vars
  BY <1>9 DEF vars, TypeOK, At
<1> QED BY <1>2, <1>3, <1>4, <1>5, <1>6, <1>7, <1>8, <1>9 DEF Next

LEMMA InitType == Init => TypeOK
<1> SUFFICES ASSUME Init PROVE TypeOK
  OBVIOUS
<1>1. TasksOK
  BY DEF Init, TasksOK, TaskSide, Idle, Places, MaybeSession
<1>2. OthersOK
  BY DEF Init, OthersOK, ServerSide, Statuses, MaybeSession
<1> QED BY <1>1, <1>2, TypeParts

\* Every copy of a session is a session or none, and a task has one exactly
\* while it is at work.
THEOREM SessionTypes == Spec => []TypeOK
  BY InitType, NextType, PTL DEF Spec

-----------------------------------------------------------------------------
(* Who may hold what *)

Verified(s) == s # NoSession => server[s.uid].status \notin {"none", "wantsCode"}
Opened(s) == s # NoSession => server[s.uid].status # "none"
NotAhead(s) == s # NoSession => s.gen <= server[s.uid].gen

\* s is no copy of r's session; s is no copy of it, or an older one.
NotOf(s, r) == s # NoSession => s.uid # r.uid
Below(s, r) == s # NoSession /\ s.uid = r.uid => s.gen < r.gen

\* A login on its way that is in neither the keyring nor the handler.
Unsaved(t) == task[t].at \in {"unverified", "submit", "save", "saveVerified"}

OnlyVerified ==
  /\ Verified(api) /\ Verified(ring)
  /\ \A t \in Everyone : ~Verifying(t) => Verified(task[t].sess)

AllOpened ==
  /\ Opened(api) /\ Opened(ring) /\ Opened(pending)
  /\ \A t \in Everyone : Opened(task[t].sess)

NoneAhead ==
  /\ NotAhead(api) /\ NotAhead(ring) /\ NotAhead(pending)
  /\ \A t \in Everyone : NotAhead(task[t].sess)

\* A login on its way, or waiting for its second factor, is the only copy.
LoginAlone ==
  \A t \in Everyone : Unsaved(t) =>
    /\ NotOf(api, task[t].sess)
    /\ NotOf(ring, task[t].sess)
    /\ NotOf(pending, task[t].sess)
    /\ \A x \in Everyone \ {t} : NotOf(task[x].sess, task[t].sess)

PendingAlone ==
  pending # NoSession =>
    /\ NotOf(api, pending)
    /\ NotOf(ring, pending)
    /\ \A t \in Everyone : NotOf(task[t].sess, pending)

\* Tokens about to be saved are the server's current ones, and newer than those
\* of any other copy: nobody can have refreshed with them.
NewestAlone ==
  \A t \in Everyone : Saving(t) =>
    /\ task[t].sess.gen = server[task[t].sess.uid].gen
    /\ Below(api, task[t].sess)
    /\ Below(ring, task[t].sess)
    /\ Below(pending, task[t].sess)
    /\ \A x \in Everyone \ {t} : Below(task[x].sess, task[t].sess)

CopyInv == AllOpened /\ NoneAhead /\ LoginAlone /\ PendingAlone /\ NewestAlone

-----------------------------------------------------------------------------
(* The ways in which copies move *)

\* The server forgets nothing and grants nothing.
ServerKeeps ==
  \A u \in Uids : /\ server'[u].gen = server[u].gen
                  /\ server[u].status # "none" => server'[u].status # "none"

OthersWait(t) == \A x \in Everyone \ {t} : task'[x] = task[x]

\* Task t passes its copy on, keeps it or drops it; others drop theirs.
Passes(t) ==
  /\ ServerKeeps
  /\ OthersWait(t)
  /\ task'[t].sess \in {task[t].sess, NoSession}
  /\ ~Saving(t)'
  /\ api' \in {api, NoSession, task[t].sess}
  /\ ring' \in {ring, NoSession, task[t].sess}
  /\ \/ pending' \in {pending, NoSession}
     \/ /\ Unsaved(t) /\ pending' = task[t].sess
        /\ task'[t].sess = NoSession
        /\ api' = api /\ ring' = ring
  /\ Unsaved(t)' => Unsaved(t) /\ api' = api /\ ring' = ring

\* Task t copies the handler's session.
Borrows(t) ==
  /\ ServerKeeps
  /\ OthersWait(t)
  /\ task'[t].sess = api
  /\ ~Saving(t)' /\ ~Unsaved(t)'
  /\ UNCHANGED <<api, ring, pending>>

\* Task t takes the pending login.
Takes(t) ==
  /\ ServerKeeps
  /\ OthersWait(t)
  /\ task'[t].sess = pending
  /\ ~Saving(t)'
  /\ pending' = NoSession
  /\ UNCHANGED <<api, ring>>

\* Task t may receive the session u, which the server has just opened.
Opens(t, u) ==
  /\ task[t].at = "idle"
  /\ server[u].status = "none"
  /\ server'[u].status # "none" /\ server'[u].gen = 0
  /\ \A v \in Uids \ {u} : server'[v] = server[v]
  /\ OthersWait(t)
  /\ \/ task'[t] = task[t]
     \/ task'[t].sess = [uid |-> u, gen |-> 0] /\ ~Saving(t)'
  /\ UNCHANGED <<api, ring, pending>>

\* Task t may receive the next tokens of the session it holds.
Renews(t) ==
  LET s == task[t].sess
  IN  /\ s \in Session
      /\ ~Unsaved(t) /\ ~Unsaved(t)'
      /\ s.gen = server[s.uid].gen
      /\ server' = [server EXCEPT ![s.uid].gen = @ + 1, ![s.uid].fresh = TRUE]
      /\ OthersWait(t)
      /\ \/ task'[t].sess = NoSession /\ ~Saving(t)'
         \/ task'[t].sess = [s EXCEPT !.gen = @ + 1]
      /\ UNCHANGED <<api, ring, pending>>

\* Nothing moves, or everything is dropped but the keyring.
Rests ==
  /\ ServerKeeps
  /\ \/ UNCHANGED <<task, api, ring, pending>>
     \/ /\ \A t \in Everyone : task'[t] = Idle
        /\ pending' = NoSession /\ ring' = ring
        /\ api' \in {ring, NoSession}

Moves ==
  \/ \E t \in Everyone : Passes(t) \/ Borrows(t) \/ Takes(t) \/ Renews(t)
  \/ \E t \in Everyone, u \in Uids : Opens(t, u)
  \/ Rests

\* What the types say of each copy.
Copy(s) == s = NoSession \/ s \in Session

CopiesTyped ==
  /\ Copy(api) /\ Copy(ring) /\ Copy(pending)
  /\ \A t \in Everyone : Copy(task[t].sess)
  /\ \A t \in Everyone : Saving(t) \/ Unsaved(t) => task[t].sess \in Session
  /\ \A u \in Uids : server[u].gen \in Nat

LEMMA CopyTypes == (TypeOK => CopiesTyped) /\ (TypeOK' => CopiesTyped')
  BY DEF TypeOK, MaybeSession, CopiesTyped, Copy, Saving, Unsaved, At

LEMMA PassesKeeps ==
  ASSUME CopiesTyped, CopiesTyped', CopyInv, NEW t \in Everyone, Passes(t)
  PROVE  CopyInv'
<1> USE NoSessionAssumption DEF CopiesTyped, Copy, Session
<1>2. AllOpened'
  BY DEF CopyInv, AllOpened, Opened, Passes, ServerKeeps, OthersWait
<1>3. NoneAhead'
  BY DEF CopyInv, NoneAhead, NotAhead, Passes, ServerKeeps, OthersWait
<1>4. LoginAlone'
  BY DEF CopyInv, LoginAlone, NotOf, Passes, OthersWait, Unsaved
<1>5. PendingAlone'
  BY DEF CopyInv, LoginAlone, PendingAlone, NotOf, Passes, OthersWait
<1>6. NewestAlone'
  BY DEF CopyInv, NewestAlone, Below, Passes, ServerKeeps, OthersWait, Saving
<1> QED BY <1>2, <1>3, <1>4, <1>5, <1>6 DEF CopyInv

LEMMA BorrowsKeeps ==
  ASSUME CopiesTyped, CopiesTyped', CopyInv, NEW t \in Everyone, Borrows(t)
  PROVE  CopyInv'
<1> USE NoSessionAssumption DEF CopiesTyped, Copy, Session
<1>2. AllOpened'
  BY DEF CopyInv, AllOpened, Opened, Borrows, ServerKeeps, OthersWait
<1>3. NoneAhead'
  BY DEF CopyInv, NoneAhead, NotAhead, Borrows, ServerKeeps, OthersWait
<1>4. LoginAlone'
  BY DEF CopyInv, LoginAlone, NotOf, Borrows, OthersWait, Unsaved
<1>5. PendingAlone'
  BY DEF CopyInv, PendingAlone, NotOf, Borrows, OthersWait
<1>6. NewestAlone'
  BY DEF CopyInv, NewestAlone, Below, Borrows, ServerKeeps, OthersWait, Saving
<1> QED BY <1>2, <1>3, <1>4, <1>5, <1>6 DEF CopyInv

LEMMA TakesKeeps ==
  ASSUME CopiesTyped, CopiesTyped', CopyInv, NEW t \in Everyone, Takes(t)
  PROVE  CopyInv'
<1> USE NoSessionAssumption DEF CopiesTyped, Copy, Session
<1>2. AllOpened'
  BY DEF CopyInv, AllOpened, Opened, Takes, ServerKeeps, OthersWait
<1>3. NoneAhead'
  BY DEF CopyInv, NoneAhead, NotAhead, Takes, ServerKeeps, OthersWait
<1>4. LoginAlone'
  BY DEF CopyInv, LoginAlone, PendingAlone, NotOf, Takes, OthersWait, Unsaved
<1>5. PendingAlone'
  BY DEF PendingAlone, Takes
<1>6. NewestAlone'
  BY DEF CopyInv, NewestAlone, Below, Takes, ServerKeeps, OthersWait, Saving
<1> QED BY <1>2, <1>3, <1>4, <1>5, <1>6 DEF CopyInv

LEMMA OpensKeeps ==
  ASSUME CopiesTyped, CopiesTyped', CopyInv, NEW t \in Everyone, NEW u \in Uids,
         Opens(t, u)
  PROVE  CopyInv'
<1> USE NoSessionAssumption DEF CopiesTyped, Copy, Session
<1>1. /\ NotOf(api, [uid |-> u]) /\ NotOf(ring, [uid |-> u])
      /\ NotOf(pending, [uid |-> u])
      /\ \A x \in Everyone : NotOf(task[x].sess, [uid |-> u])
  BY DEF CopyInv, AllOpened, Opened, NotOf, Opens
<1>2. AllOpened'
  BY DEF CopyInv, AllOpened, Opened, Opens, OthersWait
<1>3. NoneAhead'
  BY <1>1 DEF CopyInv, NoneAhead, NotAhead, NotOf, Opens, OthersWait
<1>4. LoginAlone'
  BY <1>1 DEF CopyInv, LoginAlone, NotOf, Opens, OthersWait, Unsaved
<1>5. PendingAlone'
  BY <1>1 DEF CopyInv, PendingAlone, NotOf, Opens, OthersWait
<1>6. NewestAlone'
  BY <1>1 DEF CopyInv, NewestAlone, Below, NotOf, Opens, OthersWait, Saving
<1> QED BY <1>2, <1>3, <1>4, <1>5, <1>6 DEF CopyInv

LEMMA RestsKeeps ==
  ASSUME CopiesTyped, CopiesTyped', CopyInv, Rests
  PROVE  CopyInv'
<1> USE NoSessionAssumption DEF CopiesTyped, Copy, Session
<1>1. CASE UNCHANGED <<task, api, ring, pending>>
  BY <1>1 DEF Rests, ServerKeeps, CopyInv, AllOpened, Opened, NoneAhead,
     NotAhead, LoginAlone, PendingAlone, NotOf, NewestAlone, Below, Unsaved,
     Saving
<1>2. CASE \A t \in Everyone : task'[t] = Idle
  BY <1>2 DEF Rests, ServerKeeps, CopyInv, AllOpened, Opened, NoneAhead,
     NotAhead, LoginAlone, PendingAlone, NotOf, NewestAlone, Below, Unsaved,
     Saving, Idle
<1> QED BY <1>1, <1>2 DEF Rests

LEMMA RenewsKeeps ==
  ASSUME CopiesTyped, CopiesTyped', CopyInv, NEW t \in Everyone, Renews(t),
         server \in [Uids -> ServerSide]
  PROVE  CopyInv'
<1> USE NoSessionAssumption DEF CopiesTyped, Copy, Session
<1> DEFINE s == task[t].sess
<1>1. /\ s \in Session /\ s.uid \in Uids /\ s.gen \in Nat
      /\ s.gen = server[s.uid].gen
      /\ server'[s.uid].gen = s.gen + 1
      /\ server'[s.uid].status = server[s.uid].status
      /\ \A v \in Uids \ {s.uid} : server'[v] = server[v]
  <2>1. s \in Session /\ s.uid \in Uids /\ s.gen \in Nat
    BY DEF Renews
  <2>2. /\ s.gen = server[s.uid].gen
        /\ server' = [server EXCEPT ![s.uid] =
             [server[s.uid] EXCEPT !.gen = @ + 1, !.fresh = TRUE]]
    BY DEF Renews
  <2>3. server[s.uid] \in ServerSide
    BY <2>1
  <2> HIDE DEF s
  <2> QED BY <2>1, <2>2, <2>3 DEF ServerSide
<1>0. /\ task'[t].sess # NoSession =>
           task'[t].sess.uid = s.uid /\ task'[t].sess.gen = s.gen + 1
      /\ ~Unsaved(t) /\ ~Unsaved(t)'
      /\ OthersWait(t)
      /\ UNCHANGED <<api, ring, pending>>
  BY <1>1 DEF Renews
<1>2. AllOpened'
  BY <1>0, <1>1 DEF CopyInv, AllOpened, Opened, OthersWait
<1>3. NoneAhead'
  BY <1>0, <1>1 DEF CopyInv, NoneAhead, NotAhead, OthersWait
<1>4. LoginAlone'
  BY <1>0, <1>1 DEF CopyInv, LoginAlone, NotOf, OthersWait, Unsaved
<1>5. PendingAlone'
  BY <1>0, <1>1 DEF CopyInv, PendingAlone, NotOf, OthersWait
<1>6. NewestAlone'
  \* no other task of this session is saving: its tokens would be newer
  <2>1. ASSUME NEW x \in Everyone \ {t}, Saving(x)
        PROVE  task[x].sess.uid # s.uid
    BY <1>1, <2>1 DEF CopyInv, NewestAlone, Below
  <2>2. ASSUME NEW r, Copy(r), NotAhead(r), NEW y, y.uid = s.uid, y.gen = s.gen + 1
        PROVE  Below(r, y)
    BY <1>1, <2>2 DEF NotAhead, Below
  <2>3. ASSUME NEW x \in Everyone \ {t}, Saving(x)
        PROVE  Below(task'[t].sess, task[x].sess)
    BY <1>0, <2>1, <2>3 DEF Below
  <2>4. ASSUME NEW x \in Everyone \ {t}, Saving(x)'
        PROVE  /\ task'[x].sess.gen = server'[task'[x].sess.uid].gen
               /\ Below(api', task'[x].sess)
               /\ Below(ring', task'[x].sess)
               /\ Below(pending', task'[x].sess)
               /\ \A y \in Everyone \ {x} : Below(task'[y].sess, task'[x].sess)
    BY <1>0, <1>1, <2>1, <2>3, <2>4
       DEF CopyInv, NewestAlone, OthersWait, Saving
  <2>5. ASSUME Saving(t)'
        PROVE  /\ task'[t].sess.gen = server'[task'[t].sess.uid].gen
               /\ Below(api', task'[t].sess)
               /\ Below(ring', task'[t].sess)
               /\ Below(pending', task'[t].sess)
               /\ \A y \in Everyone \ {t} : Below(task'[y].sess, task'[t].sess)
    BY <1>0, <1>1, <2>2, <2>5
       DEF CopyInv, NoneAhead, OthersWait, Saving, Unsaved
  <2> QED BY <2>4, <2>5 DEF NewestAlone
<1> QED BY <1>2, <1>3, <1>4, <1>5, <1>6 DEF CopyInv

-----------------------------------------------------------------------------
(* Every step is one of these moves *)

LEMMA MovesKeep ==
  ASSUME TypeOK, TypeOK', CopyInv, Moves
  PROVE  CopyInv'
<1>1. CopiesTyped /\ CopiesTyped' /\ server \in [Uids -> ServerSide]
  BY CopyTypes, TypeParts DEF OthersOK
<1> QED
  BY <1>1, PassesKeeps, BorrowsKeeps, TakesKeeps, RenewsKeeps, OpensKeeps,
     RestsKeeps DEF Moves

LEMMA AskRefreshMoves ==
  ASSUME TypeOK, NEW t \in Everyone, NEW from \in Places \ {"idle"}, NEW to,
         ~Unsaved(t), AskRefresh(t, from, to),
         to \in {"store", "heldStore", "loopStore"}
  PROVE  Passes(t) \/ Renews(t)
<1> DEFINE s == task[t].sess
<1> USE DEF Goto, Stop, OthersWait, Idle
<1>1. s \in Session /\ task \in [Everyone -> TaskSide]
  BY HoldsSession, TypeParts DEF AskRefresh, At, TasksOK
<1>2. CASE Refreshes(s) /\ Rotate(s) /\ Goto(t, to, Refreshed(s))
  <2>1. task'[t] = [at |-> to, sess |-> Refreshed(s)] /\ OthersWait(t)
    BY <1>1, <1>2
  <2>2. ~Unsaved(t)'
    BY <2>1 DEF Unsaved
  <2> QED
    BY <1>1, <1>2, <2>1, <2>2
       DEF Renews, Refreshes, Rotate, Refreshed, AskRefresh
<1>3. CASE Refreshes(s) /\ Rotate(s) /\ Stop(t)
  <2>1. task'[t] = Idle /\ OthersWait(t)
    BY <1>1, <1>3
  <2>2. ~Unsaved(t)' /\ ~Saving(t)'
    BY <2>1 DEF Unsaved, Saving
  <2> QED
    BY <1>1, <1>3, <2>1, <2>2 DEF Renews, Refreshes, Rotate, AskRefresh
<1>4. CASE Stop(t) /\ UNCHANGED server
  <2>1. task'[t] = Idle /\ OthersWait(t)
    BY <1>1, <1>4
  <2> QED
    BY <1>4, <2>1 DEF Passes, ServerKeeps, AskRefresh, Unsaved, Saving
<1> QED BY <1>2, <1>3, <1>4 DEF AskRefresh

LEMMA RequestMoves ==
  ASSUME TypeOK, NEW t \in Tasks, Request(t)
  PROVE  Moves
<1>1. t \in Everyone /\ OthersOK /\ task \in [Everyone -> TaskSide]
  BY TypeParts DEF Everyone, TasksOK
<1> USE DEF At, Idle, Saving, Unsaved, Goto, Step, Stop, OthersWait
<1>2. CASE Authenticate(t)
  <2>1. PICK u \in Uids, status \in {"live", "wantsCode", "wantsKey"},
            answered \in BOOLEAN :
          /\ server[u].status = "none"
          /\ server' = [server EXCEPT ![u] =
                          [status |-> status, gen |-> 0, fresh |-> TRUE]]
          /\ IF answered
             THEN Goto(t, IF status = "wantsCode" THEN "unverified" ELSE "save",
                       [uid |-> u, gen |-> 0])
             ELSE UNCHANGED task
    BY <1>2 DEF Authenticate
  <2>2. Opens(t, u)
    BY <1>1, <1>2, <2>1 DEF Authenticate, Opens, OthersOK
  <2> QED BY <1>1, <2>2 DEF Moves
<1>3. ASSUME Passes(t) \/ Borrows(t) \/ Takes(t) \/ Renews(t) PROVE Moves
  BY <1>1, <1>3 DEF Moves
<1>4. CASE KeepPending(t)
  <2>1. Passes(t)
    BY <1>1, <1>4 DEF KeepPending, Passes, ServerKeeps
  <2> QED BY <1>3, <2>1
<1>5. CASE TakePending(t)
  <2>1. Takes(t)
    BY <1>1, <1>5 DEF TakePending, Takes, ServerKeeps
  <2> QED BY <1>3, <2>1
<1>6. CASE Submit(t)
  <2>1. ServerKeeps
    BY <1>1, <1>6 DEF Submit, ServerKeeps, OthersOK, ServerSide
  <2>2. Passes(t)
    BY <1>1, <1>6, <2>1 DEF Submit, Passes
  <2> QED BY <1>3, <2>2
<1>7. CASE SaveLogin(t)
  <2>1. Passes(t)
    BY <1>1, <1>7 DEF SaveLogin, Passes, ServerKeeps
  <2> QED BY <1>3, <2>1
<1>8. CASE SetLogin(t) \/ ClearPending(t)
  <2>1. Passes(t)
    BY <1>1, <1>8 DEF SetLogin, ClearPending, Passes, ServerKeeps
  <2> QED BY <1>3, <2>1
<1>9. CASE StartLogout(t) \/ StartCall(t) \/ StartHeldCall(t)
  <2>1. Borrows(t)
    BY <1>1, <1>9
       DEF StartLogout, StartCall, StartHeldCall, Borrows, ServerKeeps
  <2> QED BY <1>3, <2>1
<1>10. CASE Revoke(t)
  <2>1. ServerKeeps
    BY <1>1, <1>10 DEF Revoke, ServerKeeps, OthersOK, ServerSide
  <2>2. Passes(t)
    BY <1>1, <1>10, <2>1 DEF Revoke, Passes
  <2> QED BY <1>3, <2>2
<1>11. CASE Delete(t) \/ Forget(t)
  <2>1. Passes(t)
    BY <1>1, <1>11 DEF Delete, Forget, Passes, ServerKeeps
  <2> QED BY <1>3, <2>1
<1>12. CASE Unauthorized(t) \/ EndCall(t)
  <2>1. Passes(t)
    BY <1>1, <1>12 DEF Unauthorized, EndCall, Passes, ServerKeeps
  <2> QED BY <1>3, <2>1
<1>13. CASE RefreshCall(t)
  <2>1. CASE AskRefresh(t, "refresh", "store")
    BY <1>1, <1>3, <2>1, AskRefreshMoves DEF AskRefresh, Places
  <2>2. CASE AskRefresh(t, "heldRefresh", "heldStore")
    BY <1>1, <1>3, <2>2, AskRefreshMoves DEF AskRefresh, Places
  <2> QED BY <1>13, <2>1, <2>2 DEF RefreshCall
<1>14. CASE StoreCall(t)
  <2>1. Passes(t)
    BY <1>1, <1>14 DEF StoreCall, Passes, ServerKeeps
  <2> QED BY <1>3, <2>1
<1> QED
  BY <1>2, <1>4, <1>5, <1>6, <1>7, <1>8, <1>9, <1>10, <1>11, <1>12, <1>13,
     <1>14 DEF Request

LEMMA NextMoves == TypeOK /\ [Next]_vars => Moves
<1> SUFFICES ASSUME TypeOK, [Next]_vars PROVE Moves
  OBVIOUS
<1>1. OthersOK /\ Loop \in Everyone /\ task \in [Everyone -> TaskSide]
  BY TypeParts DEF Everyone, TasksOK
<1> USE DEF At, Idle, Saving, Unsaved, Goto, Step, Stop, OthersWait
<1>2. CASE \E t \in Tasks : Request(t)
  BY <1>2, RequestMoves
<1>3. ASSUME Passes(Loop) \/ Borrows(Loop) \/ Renews(Loop) PROVE Moves
  BY <1>1, <1>3 DEF Moves
<1>4. CASE StartRefresh
  <2>1. Borrows(Loop)
    BY <1>1, <1>4 DEF StartRefresh, Borrows, ServerKeeps
  <2> QED BY <1>3, <2>1
<1>5. CASE RefreshLoop
  BY <1>1, <1>3, <1>5, AskRefreshMoves DEF RefreshLoop, AskRefresh, Places
<1>6. CASE StoreLoop \/ SetLoop
  <2>1. Passes(Loop)
    BY <1>1, <1>6 DEF StoreLoop, SetLoop, Passes, ServerKeeps
  <2> QED BY <1>3, <2>1
<1>7. CASE \E u \in Uids : Expire(u) \/ RevokeElsewhere(u)
  <2>1. PICK u \in Uids : Expire(u) \/ RevokeElsewhere(u)
    BY <1>7
  <2>2. ServerKeeps
    BY <1>1, <2>1
       DEF Expire, RevokeElsewhere, ServerKeeps, OthersOK, ServerSide
  <2> QED BY <2>1, <2>2 DEF Expire, RevokeElsewhere, Moves, Rests
<1>8. CASE Restart
  BY <1>8 DEF Restart, Moves, Rests, ServerKeeps
<1>9. CASE UNCHANGED vars
  BY <1>9 DEF vars, Moves, Rests, ServerKeeps
<1> QED BY <1>2, <1>4, <1>5, <1>6, <1>7, <1>8, <1>9 DEF Next

LEMMA InitCopies == Init => CopyInv
  BY DEF Init, Idle, CopyInv, AllOpened, Opened, NoneAhead, NotAhead,
     LoginAlone, PendingAlone, NewestAlone, Unsaved, Saving

\* Where the copies of a session can be, whatever requests, logins, refreshes
\* and restarts overlap: no copy is ahead of the server, a login on its way is
\* alone, and tokens about to be saved are newer than any other copy.
THEOREM CopiesKeepApart == Spec => []CopyInv
<1>1. TypeOK /\ TypeOK' /\ CopyInv /\ [Next]_vars => CopyInv'
  BY NextMoves, MovesKeep
<1> QED BY <1>1, InitCopies, SessionTypes, PTL DEF Spec

-----------------------------------------------------------------------------
(* The keyring never goes back *)

\* Who writes the keyring: a login, or a task that has newer tokens.
RingMoves ==
  \/ ring' = ring \/ ring' = NoSession
  \/ \E t \in Everyone : (Unsaved(t) \/ Saving(t)) /\ ring' = task[t].sess

LEMMA NextRing == [Next]_vars => RingMoves
<1> SUFFICES ASSUME [Next]_vars PROVE RingMoves
  OBVIOUS
<1> USE DEF RingMoves
<1>1. ASSUME NEW t \in Tasks, Request(t) PROVE RingMoves
  <2>1. CASE SaveLogin(t)
    BY <2>1 DEF SaveLogin, At, Unsaved, Everyone
  <2>2. CASE StoreCall(t)
    BY <2>2 DEF StoreCall, Step, At, Saving, Everyone
  <2>3. CASE Delete(t)
    BY <2>3 DEF Delete
  <2> QED
    BY <1>1, <2>1, <2>2, <2>3
       DEF Request, Authenticate, KeepPending, TakePending, Submit, SetLogin,
           ClearPending, StartLogout, Revoke, Forget, StartCall, StartHeldCall,
           Unauthorized, EndCall, RefreshCall, AskRefresh
<1>2. CASE StoreLoop
  BY <1>2 DEF StoreLoop, Step, At, Saving, Everyone
<1> QED
  BY <1>1, <1>2
     DEF Next, StartRefresh, RefreshLoop, AskRefresh, SetLoop, Expire,
         RevokeElsewhere, Restart, vars

LEMMA RingForward ==
  ASSUME TypeOK, CopyInv, RingMoves, ring # NoSession, ring' # NoSession,
         ring'.uid = ring.uid
  PROVE  ring'.gen >= ring.gen
<1>1. CopiesTyped
  BY CopyTypes
<1>2. ring \in Session /\ ring.gen \in Nat
  BY <1>1 DEF CopiesTyped, Copy, Session
<1>3. CASE ring' = ring
  BY <1>2, <1>3
<1>4. ASSUME NEW t \in Everyone, Unsaved(t), ring' = task[t].sess
      PROVE  FALSE
  BY <1>4 DEF CopyInv, LoginAlone, NotOf
<1>5. ASSUME NEW t \in Everyone, Saving(t), ring' = task[t].sess
      PROVE  ring'.gen >= ring.gen
  <2>1. task[t].sess.gen \in Nat /\ ring.gen < task[t].sess.gen
    BY <1>1, <1>5 DEF CopiesTyped, Session, CopyInv, NewestAlone, Below
  <2> QED BY <1>2, <1>5, <2>1
<1> QED BY <1>3, <1>4, <1>5 DEF RingMoves

\* Used-up tokens never replace newer ones of the same session in the keyring.
THEOREM KeyringMonotone == Spec => KeyringNeverGoesBack
<1>1. TypeOK /\ CopyInv /\ [Next]_vars =>
        [ring # NoSession /\ ring' # NoSession /\ ring'.uid = ring.uid
           => ring'.gen >= ring.gen]_vars
  BY NextRing, RingForward
<1> QED
  BY <1>1, SessionTypes, CopiesKeepApart, PTL DEF Spec, KeyringNeverGoesBack

-----------------------------------------------------------------------------
(* No session that waits for a code is used or saved *)

\* A refresh changes no session's status, and what the task holds keeps its uid.
LEMMA AskRefreshVerified ==
  ASSUME TypeOK, OnlyVerified, NEW t \in Everyone, ~Verifying(t),
         NEW from \in Places \ {"idle"}, NEW to \in Places, AskRefresh(t, from, to)
  PROVE  OnlyVerified'
<1> DEFINE Still(s) ==
      s # NoSession => server'[s.uid].status \notin {"none", "wantsCode"}
<1>1. /\ server \in [Uids -> [status : Statuses, gen : Nat, fresh : BOOLEAN]]
      /\ task \in [Everyone -> TaskSide]
      /\ \A x \in Everyone : task[x].sess = NoSession <=> task[x].at = "idle"
      /\ Copy(api) /\ Copy(ring) /\ \A x \in Everyone : Copy(task[x].sess)
  BY TypeParts
  DEF Everyone, TasksOK, OthersOK, TaskSide, ServerSide, Copy, MaybeSession
<1>2. task[t].sess \in Session /\ Verified(task[t].sess)
  BY <1>1 DEF AskRefresh, At, Copy, OnlyVerified
<1>3. \A u \in Uids : server'[u].status = server[u].status
  BY <1>1, <1>2 DEF AskRefresh, Rotate, Session
<1>4. \A s : Copy(s) /\ Verified(s) => Still(s)
  BY <1>3 DEF Copy, Verified, Session
<1>5. api' = api /\ ring' = ring
  BY DEF AskRefresh
<1>6. \A x \in Everyone :
        \/ task'[x] = task[x]
        \/ task'[x] = Idle
        \/ task'[x].sess = Refreshed(task[t].sess)
  BY <1>1 DEF AskRefresh, Goto, Stop
<1>7. Still(Refreshed(task[t].sess))
  <2>1. /\ Refreshed(task[t].sess).uid = task[t].sess.uid
        /\ task[t].sess.uid \in Uids /\ task[t].sess # NoSession
    BY <1>2, NoSessionAssumption DEF Refreshed, Session
  <2> QED BY <1>2, <1>3, <2>1 DEF Verified
<1>8. ASSUME NEW x \in Everyone, task'[x].at \notin {"unverified", "submit"}
      PROVE  Still(task'[x].sess)
  <2>1. CASE task'[x] = task[x]
    <3>1. Verified(task[x].sess) /\ Copy(task[x].sess)
      BY <1>1, <1>8, <2>1 DEF OnlyVerified, Verifying
    <3> QED BY <1>4, <2>1, <3>1
  <2>2. CASE task'[x] = Idle
    BY <2>2 DEF Idle
  <2>3. CASE task'[x].sess = Refreshed(task[t].sess)
    BY <1>7, <2>3
  <2> QED BY <1>6, <2>1, <2>2, <2>3
<1>9. Still(api') /\ Still(ring')
  BY <1>1, <1>4, <1>5 DEF OnlyVerified
<1> QED BY <1>8, <1>9 DEF OnlyVerified, Verifying, Verified

LEMMA RequestVerified ==
  ASSUME TypeOK, OnlyVerified, NEW t \in Tasks, Request(t)
  PROVE  OnlyVerified'
<1>1. /\ t \in Everyone /\ OthersOK
      /\ task \in [Everyone -> TaskSide]
      /\ \A x \in Everyone : task[x].sess = NoSession <=> task[x].at = "idle"
      /\ Copy(api) /\ Copy(ring) /\ \A x \in Everyone : Copy(task[x].sess)
  BY TypeParts DEF Everyone, TasksOK, OthersOK, TaskSide, Copy, MaybeSession
<1> USE NoSessionAssumption
    DEF At, Idle, Goto, Step, Stop, OnlyVerified, Verified, Verifying, Session,
        Copy
<1>2. CASE Authenticate(t)
  BY <1>1, <1>2 DEF Authenticate, OthersOK
<1>3. CASE KeepPending(t) \/ TakePending(t) \/ ClearPending(t)
  BY <1>1, <1>3 DEF KeepPending, TakePending, ClearPending
<1>4. CASE Submit(t)
  BY <1>1, <1>4 DEF Submit, OthersOK, ServerSide
<1>5. CASE SaveLogin(t) \/ SetLogin(t)
  BY <1>1, <1>5 DEF SaveLogin, SetLogin
<1>6. CASE StartLogout(t) \/ StartCall(t) \/ StartHeldCall(t)
  BY <1>1, <1>6 DEF StartLogout, StartCall, StartHeldCall
<1>7. CASE Revoke(t)
  BY <1>1, <1>7 DEF Revoke, OthersOK, ServerSide
<1>8. CASE Delete(t) \/ Forget(t) \/ Unauthorized(t) \/ EndCall(t)
  BY <1>1, <1>8 DEF Delete, Forget, Unauthorized, EndCall
<1>9. CASE RefreshCall(t)
  <2>1. ~Verifying(t)
    BY <1>9 DEF RefreshCall, AskRefresh
  <2> QED BY <1>1, <1>9, <2>1, AskRefreshVerified, Zenon DEF RefreshCall, Places
<1>10. CASE StoreCall(t)
  BY <1>1, <1>10 DEF StoreCall
<1> QED
  BY <1>2, <1>3, <1>4, <1>5, <1>6, <1>7, <1>8, <1>9, <1>10,
     Zenon DEF Request

LEMMA NextVerified == TypeOK /\ OnlyVerified /\ [Next]_vars => OnlyVerified'
<1> SUFFICES ASSUME TypeOK, OnlyVerified, [Next]_vars PROVE OnlyVerified'
  OBVIOUS
<1>1. /\ Loop \in Everyone /\ OthersOK
      /\ task \in [Everyone -> TaskSide]
      /\ \A x \in Everyone : task[x].sess = NoSession <=> task[x].at = "idle"
      /\ Copy(api) /\ Copy(ring) /\ \A x \in Everyone : Copy(task[x].sess)
  BY TypeParts DEF Everyone, TasksOK, OthersOK, TaskSide, Copy, MaybeSession
<1> USE NoSessionAssumption
    DEF At, Idle, Goto, Step, Stop, OnlyVerified, Verified, Verifying, Session,
        Copy
<1>2. CASE \E t \in Tasks : Request(t)
  BY <1>2, RequestVerified
<1>3. CASE StartRefresh \/ StoreLoop \/ SetLoop
  BY <1>1, <1>3 DEF StartRefresh, StoreLoop, SetLoop
<1>4. CASE RefreshLoop
  <2>1. ~Verifying(Loop)
    BY <1>4 DEF RefreshLoop, AskRefresh
  <2> QED BY <1>1, <1>4, <2>1, AskRefreshVerified DEF RefreshLoop, Places
<1>5. CASE \E u \in Uids : Expire(u) \/ RevokeElsewhere(u)
  BY <1>1, <1>5 DEF Expire, RevokeElsewhere, OthersOK, ServerSide
<1>6. CASE Restart
  BY <1>1, <1>6 DEF Restart
<1>7. CASE UNCHANGED vars
  BY <1>7 DEF vars
<1> QED BY <1>2, <1>3, <1>4, <1>5, <1>6, <1>7 DEF Next

\* However many connections and sessions there are, no session of an account that
\* asks for a code is used or saved before the code is accepted.
THEOREM NothingUnverified == Spec => []VerifiedOnly
<1>1. Init => OnlyVerified
  BY DEF Init, Idle, OnlyVerified, Verified
<1>2. OnlyVerified => VerifiedOnly
  BY DEF OnlyVerified, VerifiedOnly, Verified
<1> QED BY <1>1, <1>2, NextVerified, SessionTypes, PTL DEF Spec

-----------------------------------------------------------------------------
(* The keyring can refresh *)

\* A login on its way has the tokens the server gave it.
LoginsFresh ==
  /\ pending # NoSession => pending.gen = server[pending.uid].gen
  /\ \A t \in Everyone : Unsaved(t) =>
       task[t].sess.gen = server[task[t].sess.uid].gen

LEMMA LoginsStayFresh ==
  ASSUME CopiesTyped, CopiesTyped', CopyInv, LoginsFresh, Moves,
         server \in [Uids -> ServerSide]
  PROVE  LoginsFresh'
<1> USE NoSessionAssumption DEF CopiesTyped, Copy, Session, LoginsFresh, Unsaved
<1>1. ASSUME NEW t \in Everyone, Passes(t) \/ Borrows(t) \/ Takes(t)
      PROVE  LoginsFresh'
  BY <1>1 DEF Passes, Borrows, Takes, ServerKeeps, OthersWait
<1>2. ASSUME NEW t \in Everyone, NEW u \in Uids, Opens(t, u)
      PROVE  LoginsFresh'
  BY <1>2 DEF Opens, OthersWait, CopyInv, AllOpened, Opened
<1>3. ASSUME NEW t \in Everyone, Renews(t)
      PROVE  LoginsFresh'
  <2>1. /\ ~Unsaved(t)' /\ OthersWait(t) /\ pending' = pending
        /\ task[t].sess \in Session
        /\ \A v \in Uids : v # task[t].sess.uid => server'[v] = server[v]
    BY <1>3 DEF Renews
  <2>2. /\ NotOf(task[t].sess, pending) \/ pending = NoSession
        /\ \A x \in Everyone \ {t} :
             Unsaved(x) => NotOf(task[t].sess, task[x].sess)
    BY DEF CopyInv, PendingAlone, LoginAlone
  <2> QED BY <2>1, <2>2 DEF NotOf, OthersWait
<1>4. ASSUME Rests PROVE LoginsFresh'
  BY <1>4 DEF Rests, ServerKeeps, Idle
<1> QED BY <1>1, <1>2, <1>3, <1>4 DEF Moves

\* Steps that leave the keyring and its session's tokens alone, and lose none.
LoseNothing ==
  /\ ring' = ring
  /\ ring # NoSession =>
       /\ server'[ring.uid].gen = server[ring.uid].gen
       /\ server'[ring.uid].status = "live" => server[ring.uid].status = "live"
  /\ spoilt \subseteq spoilt'
  /\ \A x \in Everyone : Saving(x) =>
       \/ Saving(x)' /\ task'[x].sess = task[x].sess
       \/ task[x].sess.uid \in spoilt'

LEMMA LoseNothingKeeps ==
  ASSUME CopiesTyped, KeyringCanRefresh, LoseNothing
  PROVE  KeyringCanRefresh'
<1> SUFFICES ASSUME ring # NoSession, server'[ring.uid].status = "live",
                    ring.uid \notin spoilt'
             PROVE  \/ ring.gen = server'[ring.uid].gen
                    \/ \E t \in Everyone :
                         /\ Saving(t)'
                         /\ task'[t].sess.uid = ring.uid
                         /\ task'[t].sess.gen = server'[ring.uid].gen
  BY DEF LoseNothing, KeyringCanRefresh
<1>1. ring.uid \in Uids
  BY DEF CopiesTyped, Copy, Session
<1>2. \/ ring.gen = server[ring.uid].gen
      \/ \E t \in Everyone : /\ Saving(t)
                             /\ task[t].sess.uid = ring.uid
                             /\ task[t].sess.gen = server[ring.uid].gen
  BY DEF LoseNothing, KeyringCanRefresh
<1> QED BY <1>1, <1>2 DEF LoseNothing

\* The keyring is empty, or receives the newest tokens.
RingRenewed ==
  ring' # NoSession => ring'.gen = server'[ring'.uid].gen

LEMMA AskRefreshKeyring ==
  ASSUME TypeOK, CopyInv, KeyringCanRefresh, NEW t \in Everyone,
         NEW from, NEW to \in {"store", "heldStore", "loopStore"},
         from \in {"refresh", "heldRefresh", "loopRefresh"},
         AskRefresh(t, from, to)
  PROVE  KeyringCanRefresh'
<1> DEFINE s == task[t].sess
<1>1. /\ CopiesTyped /\ OthersOK /\ task \in [Everyone -> TaskSide]
      /\ s \in Session /\ s.uid \in Uids /\ s.gen \in Nat
      /\ ~Saving(t) /\ ring' = ring
  BY CopyTypes, TypeParts, HoldsSession
     DEF TasksOK, AskRefresh, At, Session, Saving
<1>2. CASE Stop(t) /\ UNCHANGED <<server, spoilt>>
  <2>1. LoseNothing
    BY <1>1, <1>2 DEF LoseNothing, Stop, Saving
  <2> QED BY <1>1, <2>1, LoseNothingKeeps
<1>3. CASE Refreshes(s) /\ Rotate(s) /\ Stop(t) /\ spoilt' = spoilt \cup {s.uid}
  <2>1. CASE ring = NoSession \/ ring.uid = s.uid
    BY <1>1, <1>3, <2>1 DEF KeyringCanRefresh
  <2>2. CASE ring # NoSession /\ ring.uid # s.uid
    <3>1. server'[ring.uid] = server[ring.uid]
      BY <1>1, <1>3, <2>2 DEF Rotate, CopiesTyped, Copy, Session, OthersOK
    <3>2. \A x \in Everyone \ {t} : task'[x] = task[x]
      BY <1>1, <1>3 DEF Stop
    <3> QED BY <1>1, <1>3, <2>2, <3>1, <3>2 DEF KeyringCanRefresh, Saving
  <2> QED BY <2>1, <2>2
<1>4. CASE Refreshes(s) /\ Rotate(s) /\ Goto(t, to, Refreshed(s))
           /\ spoilt' = spoilt
  <2>1. /\ task'[t] = [at |-> to, sess |-> Refreshed(s)]
        /\ \A x \in Everyone \ {t} : task'[x] = task[x]
    BY <1>1, <1>4 DEF Goto
  <2>2. Saving(t)'
    BY <2>1 DEF Saving
  <2>3. CASE ring # NoSession /\ ring.uid = s.uid
    <3>1. server'[s.uid].gen = s.gen + 1
      BY <1>1, <1>4 DEF Rotate, Refreshes, OthersOK, ServerSide
    <3>2. task'[t].sess.uid = s.uid /\ task'[t].sess.gen = s.gen + 1
      BY <1>1, <2>1 DEF Refreshed, Session
    <3> QED BY <1>1, <2>2, <2>3, <3>1, <3>2 DEF KeyringCanRefresh
  <2>4. CASE ring # NoSession /\ ring.uid # s.uid
    <3>1. server'[ring.uid] = server[ring.uid]
      BY <1>1, <1>4, <2>4 DEF Rotate, CopiesTyped, Copy, Session, OthersOK
    <3> QED BY <1>1, <1>4, <2>1, <2>4, <3>1 DEF KeyringCanRefresh, Saving
  <2>5. CASE ring = NoSession
    BY <1>1, <2>5 DEF KeyringCanRefresh
  <2> QED BY <2>3, <2>4, <2>5
<1> QED BY <1>2, <1>3, <1>4 DEF AskRefresh

LEMMA RequestKeyring ==
  ASSUME TypeOK, CopyInv, LoginsFresh, OnlyVerified, KeyringCanRefresh,
         NEW t \in Tasks, Request(t)
  PROVE  KeyringCanRefresh'
<1>1. /\ t \in Everyone /\ OthersOK /\ CopiesTyped
      /\ task \in [Everyone -> TaskSide]
      /\ ring # NoSession => ring.uid \in Uids
  BY TypeParts, CopyTypes
     DEF Everyone, TasksOK, CopiesTyped, Copy, Session
<1>2. ASSUME LoseNothing \/ RingRenewed PROVE KeyringCanRefresh'
  BY <1>1, <1>2, LoseNothingKeeps DEF RingRenewed, KeyringCanRefresh
<1> USE DEF At, Idle, Saving, Goto, Step, Stop
<1>3. CASE Authenticate(t)
  <2>1. LoseNothing
    BY <1>1, <1>3
       DEF Authenticate, LoseNothing, OthersOK, ServerSide, OnlyVerified,
           Verified
  <2> QED BY <1>2, <2>1
<1>4. CASE KeepPending(t) \/ TakePending(t) \/ ClearPending(t) \/ SetLogin(t)
  <2>1. LoseNothing
    BY <1>1, <1>4
       DEF KeepPending, TakePending, ClearPending, SetLogin, LoseNothing
  <2> QED BY <1>2, <2>1
<1>5. CASE Submit(t)
  <2>1. LoseNothing
    BY <1>1, <1>5
       DEF Submit, LoseNothing, OthersOK, ServerSide, OnlyVerified, Verified
  <2> QED BY <1>2, <2>1
<1>6. CASE SaveLogin(t)
  <2>1. LoseNothing \/ RingRenewed
    BY <1>1, <1>6
       DEF SaveLogin, LoseNothing, RingRenewed, LoginsFresh, Unsaved
  <2> QED BY <1>2, <2>1
<1>7. CASE StartLogout(t) \/ StartCall(t) \/ StartHeldCall(t)
  <2>1. LoseNothing
    BY <1>1, <1>7 DEF StartLogout, StartCall, StartHeldCall, LoseNothing
  <2> QED BY <1>2, <2>1
<1>8. CASE Revoke(t)
  <2>1. LoseNothing
    BY <1>1, <1>8 DEF Revoke, LoseNothing, OthersOK, ServerSide
  <2> QED BY <1>2, <2>1
<1>9. CASE Delete(t)
  <2>1. LoseNothing \/ RingRenewed
    BY <1>1, <1>9 DEF Delete, LoseNothing, RingRenewed
  <2> QED BY <1>2, <2>1
<1>10. CASE Forget(t) \/ Unauthorized(t) \/ EndCall(t)
  <2>1. LoseNothing
    BY <1>1, <1>10 DEF Forget, Unauthorized, EndCall, LoseNothing
  <2> QED BY <1>2, <2>1
<1>11. CASE RefreshCall(t)
  BY <1>1, <1>11, AskRefreshKeyring DEF RefreshCall
<1>12. CASE StoreCall(t)
  <2>1. LoseNothing \/ RingRenewed
    BY <1>1, <1>12 DEF StoreCall, LoseNothing, RingRenewed, CopyInv, NewestAlone
  <2> QED BY <1>2, <2>1
<1> QED
  BY <1>3, <1>4, <1>5, <1>6, <1>7, <1>8, <1>9, <1>10, <1>11, <1>12,
     Zenon DEF Request

LEMMA NextKeyring ==
  ASSUME TypeOK, CopyInv, LoginsFresh, OnlyVerified, KeyringCanRefresh,
         [Next]_vars
  PROVE  KeyringCanRefresh'
<1>1. /\ Loop \in Everyone /\ OthersOK /\ CopiesTyped
      /\ task \in [Everyone -> TaskSide]
      /\ ring # NoSession => ring.uid \in Uids
  BY TypeParts, CopyTypes
     DEF Everyone, TasksOK, CopiesTyped, Copy, Session
<1>2. ASSUME LoseNothing \/ RingRenewed PROVE KeyringCanRefresh'
  BY <1>1, <1>2, LoseNothingKeeps DEF RingRenewed, KeyringCanRefresh
<1> USE DEF At, Idle, Saving, Goto, Step, Stop
<1>3. CASE \E t \in Tasks : Request(t)
  BY <1>3, RequestKeyring
<1>4. CASE StartRefresh \/ SetLoop
  <2>1. LoseNothing
    BY <1>1, <1>4 DEF StartRefresh, SetLoop, LoseNothing
  <2> QED BY <1>2, <2>1
<1>5. CASE RefreshLoop
  BY <1>1, <1>5, AskRefreshKeyring DEF RefreshLoop
<1>6. CASE StoreLoop
  <2>1. LoseNothing \/ RingRenewed
    BY <1>1, <1>6 DEF StoreLoop, LoseNothing, RingRenewed, CopyInv, NewestAlone
  <2> QED BY <1>2, <2>1
<1>7. CASE \E u \in Uids : Expire(u) \/ RevokeElsewhere(u)
  <2>1. LoseNothing
    BY <1>1, <1>7
       DEF Expire, RevokeElsewhere, LoseNothing, OthersOK, ServerSide
  <2> QED BY <1>2, <2>1
<1>8. CASE Restart
  <2>1. LoseNothing
    BY <1>1, <1>8 DEF Restart, LoseNothing
  <2> QED BY <1>2, <2>1
<1>9. CASE UNCHANGED vars
  <2>1. LoseNothing
    BY <1>9 DEF vars, LoseNothing
  <2> QED BY <1>2, <2>1
<1> QED BY <1>3, <1>4, <1>5, <1>6, <1>7, <1>8, <1>9 DEF Next

\* Of a live session the keyring has the newest tokens or a task is about to
\* save them, unless an answer, a write or the daemon was lost in between.
THEOREM KeyringRefreshable == Spec => []KeyringCanRefresh
<1> DEFINE Inv == LoginsFresh /\ OnlyVerified /\ KeyringCanRefresh
<1>1. Init => Inv
  BY DEF Init, Idle, LoginsFresh, Unsaved, OnlyVerified, Verified,
         KeyringCanRefresh
<1>2. TypeOK /\ TypeOK' /\ CopyInv /\ Inv /\ [Next]_vars => Inv'
  <2> SUFFICES ASSUME TypeOK, TypeOK', CopyInv, Inv, [Next]_vars PROVE Inv'
    OBVIOUS
  <2>1. Moves /\ CopiesTyped /\ CopiesTyped' /\ server \in [Uids -> ServerSide]
    BY NextMoves, CopyTypes, TypeParts DEF OthersOK
  <2> QED BY <2>1, LoginsStayFresh, NextVerified, NextKeyring
<1> QED BY <1>1, <1>2, SessionTypes, CopiesKeepApart, PTL DEF Spec
=============================================================================
