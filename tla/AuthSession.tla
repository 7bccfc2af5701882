------------------------------ MODULE AuthSession ------------------------------
(***************************************************************************)
(* The copies of a login session (crates/protond/src/handler.rs,           *)
(* crates/proton-core/src/auth, keyring.rs and api/client.rs): the one in  *)
(* the handler, the one in the system keyring, the login that waits for    *)
(* its second factor, and the copy in the client of every request and      *)
(* background pass under way.                                              *)
(*                                                                         *)
(* The server replaces both tokens of a session at each refresh and then   *)
(* refuses the old ones.  A copy is the session's uid and the generation   *)
(* of its tokens.  Each await of the code is a step of its own: requests   *)
(* run in the tasks of their connections, the token refresh in a loop.     *)
(***************************************************************************)
EXTENDS Naturals

CONSTANTS
  Tasks,      \* connections: each handles one request at a time
  Loop,       \* the task of token_refresh_loop
  Uids,       \* sessions the server can open
  NoSession,  \* None
  MaxGen      \* bound: refreshes of one session

ASSUME LoopAssumption == Loop \notin Tasks

Session == [uid : Uids, gen : Nat]

ASSUME NoSessionAssumption == NoSession \notin Session

VARIABLES
  api,      \* IpcHandler.api: the handler's session
  pending,  \* IpcHandler.pending_login: the session of its client
  ring,     \* the session in the keyring
  server,   \* what the server knows of each session
  task,     \* where each task is, and the session it holds
  out,      \* history: logged out, and no login attempted since
  spoilt    \* history: sessions whose last refresh never reached the keyring

vars == <<api, pending, ring, server, task, out, spoilt>>

-----------------------------------------------------------------------------
Places == {"idle", "unverified", "save", "set", "clear", "submit",
           "saveVerified", "setVerified", "revoke", "delete", "forget",
           "call", "refresh", "store", "held", "heldRefresh", "heldStore",
           "loopRefresh", "loopStore", "loopSet"}

Idle == [at |-> "idle", sess |-> NoSession]
Everyone == Tasks \cup {Loop}

Init ==
  /\ api = NoSession
  /\ pending = NoSession
  /\ ring = NoSession
  /\ server = [u \in Uids |-> [status |-> "none", gen |-> 0, fresh |-> FALSE]]
  /\ task = [t \in Everyone |-> Idle]
  /\ out = FALSE
  /\ spoilt = {}

At(t, place) == task[t].at = place
Goto(t, place, s) == task' = [task EXCEPT ![t] = [at |-> place, sess |-> s]]
Step(t, from, to) == At(t, from) /\ Goto(t, to, task[t].sess)
Stop(t) == task' = [task EXCEPT ![t] = Idle]

\* drive.delete keeps the lock of api during its requests; everybody else takes
\* it for a moment, to copy the session or to replace it.
Unlocked == \A t \in Tasks : task[t].at \notin {"held", "heldRefresh",
                                                "heldStore"}

\* Newer tokens have been granted and are not in the keyring yet.
Saving(t) == task[t].at \in {"store", "heldStore", "loopStore"}

-----------------------------------------------------------------------------
(* The server *)

\* An access token is good for a while, and until the next refresh.
Admits(s) ==
  /\ server[s.uid].status = "live"
  /\ server[s.uid].gen = s.gen
  /\ server[s.uid].fresh

\* A refresh token is good for one refresh, a second factor accepted or not.
Refreshes(s) ==
  /\ server[s.uid].status \in {"live", "wantsKey"}
  /\ server[s.uid].gen = s.gen
  /\ s.gen < MaxGen

Rotate(s) ==
  server' = [server EXCEPT ![s.uid].gen = @ + 1, ![s.uid].fresh = TRUE]
Refreshed(s) == [s EXCEPT !.gen = @ + 1]

Expire(u) ==
  /\ server[u].fresh
  /\ server' = [server EXCEPT ![u].fresh = FALSE]
  /\ UNCHANGED <<api, pending, ring, task, out, spoilt>>

\* The user ends the session from another device.
RevokeElsewhere(u) ==
  /\ server[u].status = "live"
  /\ server' = [server EXCEPT ![u].status = "revoked"]
  /\ UNCHANGED <<api, pending, ring, task, out, spoilt>>

-----------------------------------------------------------------------------
(* auth.login and auth.2fa *)

\* authenticate: the session is open on the server before the answer tells which
\* second factor is asked for: nothing, a code (with a security key as the other
\* choice or without), or a security key alone.  Only the code's bit is looked at.
Authenticate(t) ==
  /\ At(t, "idle")
  /\ \E u \in Uids, status \in {"live", "wantsCode", "wantsKey"}, answered \in BOOLEAN :
       /\ server[u].status = "none"
       /\ server' = [server EXCEPT ![u] = [status |-> status, gen |-> 0, fresh |-> TRUE]]
       /\ IF answered
          THEN Goto(t, IF status = "wantsCode" THEN "unverified" ELSE "save",
                    [uid |-> u, gen |-> 0])
          ELSE UNCHANGED task
  /\ out' = FALSE
  /\ UNCHANGED <<api, pending, ring, spoilt>>

\* (mistake: save the session at once, before its second factor)
KeepPending_Saved(t) ==
  /\ At(t, "unverified")
  /\ pending' = task[t].sess
  /\ ring' = task[t].sess
  /\ Stop(t)
  /\ UNCHANGED <<api, server, out, spoilt>>

KeepPending(t) ==
  /\ At(t, "unverified")
  /\ pending' = task[t].sess
  /\ Stop(t)
  /\ UNCHANGED <<api, ring, server, out, spoilt>>

\* (mistake: a missing pending login is not noticed)
TakePending_Empty(t) ==
  /\ At(t, "idle")
  /\ Goto(t, "submit", pending)
  /\ pending' = NoSession
  /\ out' = FALSE
  /\ UNCHANGED <<api, ring, server, spoilt>>

\* The pending login is taken before the code is checked, and is not put back.
TakePending(t) ==
  /\ At(t, "idle")
  /\ pending # NoSession
  /\ Goto(t, "submit", pending)
  /\ pending' = NoSession
  /\ out' = FALSE
  /\ UNCHANGED <<api, ring, server, spoilt>>

\* A wrong code, an expired token, or an answer that is lost ends the request.
Submit(t) ==
  /\ At(t, "submit")
  /\ LET u == task[t].sess.uid
     IN  \/ /\ server[u].status = "wantsCode"
            /\ server[u].fresh
            /\ server' = [server EXCEPT ![u].status = "live"]
            /\ Step(t, "submit", "saveVerified") \/ Stop(t)
         \/ Stop(t) /\ UNCHANGED server
  /\ UNCHANGED <<api, pending, ring, out, spoilt>>

\* keyring::save_session; if it fails nobody is logged in.
SaveLogin(t) ==
  /\ At(t, "save") \/ At(t, "saveVerified")
  /\ \/ /\ ring' = task[t].sess
        /\ Goto(t, IF At(t, "save") THEN "set" ELSE "setVerified",
                task[t].sess)
     \/ Stop(t) /\ UNCHANGED ring
  /\ UNCHANGED <<api, pending, server, out, spoilt>>

\* The client is built first; if that fails only the keyring has the session.
SetLogin(t) ==
  /\ Unlocked
  /\ At(t, "set") \/ At(t, "setVerified")
  /\ \/ Step(t, "set", "clear") /\ api' = task[t].sess
     \/ At(t, "setVerified") /\ Stop(t) /\ api' = task[t].sess
     \/ Stop(t) /\ UNCHANGED api
  /\ UNCHANGED <<pending, ring, server, out, spoilt>>

ClearPending(t) ==
  /\ At(t, "clear")
  /\ pending' = NoSession
  /\ Stop(t)
  /\ UNCHANGED <<api, ring, server, out, spoilt>>

-----------------------------------------------------------------------------
(* auth.logout *)

StartLogout(t) ==
  /\ Unlocked
  /\ At(t, "idle")
  /\ api # NoSession
  /\ Goto(t, "revoke", api)
  /\ UNCHANGED <<api, pending, ring, server, out, spoilt>>

\* DELETE /auth/v4: a 401 counts as success.  The request may also fail.
Revoke(t) ==
  /\ At(t, "revoke")
  /\ LET s == task[t].sess
     IN  \/ /\ Admits(s)
            /\ server' = [server EXCEPT ![s.uid].status = "revoked"]
            /\ Step(t, "revoke", "delete") \/ Stop(t)
         \/ ~Admits(s) /\ Step(t, "revoke", "delete") /\ UNCHANGED server
         \/ Stop(t) /\ UNCHANGED server
  /\ UNCHANGED <<api, pending, ring, out, spoilt>>

\* keyring::delete_session deletes whatever is there, or fails.
Delete(t) ==
  /\ \/ Step(t, "delete", "forget") /\ ring' = NoSession
     \/ At(t, "delete") /\ Stop(t) /\ UNCHANGED ring
  /\ UNCHANGED <<api, pending, server, out, spoilt>>

LoggingIn(t) == task[t].at \in {"unverified", "save", "set", "clear",
                                "submit", "saveVerified", "setVerified"}

Forget(t) ==
  /\ Unlocked
  /\ At(t, "forget")
  /\ api' = NoSession
  /\ Stop(t)
  /\ out' = (ring = NoSession /\ \A x \in Tasks : ~LoggingIn(x))
  /\ UNCHANGED <<pending, ring, server, spoilt>>

-----------------------------------------------------------------------------
(* The other requests, and the background pass *)

\* A copy of the session in a client of its own.  A request that builds several
\* clients from one copy is like several requests that copied it at once.
StartCall(t) ==
  /\ Unlocked
  /\ At(t, "idle")
  /\ api # NoSession
  /\ Goto(t, "call", api)
  /\ UNCHANGED <<api, pending, ring, server, out, spoilt>>

\* drive.delete uses the handler's own client.
StartHeldCall(t) ==
  /\ Unlocked
  /\ At(t, "idle")
  /\ api # NoSession
  /\ Goto(t, "held", api)
  /\ UNCHANGED <<api, pending, ring, server, out, spoilt>>

\* authed, authed_get: a 401 leads to one refresh and one more try.
Unauthorized(t) ==
  /\ Step(t, "call", "refresh") \/ Step(t, "held", "heldRefresh")
  /\ ~Admits(task[t].sess)
  /\ UNCHANGED <<api, pending, ring, server, out, spoilt>>

EndCall(t) ==
  /\ At(t, "call") \/ At(t, "held")
  /\ Stop(t)
  /\ UNCHANGED <<api, pending, ring, server, out, spoilt>>

\* (mistake: a refusal is not told from an answer)
AskRefresh_Unchecked(t, from, to) ==
  /\ At(t, from)
  /\ LET s == task[t].sess
     IN  \/ Refreshes(s) /\ Rotate(s) /\ Goto(t, to, Refreshed(s))
            /\ UNCHANGED spoilt
         \/ /\ Step(t, from, to)
            /\ spoilt' = spoilt \cup {s.uid}
            /\ UNCHANGED server
  /\ UNCHANGED <<api, pending, ring, out>>

\* The refresh request of a call or of the loop: granted, or granted and its
\* answer lost, or refused.
AskRefresh(t, from, to) ==
  /\ At(t, from)
  /\ LET s == task[t].sess
     IN  \/ /\ Refreshes(s)
            /\ Rotate(s)
            /\ \/ Goto(t, to, Refreshed(s)) /\ UNCHANGED spoilt
               \/ Stop(t) /\ spoilt' = spoilt \cup {s.uid}
         \/ Stop(t) /\ UNCHANGED <<server, spoilt>>
  /\ UNCHANGED <<api, pending, ring, out>>

RefreshCall(t) ==
  \/ AskRefresh(t, "refresh", "store")
  \/ AskRefresh(t, "heldRefresh", "heldStore")

\* (mistake: refresh_and_update_session updates the client's copy only)
StoreCall_InMemory(t) ==
  /\ \/ Step(t, "store", "call") /\ UNCHANGED api
     \/ Step(t, "heldStore", "held") /\ api' = task[t].sess
  /\ UNCHANGED <<pending, ring, server, out, spoilt>>

\* refresh_and_update_session: the keyring, then the client's own copy.  Unless
\* that is the handler's, the handler keeps the tokens that were just used up.
StoreCall(t) ==
  /\ \/ /\ Step(t, "store", "call")
        /\ ring' = task[t].sess
        /\ UNCHANGED <<api, spoilt>>
     \/ /\ Step(t, "heldStore", "held")
        /\ ring' = task[t].sess
        /\ api' = task[t].sess
        /\ UNCHANGED spoilt
     \/ /\ At(t, "store") \/ At(t, "heldStore")
        /\ Stop(t)
        /\ spoilt' = spoilt \cup {task[t].sess.uid}
        /\ UNCHANGED <<api, ring>>
  /\ UNCHANGED <<pending, server, out>>

-----------------------------------------------------------------------------
(* refresh_token, called by the loop *)

StartRefresh ==
  /\ Unlocked
  /\ At(Loop, "idle")
  /\ api # NoSession
  /\ Goto(Loop, "loopRefresh", api)
  /\ UNCHANGED <<api, pending, ring, server, out, spoilt>>

RefreshLoop == AskRefresh(Loop, "loopRefresh", "loopStore")

\* An error of the keyring is ignored here.
StoreLoop ==
  /\ Step(Loop, "loopStore", "loopSet")
  /\ \/ ring' = task[Loop].sess /\ UNCHANGED spoilt
     \/ UNCHANGED ring /\ spoilt' = spoilt \cup {task[Loop].sess.uid}
  /\ UNCHANGED <<api, pending, server, out>>

SetLoop ==
  /\ Unlocked
  /\ At(Loop, "loopSet")
  /\ api' = task[Loop].sess \/ UNCHANGED api
  /\ Stop(Loop)
  /\ UNCHANGED <<pending, ring, server, out, spoilt>>

\* The daemon stops or dies, and starts again from the keyring (which it may
\* fail to read).
Restart ==
  /\ api' \in {ring, NoSession}
  /\ pending' = NoSession
  /\ task' = [t \in Everyone |-> Idle]
  /\ spoilt' = spoilt \cup {task[t].sess.uid : t \in {x \in Everyone : Saving(x)}}
  /\ UNCHANGED <<ring, server, out>>

-----------------------------------------------------------------------------
Request(t) ==
  \/ Authenticate(t) \/ KeepPending(t) \/ TakePending(t) \/ Submit(t)
  \/ SaveLogin(t) \/ SetLogin(t) \/ ClearPending(t)
  \/ StartLogout(t) \/ Revoke(t) \/ Delete(t) \/ Forget(t)
  \/ StartCall(t) \/ StartHeldCall(t) \/ Unauthorized(t) \/ EndCall(t)
  \/ RefreshCall(t) \/ StoreCall(t)

Next ==
  \/ \E t \in Tasks : Request(t)
  \/ StartRefresh \/ RefreshLoop \/ StoreLoop \/ SetLoop
  \/ \E u \in Uids : Expire(u) \/ RevokeElsewhere(u)
  \/ Restart

Spec == Init /\ [][Next]_vars

-----------------------------------------------------------------------------
MaybeSession == Session \cup {NoSession}

TypeOK ==
  /\ api \in MaybeSession
  /\ pending \in MaybeSession
  /\ ring \in MaybeSession
  /\ server \in [Uids -> [status : {"none", "wantsCode", "wantsKey", "live", "revoked"},
                          gen : Nat, fresh : BOOLEAN]]
  /\ task \in [Everyone -> [at : Places, sess : MaybeSession]]
  /\ \A t \in Everyone : task[t].sess = NoSession <=> At(t, "idle")
  /\ out \in BOOLEAN
  /\ spoilt \in SUBSET Uids

Verifying(t) == task[t].at \in {"unverified", "submit"}

\* No session of an account that asks for a code is used or saved before the code
\* is accepted (handler.rs lines 328-391): not by the handler, the keyring, a call
\* or the loop, whatever logins, restarts and refreshes overlap.  An account that
\* asks for a security key alone is no such account: SecondFactorHeld.
VerifiedOnly ==
  \A s \in {api, ring} \cup {task[t].sess : t \in {x \in Everyone : ~Verifying(x)}} :
    s # NoSession => server[s.uid].status \notin {"none", "wantsCode"}

\* The keyring always has the tokens the next start of the daemon needs: of a
\* live session it holds the newest ones, or a task is about to save them,
\* unless an answer, a write or the daemon was lost in between (client.rs lines
\* 682-703, handler.rs lines 264-290).
KeyringCanRefresh ==
  ring # NoSession /\ server[ring.uid].status = "live" /\ ring.uid \notin spoilt =>
    \/ ring.gen = server[ring.uid].gen
    \/ \E t \in Everyone : /\ Saving(t)
                           /\ task[t].sess.uid = ring.uid
                           /\ task[t].sess.gen = server[ring.uid].gen

\* Used-up tokens never replace newer ones of the same session in the keyring,
\* although every call and the loop write it with no lock between them.
KeyringNeverGoesBack ==
  [][ring # NoSession /\ ring' # NoSession /\ ring'.uid = ring.uid
       => ring'.gen >= ring.gen]_vars

-----------------------------------------------------------------------------
(* What the source says of itself and its steps do not keep *)

\* "Revoke the session on the server and remove it from the keyring" (auth/mod.rs
\* line 110): after a logout no session comes back without a login.
LoggedOutStays == out => api = NoSession /\ ring = NoSession

\* "Return a `Session` (or indicate that 2FA is still needed)" (auth/mod.rs line
\* 29), and the mask says when: "1 = TOTP, 2 = FIDO2" (api/types.rs line 56).  Of
\* an account with a key alone the session is kept as if nothing were needed.
SecondFactorHeld ==
  \A s \in {api, ring} : s # NoSession => server[s.uid].status # "wantsKey"
=============================================================================
