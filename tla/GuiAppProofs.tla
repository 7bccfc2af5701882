------------------------------ MODULE GuiAppProofs ------------------------------
(***************************************************************************)
(* Proofs about GuiApp, for any drive, any conflicts and any number of     *)
(* commands side by side: types, that what the application says it is busy *)
(* with has a command running, and that no listing is shown where there    *)
(* is no keyring.                                                          *)
(***************************************************************************)
EXTENDS GuiApp, TLAPS

-----------------------------------------------------------------------------
(* Types *)

States == {"free", "asked", "ok", "failed", "2fa"}
Args == Folders \cup Links \cup Paths \cup {None}
Data == Links \cup Paths \cup {"session", "paused", "syncing"}

\* A listing names a folder, and holds links; conflicts are paths.
CallSide ==
  {c \in [kind : Kinds \cup {"none"}, arg : Args, state : States, data : SUBSET Data] :
     /\ c.kind = "list" => c.arg \in Folders /\ c.data \subseteq Links
     /\ c.kind = "conflicts" => c.data \subseteq Paths}
FormSide == [code : BOOLEAN, loading : BOOLEAN]
ViewSide ==
  [kr : BOOLEAN, folder : Folders \cup {None}, files : SUBSET Links,
   conflicts : SUBSET Paths, loading : BOOLEAN, creating : BOOLEAN,
   renaming : Links \cup {None}, confirm : Links \cup {None},
   deleting : BOOLEAN, uploading : BOOLEAN, paused : BOOLEAN,
   syncing : BOOLEAN]
DaemonSide ==
  [session : BOOLEAN, pending : BOOLEAN, paused : BOOLEAN, syncing : BOOLEAN,
   conflicts : SUBSET Paths]

ScreenOK == screen \in Screens
FormOK == form \in FormSide
ViewOK == view \in ViewSide
CallsOK == calls \in [Slots -> CallSide]
WorldOK == daemon \in DaemonSide /\ ring \in BOOLEAN /\ inside \in [Folders -> SUBSET Links]

TypeInv == ScreenOK /\ FormOK /\ ViewOK /\ CallsOK /\ WorldOK

LEMMA TypeFollows == TypeInv => TypeOK
  BY DEF TypeInv, TypeOK, ScreenOK, FormOK, ViewOK, CallsOK, WorldOK, CallSide,
         States, FormSide, ViewSide

LEMMA NewFormType == NewForm \in FormSide /\ NewForm.loading = FALSE
<1>1. NewForm.loading = FALSE /\ NewForm.code = FALSE
  BY Zenon DEF NewForm
<1> QED BY <1>1 DEF NewForm, FormSide

LEMMA NewViewType ==
  /\ NewView \in ViewSide
  /\ NewView.loading = FALSE /\ NewView.deleting = FALSE /\ NewView.uploading = FALSE
  /\ NewView.files = {}
<1>1. /\ NewView.loading = FALSE /\ NewView.deleting = FALSE /\ NewView.uploading = FALSE
      /\ NewView.files = {}
  BY Zenon DEF NewView
<1>2. NewView \in ViewSide
  BY SMT DEF NewView, ViewSide
<1> QED BY <1>1, <1>2

LEMMA NoCallType == NoCall \in CallSide /\ NoCall.kind = "none"
  BY DEF NoCall, CallSide, Args, States

LEMMA AskType ==
  ASSUME NEW kind \in Kinds, NEW arg \in Args, kind = "list" => arg \in Folders
  PROVE  Ask(kind, arg) \in CallSide /\ Ask(kind, arg).kind = kind
  BY DEF Ask, CallSide, States

LEMMA KindsAre ==
  Kinds = {"check", "load", "login", "code", "logout", "keyring", "list",
           "conflicts", "resolve", "status", "pause", "resume",
           "create", "rename", "delete", "upload"}
  BY DEF Kinds

LEMMA ArgsHold ==
  /\ None \in Args /\ Folders \subseteq Args /\ Links \subseteq Args
  /\ Paths \subseteq Args /\ Root \in Folders
  BY TreeAssumption DEF Args

-----------------------------------------------------------------------------
(* Commands *)

\* A command that is served keeps its kind, and everything about the others.
LEMMA Served ==
  ASSUME CallsOK, NEW s \in Slots, NEW state \in States, NEW data \in SUBSET Data,
         Serve(s, state, data),
         calls[s].kind = "list" => data \subseteq Links,
         calls[s].kind = "conflicts" => data \subseteq Paths
  PROVE  CallsOK'
<1>1. calls' = [calls EXCEPT ![s] = [calls[s] EXCEPT !.state = state, !.data = data]]
  BY DEF Serve, CallsOK
<1>2. [calls[s] EXCEPT !.state = state, !.data = data] \in CallSide
  BY DEF CallsOK, CallSide
<1> QED BY <1>1, <1>2 DEF CallsOK

LEMMA ServedKinds ==
  ASSUME CallsOK, NEW s \in Slots, NEW state, NEW data, Serve(s, state, data)
  PROVE  /\ \A u \in Slots : calls'[u].kind = calls[u].kind
         /\ UNCHANGED app
<1>1. calls' = [calls EXCEPT ![s] = [calls[s] EXCEPT !.state = state, !.data = data]]
  BY DEF Serve, CallsOK
<1>2. [calls[s] EXCEPT !.state = state, !.data = data].kind = calls[s].kind
  BY DEF CallsOK, CallSide
<1> QED BY <1>1, <1>2 DEF Serve, CallsOK

\* An answered command gives its slot to another.
LEMMA Followed ==
  ASSUME CallsOK, NEW s \in Slots, NEW call \in CallSide, Then(s, call)
  PROVE  /\ CallsOK'
         /\ calls'[s] = call
         /\ \A u \in Slots \ {s} : calls'[u] = calls[u]
  BY DEF CallsOK, Then

\* A command that starts takes a free slot.
LEMMA Started ==
  ASSUME CallsOK, NEW call \in CallSide, call.kind # "none",
         \E s \in Slots :
           /\ calls[s] = NoCall /\ \A h \in 1..(s - 1) : calls[h] # NoCall
           /\ calls' = [calls EXCEPT ![s] = call]
  PROVE  /\ CallsOK'
         /\ \E s \in Slots : calls'[s].kind = call.kind
         /\ \A u \in Slots : calls[u].kind = "none" \/ calls'[u].kind = calls[u].kind
<1>1. PICK s \in Slots : calls[s] = NoCall /\ calls' = [calls EXCEPT ![s] = call]
  OBVIOUS
<1>2. calls'[s] = call /\ \A u \in Slots \ {s} : calls'[u] = calls[u]
  BY <1>1 DEF CallsOK
<1>3. CallsOK'
  BY <1>1 DEF CallsOK
<1> QED BY <1>1, <1>2, <1>3, NoCallType

LEMMA Pressed ==
  ASSUME CallsOK, NEW where, NEW kind \in Kinds, NEW arg \in Args, Press(where, kind, arg),
         kind = "list" => arg \in Folders
  PROVE  /\ CallsOK' /\ UNCHANGED world /\ screen = where
         /\ Running({kind})'
         /\ \A u \in Slots : calls[u].kind = "none" \/ calls'[u].kind = calls[u].kind
<1>1. Ask(kind, arg) \in CallSide /\ Ask(kind, arg).kind = kind /\ kind # "none"
  BY AskType, KindsAre
<1>2. \E s \in Slots :
         /\ calls[s] = NoCall /\ \A h \in 1..(s - 1) : calls[h] # NoCall
         /\ calls' = [calls EXCEPT ![s] = Ask(kind, arg)]
  BY DEF Press
<1>3. /\ CallsOK'
      /\ \E s \in Slots : calls'[s].kind = kind
      /\ \A u \in Slots : calls[u].kind = "none" \/ calls'[u].kind = calls[u].kind
  BY <1>1, <1>2, Started
<1> QED BY <1>3 DEF Press, Running

-----------------------------------------------------------------------------
(* Types, step by step *)

LEMMA InitType == Init => TypeInv
<1> SUFFICES ASSUME Init PROVE TypeInv
  OBVIOUS
<1>1. ScreenOK /\ FormOK /\ ViewOK
  BY NewFormType, NewViewType DEF Init, ScreenOK, Screens, FormOK, ViewOK
<1>2. CallsOK
  <2>1. Ask("check", None) \in CallSide
    BY AskType, KindsAre, ArgsHold
  <2> QED BY <2>1, NoCallType DEF Init, CallsOK
<1>3. ring \in BOOLEAN
  BY Zenon DEF Init
<1>4. daemon \in DaemonSide
  <2>1. daemon \in [session : {ring}, pending : {FALSE}, paused : {FALSE},
                   syncing : {FALSE}, conflicts : SUBSET Paths]
    BY Zenon DEF Init
  <2> QED BY <1>3, <2>1 DEF DaemonSide
<1>5. inside \in [Folders -> SUBSET Links]
  BY DEF Init
<1> QED BY <1>1, <1>2, <1>3, <1>4, <1>5 DEF TypeInv, WorldOK

\* What commands find and do.
LEMMA ServingCalls ==
  ASSUME TypeInv, NEW s \in Slots, Serving(s)
  PROVE  CallsOK' /\ UNCHANGED app /\ \A u \in Slots : calls'[u].kind = calls[u].kind
<1> USE DEF TypeInv
<1>0. {} \subseteq Data /\ {"session"} \subseteq Data /\ Flags \subseteq Data
      /\ (\A l \in SUBSET Links : l \subseteq Data) /\ daemon.conflicts \subseteq Paths
      /\ daemon.conflicts \subseteq Data
  BY DEF Data, Flags, WorldOK, DaemonSide
<1>1. \E state \in States, data \in SUBSET Data :
        /\ Serve(s, state, data)
        /\ calls[s].kind = "list" => data \subseteq Links
        /\ calls[s].kind = "conflicts" => data \subseteq Paths
  <2> DEFINE Answer(state, data) ==
        /\ Serve(s, state, data)
        /\ calls[s].kind = "list" => data \subseteq Links
        /\ calls[s].kind = "conflicts" => data \subseteq Paths
  <2>1. CASE Fail(s)
    <3>1. Answer("failed", {})
      BY <2>1 DEF Fail
    <3> QED BY <1>0, <3>1 DEF States
  <2>2. CASE Read(s)
    <3>1. CASE calls[s].kind = "check"
      <4>1. Answer("ok", IF daemon.session /\ ring THEN {"session"} ELSE {})
        BY <2>2, <3>1 DEF Read
      <4> QED BY <1>0, <4>1 DEF States
    <3>2. CASE calls[s].kind = "load"
      <4>1. Answer("ok", {"session"}) \/ Answer("failed", {})
        BY <2>2, <3>2 DEF Read
      <4> QED BY <1>0, <4>1 DEF States
    <3>3. CASE calls[s].kind = "keyring"
      <4>1. Answer("ok", {})
        BY <2>2, <3>3 DEF Read
      <4> QED BY <1>0, <4>1 DEF States
    <3>4. CASE calls[s].kind = "list"
      <4>1. inside[calls[s].arg] \subseteq Links
        BY <3>4 DEF CallsOK, CallSide, WorldOK
      <4>2. Answer("ok", inside[calls[s].arg])
        BY <2>2, <3>4, <4>1 DEF Read
      <4> QED BY <1>0, <4>1, <4>2 DEF States
    <3>5. CASE calls[s].kind = "conflicts"
      <4>1. Answer("ok", daemon.conflicts)
        BY <1>0, <2>2, <3>5 DEF Read
      <4> QED BY <1>0, <4>1 DEF States
    <3>6. CASE calls[s].kind = "status"
      <4>1. Answer("ok", Flags)
        BY <2>2, <3>6 DEF Read
      <4> QED BY <1>0, <4>1 DEF States
    <3> QED BY <2>2, <3>1, <3>2, <3>3, <3>4, <3>5, <3>6 DEF Read
  <2>3. CASE LogIn(s) \/ SendCode(s) \/ LogOut(s) \/ Resolve(s) \/ SetPause(s) \/ ChangeDrive(s)
    <3>1. Answer("ok", {}) \/ Answer("failed", {}) \/ Answer("2fa", {})
      BY <2>3 DEF LogIn, LoggedIn, SendCode, LogOut, Resolve, SetPause, ChangeDrive
    <3> QED BY <1>0, <3>1 DEF States
  <2> QED BY <2>1, <2>2, <2>3 DEF Serving
<1> QED BY <1>1, Served, ServedKinds

LEMMA ServingType ==
  ASSUME TypeInv, NEW s \in Slots, Serving(s)
  PROVE  TypeInv'
<1> USE DEF TypeInv
<1>1. CallsOK' /\ UNCHANGED app
  BY ServingCalls
<1>2. ScreenOK' /\ FormOK' /\ ViewOK'
  BY <1>1 DEF app, ScreenOK, FormOK, ViewOK
<1>3. daemon \in DaemonSide /\ daemon.conflicts \subseteq Paths
  BY DEF WorldOK, DaemonSide
<1>4. daemon' \in DaemonSide
  <2>1. CASE Fail(s) \/ Read(s) \/ ChangeDrive(s)
    BY <1>3, <2>1 DEF Fail, Read, ChangeDrive, world
  <2>2. CASE LogIn(s) \/ SendCode(s) \/ LogOut(s)
    BY <1>3, <2>2 DEF LogIn, LoggedIn, SendCode, LogOut, DaemonSide
  <2>3. CASE Resolve(s)
    BY <1>3, <2>3 DEF Resolve, DaemonSide
  <2>4. CASE SetPause(s)
    <3> DEFINE pause == calls[s].kind = "pause"
    <3>1. pause \in BOOLEAN /\ daemon' = [daemon EXCEPT !.paused = pause]
      BY <2>4, Zenon DEF SetPause
    <3> HIDE DEF pause
    <3> QED BY <1>3, <3>1 DEF DaemonSide
  <2> QED BY <2>1, <2>2, <2>3, <2>4 DEF Serving
<1>5. ring' \in BOOLEAN
  <2>1. ring' = ring \/ ring' = TRUE \/ ring' = FALSE
    BY Zenon DEF Serving, Fail, Read, ChangeDrive, world, LogIn, LoggedIn, SendCode,
       LogOut, Resolve, SetPause
  <2> QED BY <2>1, Zenon DEF WorldOK
<1>6. inside' \in [Folders -> SUBSET Links]
  <2>1. CASE ChangeDrive(s)
    BY <2>1 DEF ChangeDrive, WorldOK
  <2>2. CASE ~ChangeDrive(s)
    BY <2>2 DEF Serving, Fail, Read, world, LogIn, SendCode, LogOut, Resolve, SetPause, WorldOK
  <2> QED BY <2>1, <2>2
<1> QED BY <1>1, <1>2, <1>4, <1>5, <1>6 DEF WorldOK

LEMMA OtherType ==
  ASSUME TypeInv, Other
  PROVE  TypeInv' /\ UNCHANGED <<app, calls>>
<1> USE DEF TypeInv
<1>1. daemon' \in DaemonSide
  <2>1. CASE \E f \in {"paused", "syncing"} : daemon' = [daemon EXCEPT ![f] = ~@]
    <3>1. PICK f \in {"paused", "syncing"} : daemon' = [daemon EXCEPT ![f] = ~daemon[f]]
      BY <2>1
    <3> DEFINE flag == ~daemon[f]
    <3>2. flag \in BOOLEAN
      BY Zenon
    <3> HIDE DEF flag
    <3> QED BY <3>1, <3>2 DEF flag, WorldOK, DaemonSide
  <2>2. CASE \E p \in Paths : daemon' = [daemon EXCEPT !.conflicts = @ \cup {p}]
    BY <2>2 DEF WorldOK, DaemonSide
  <2> QED BY <2>1, <2>2 DEF Other
<1> QED BY <1>1 DEF Other, app, ScreenOK, FormOK, ViewOK, CallsOK, WorldOK

\* An answer to the view keeps to the types if what it shows does.
LEMMA Updated ==
  ASSUME TypeInv, NEW s \in Slots, NEW kinds, NEW new \in ViewSide,
         NEW call \in CallSide, Update(s, kinds, new, call)
  PROVE  TypeInv'
<1> USE DEF TypeInv
<1>1. Then(s, call) \/ Then(s, NoCall)
  BY DEF Update
<1>2. CallsOK'
  BY <1>1, NoCallType, Followed
<1>3. ViewOK'
  BY DEF Update, ViewOK
<1> QED BY <1>2, <1>3 DEF Update, world, ScreenOK, FormOK, WorldOK

LEMMA RefetchType ==
  ASSUME TypeInv, NEW s
  PROVE  Refetch(s) \in CallSide
<1>1. view.folder \in Folders \cup {None}
  BY DEF TypeInv, ViewOK, ViewSide
<1>2. "list" \in Kinds
  BY KindsAre
<1> QED BY <1>1, <1>2, ArgsHold, AskType, NoCallType DEF Refetch

\* Answers that the view takes.
LEMMA UpdateType ==
  ASSUME TypeInv, NEW s \in Slots,
         \/ KeyringBuilt(s) \/ FolderLoaded(s) \/ NamesDone(s) \/ DeleteDone(s)
         \/ UploadDone(s) \/ ConflictsFetched(s) \/ SyncStatusUpdated(s)
  PROVE  TypeInv'
<1>0. view \in ViewSide /\ calls[s] \in CallSide
  BY DEF TypeInv, ViewOK, CallsOK
<1>1. CASE KeyringBuilt(s)
  <2> DEFINE kr == view.kr \/ Ok(s)
             call == IF Ok(s) THEN Ask("list", Root) ELSE NoCall
             new == [view EXCEPT !.loading = FALSE, !.kr = kr]
  <2>1. Update(s, {"keyring"}, new, call)
    BY <1>1 DEF KeyringBuilt
  <2>2. kr \in BOOLEAN
    BY Zenon
  <2>3. call \in CallSide
    BY KindsAre, ArgsHold, AskType, NoCallType
  <2>4. new \in ViewSide
    <3> HIDE DEF kr
    <3> QED BY <1>0, <2>2 DEF ViewSide
  <2> QED BY <2>1, <2>3, <2>4, Updated
<1>2. CASE FolderLoaded(s)
  <2> DEFINE files == IF ~Ok(s) THEN view.files
                      ELSE IF view.kr THEN calls[s].data ELSE {}
             new == [view EXCEPT !.loading = FALSE, !.files = files]
  <2>1. Update(s, {"list"}, new, NoCall)
    BY <1>2 DEF FolderLoaded
  <2>2. files \subseteq Links
    <3>1. calls[s].kind = "list"
      BY <2>1 DEF Update, Answered
    <3> QED BY <1>0, <3>1 DEF ViewSide, CallSide
  <2>3. new \in ViewSide
    <3> HIDE DEF files
    <3> QED BY <1>0, <2>2 DEF ViewSide
  <2> QED BY <2>1, <2>3, NoCallType, Updated
<1>3. CASE NamesDone(s)
  BY <1>0, <1>3, RefetchType, Updated DEF NamesDone
<1>4. CASE DeleteDone(s)
  <2>1. [view EXCEPT !.deleting = FALSE] \in ViewSide
    BY <1>0 DEF ViewSide
  <2> QED BY <1>4, <2>1, RefetchType, Updated DEF DeleteDone
<1>5. CASE UploadDone(s)
  <2>1. [view EXCEPT !.uploading = FALSE] \in ViewSide
    BY <1>0 DEF ViewSide
  <2> QED BY <1>5, <2>1, RefetchType, Updated DEF UploadDone
<1>6. CASE ConflictsFetched(s)
  <2> DEFINE found == IF Ok(s) THEN calls[s].data ELSE view.conflicts
             new == [view EXCEPT !.conflicts = found]
  <2>1. Update(s, {"conflicts"}, new, NoCall)
    BY <1>6 DEF ConflictsFetched
  <2>2. found \subseteq Paths
    <3>1. calls[s].kind = "conflicts"
      BY <2>1 DEF Update, Answered
    <3> QED BY <1>0, <3>1 DEF ViewSide, CallSide
  <2>3. new \in ViewSide
    <3> HIDE DEF found
    <3> QED BY <1>0, <2>2 DEF ViewSide
  <2> QED BY <2>1, <2>3, NoCallType, Updated
<1>7. CASE SyncStatusUpdated(s)
  <2> DEFINE paused == "paused" \in calls[s].data
             syncing == "syncing" \in calls[s].data
             new == [view EXCEPT !.paused = paused, !.syncing = syncing]
  <2>1. Update(s, {"status"}, new, NoCall)
    BY <1>7 DEF SyncStatusUpdated
  <2>2. paused \in BOOLEAN /\ syncing \in BOOLEAN
    BY SMT
  <2>3. new \in ViewSide
    <3> HIDE DEF paused, syncing
    <3> QED BY <1>0, <2>2 DEF ViewSide
  <2> QED BY <2>1, <2>3, NoCallType, Updated
<1> QED BY <1>1, <1>2, <1>3, <1>4, <1>5, <1>6, <1>7

LEMMA Screened == {"loading", "onboarding", "login", "browse"} \subseteq Screens
  BY DEF Screens

\* Answers that change the screen or are looked at on every screen.
LEMMA AnswerType ==
  ASSUME TypeInv, NEW s \in Slots,
         \/ CheckAuthDone(s) \/ LoginDone(s) \/ LogoutDone(s)
         \/ ResolveDone(s) \/ PauseDone(s)
  PROVE  TypeInv'
<1> USE DEF TypeInv
<1>1. CallsOK'
  <2>1. Ask("conflicts", None) \in CallSide /\ Ask("load", None) \in CallSide
        /\ Ask("status", None) \in CallSide /\ NoCall \in CallSide
    BY KindsAre, ArgsHold, AskType, NoCallType
  <2>2. \E call \in CallSide : Then(s, call)
    BY <2>1 DEF CheckAuthDone, LoginDone, LogoutDone, ResolveDone, PauseDone
  <2> QED BY <2>2, Followed
<1>2. ScreenOK'
  BY Screened DEF CheckAuthDone, LoginDone, LogoutDone, ResolveDone, PauseDone, ToLogin,
     app, ScreenOK
<1>3. FormOK'
  <2>1. CASE CheckAuthDone(s) \/ LogoutDone(s) \/ ResolveDone(s) \/ PauseDone(s)
    BY <2>1, NewFormType DEF CheckAuthDone, LogoutDone, ResolveDone, PauseDone, ToLogin,
       app, FormOK
  <2>2. CASE LoginDone(s)
    <3> DEFINE code == IF calls[s].kind = "code" THEN FALSE
                       ELSE form.code \/ calls[s].state = "2fa"
    <3>1. form' = [loading |-> FALSE, code |-> code] \/ form' = form
      BY <2>2 DEF LoginDone
    <3>2. code \in BOOLEAN
      BY Zenon
    <3> HIDE DEF code
    <3>3. [loading |-> FALSE, code |-> code] \in FormSide
      BY <3>2 DEF FormSide
    <3> QED BY <3>1, <3>3 DEF FormOK
  <2> QED BY <2>1, <2>2
<1>4. ViewOK'
  <2>1. CASE CheckAuthDone(s) \/ LoginDone(s) \/ LogoutDone(s) \/ ResolveDone(s)
    BY <2>1, NewViewType DEF CheckAuthDone, LoginDone, LogoutDone, ResolveDone, app, ViewOK
  <2>2. CASE PauseDone(s)
    <3> DEFINE paused == calls[s].kind = "pause"
    <3>1. view' = [view EXCEPT !.paused = paused] \/ view' = view
      BY <2>2 DEF PauseDone
    <3>2. paused \in BOOLEAN
      BY SMT
    <3> HIDE DEF paused
    <3> QED BY <3>1, <3>2 DEF ViewOK, ViewSide
  <2> QED BY <2>1, <2>2
<1>5. WorldOK'
  BY DEF CheckAuthDone, LoginDone, LogoutDone, ResolveDone, PauseDone, world, WorldOK
<1> QED BY <1>1, <1>2, <1>3, <1>4, <1>5

\* What a button with a command leaves of the types, and of the view.
LEMMA PressType ==
  ASSUME TypeInv, NEW where, NEW kind \in Kinds, NEW arg \in Args, Press(where, kind, arg),
         kind = "list" => arg \in Folders,
         screen' = screen, form' \in FormSide, view' \in ViewSide
  PROVE  TypeInv'
<1>1. CallsOK' /\ UNCHANGED world
  BY Pressed DEF TypeInv
<1> QED BY <1>1 DEF TypeInv, world, ScreenOK, FormOK, ViewOK, WorldOK

LEMMA ClickType ==
  ASSUME TypeInv, NEW where, Click(where),
         screen' \in Screens, form' \in FormSide, view' \in ViewSide
  PROVE  TypeInv'
  BY DEF Click, world, TypeInv, ScreenOK, FormOK, ViewOK, WorldOK, CallsOK

\* Buttons that start no command.
LEMMA ClickingType ==
  ASSUME TypeInv,
         \/ OnboardingDone \/ NewFolderPressed \/ Cancelled
         \/ \E l \in Links : RenamePressed(l) \/ DeletePressed(l)
  PROVE  TypeInv'
<1>1. PICK where : Click(where)
  BY DEF OnboardingDone, NewFolderPressed, Cancelled, RenamePressed, DeletePressed
<1>2. screen' \in Screens /\ form' \in FormSide
  BY Screened, NewFormType DEF OnboardingDone, NewFolderPressed, Cancelled, RenamePressed,
     DeletePressed, ToLogin, TypeInv, ScreenOK, FormOK
<1>3. view' \in ViewSide
  BY DEF OnboardingDone, NewFolderPressed, Cancelled, RenamePressed, DeletePressed,
     TypeInv, ViewOK, ViewSide
<1> QED BY <1>1, <1>2, <1>3, ClickType

\* Buttons that start one.
LEMMA PressingType ==
  ASSUME TypeInv,
         \/ LoginPressed \/ LogoutPressed \/ DecryptPressed \/ NewFolderConfirmed
         \/ RenameConfirmed \/ DeleteConfirmed \/ UploadPressed \/ PausePressed
         \/ \E l \in Links : FolderClicked(l)
         \/ \E p \in Paths : ResolveConflict(p)
  PROVE  TypeInv'
<1> USE KindsAre, ArgsHold
<1>0. view \in ViewSide /\ form \in FormSide
  BY DEF TypeInv, ViewOK, FormOK
<1>1. view.folder \in Args /\ view.renaming \in Args /\ view.confirm \in Args
  BY <1>0 DEF ViewSide
<1>2. CASE LoginPressed
  <2>1. form' = [form EXCEPT !.loading = TRUE] /\ UNCHANGED <<screen, view>>
    BY <1>2 DEF LoginPressed
  <2>2. Press("login", "code", None) \/ Press("login", "login", None)
    BY <1>2 DEF LoginPressed
  <2>3. form' \in FormSide
    BY <1>0, <2>1 DEF FormSide
  <2> QED BY <1>0, <2>1, <2>2, <2>3, PressType
<1>3. CASE LogoutPressed \/ DecryptPressed \/ PausePressed \/ \E p \in Paths : ResolveConflict(p)
  <2>1. UNCHANGED <<screen, form, view>>
    BY <1>3 DEF LogoutPressed, DecryptPressed, PausePressed, ResolveConflict, app
  <2>2. \E kind \in Kinds \ {"list"} : \E arg \in Args : Press("browse", kind, arg)
    BY <1>3 DEF LogoutPressed, DecryptPressed, PausePressed, ResolveConflict
  <2> QED BY <1>0, <2>1, <2>2, PressType
<1>4. CASE NewFolderConfirmed
  <2>1. view' \in ViewSide /\ UNCHANGED <<screen, form>>
    BY <1>0, <1>4 DEF NewFolderConfirmed, ViewSide
  <2>2. Click("browse") \/ Press("browse", "create", view.folder)
    BY <1>4 DEF NewFolderConfirmed
  <2>3. screen \in Screens
    BY DEF TypeInv, ScreenOK
  <2> QED BY <1>0, <1>1, <2>1, <2>2, <2>3, PressType, ClickType
<1>5. CASE RenameConfirmed
  <2>1. view' \in ViewSide
    BY <1>0, <1>5 DEF RenameConfirmed, ViewSide
  <2> QED BY <1>0, <1>1, <1>5, <2>1, PressType DEF RenameConfirmed
<1>6. CASE DeleteConfirmed
  <2>1. view' \in ViewSide
    BY <1>0, <1>6 DEF DeleteConfirmed, ViewSide
  <2> QED BY <1>0, <1>1, <1>6, <2>1, PressType DEF DeleteConfirmed
<1>7. CASE UploadPressed
  <2>1. view' \in ViewSide
    BY <1>0, <1>7 DEF UploadPressed, ViewSide
  <2> QED BY <1>0, <1>1, <1>7, <2>1, PressType DEF UploadPressed
<1>8. ASSUME NEW l \in Links, FolderClicked(l)
      PROVE  TypeInv'
  <2>1. l \in Folders
    BY <1>8 DEF FolderClicked
  <2>2. view' \in ViewSide
    BY <1>0, <1>8, <2>1 DEF FolderClicked, ViewSide
  <2> QED BY <1>0, <1>8, <2>1, <2>2, PressType DEF FolderClicked
<1> QED BY <1>2, <1>3, <1>4, <1>5, <1>6, <1>7, <1>8

LEMMA TickStarts ==
  ASSUME CallsOK, SyncStatusTick
  PROVE  /\ CallsOK'
         /\ \A u \in Slots : calls[u].kind = "none" \/ calls'[u].kind = calls[u].kind
         /\ UNCHANGED <<app, world>>
<1>1. Ask("status", None) \in CallSide /\ Ask("status", None).kind = "status"
  BY KindsAre, ArgsHold, AskType
<1> QED BY <1>1, Started DEF SyncStatusTick

LEMMA NextType == TypeInv /\ [Next]_vars => TypeInv'
<1> SUFFICES ASSUME TypeInv, [Next]_vars PROVE TypeInv'
  OBVIOUS
<1>1. ASSUME NEW s \in Slots, Serving(s) PROVE TypeInv'
  BY <1>1, ServingType
<1>2. ASSUME NEW s \in Slots, Answering(s) PROVE TypeInv'
  BY <1>2, UpdateType, AnswerType DEF Answering
<1>3. CASE Pressing
  BY <1>3, ClickingType, PressingType DEF Pressing
<1>4. CASE SyncStatusTick
  BY <1>4, TickStarts DEF app, world, TypeInv, ScreenOK, FormOK, ViewOK, WorldOK
<1>5. CASE Other
  BY <1>5, OtherType
<1>6. CASE UNCHANGED vars
  BY <1>6 DEF vars, app, world, TypeInv, ScreenOK, FormOK, ViewOK, CallsOK, WorldOK
<1> QED BY <1>1, <1>2, <1>3, <1>4, <1>5, <1>6 DEF Next

LEMMA TypesHold == Spec => []TypeInv
  BY InitType, NextType, PTL DEF Spec

\* Every variable keeps to its type, whatever answer comes on what screen.
THEOREM TypeCorrect == Spec => []TypeOK
  BY TypesHold, TypeFollows, PTL

-----------------------------------------------------------------------------
(* Busy *)

\* Commands that an answer, or a press, does not touch go on.
LEMMA GoesOn ==
  ASSUME NEW kinds, "none" \notin kinds, Running(kinds),
         \A u \in Slots : \/ calls[u].kind \notin kinds
                         \/ calls'[u].kind = calls[u].kind
  PROVE  Running(kinds)'
  BY DEF Running

\* What an answer to the view may do: say it is busy only with what it was
\* busy with, if that is not what was answered.
LEMMA UpdatedBusy ==
  ASSUME TypeInv, BusyHasCommand, NEW s \in Slots,
         NEW kinds, NEW new, NEW call \in CallSide, Update(s, kinds, new, call),
         "login" \notin kinds, "code" \notin kinds,
         new.loading => view.loading /\ "list" \notin kinds,
         new.deleting => view.deleting /\ "delete" \notin kinds,
         new.uploading => view.uploading /\ "upload" \notin kinds
  PROVE  BusyHasCommand'
<1>1. calls[s].kind \in kinds /\ \A u \in Slots \ {s} : calls'[u] = calls[u]
  BY NoCallType, Followed DEF Update, Answered, TypeInv
<1>2. UNCHANGED <<screen, form>>
  BY DEF Update
<1>3. screen = "browse" => view' = new
  BY DEF Update
<1>4. screen = "login" /\ form.loading => Running({"login", "code"})'
  BY <1>1, GoesOn DEF BusyHasCommand
<1>5. screen = "browse" /\ new.loading => Running({"list"})'
  BY <1>1, GoesOn DEF BusyHasCommand
<1>6. screen = "browse" /\ new.deleting => Running({"delete"})'
  BY <1>1, GoesOn DEF BusyHasCommand
<1>7. screen = "browse" /\ new.uploading => Running({"upload"})'
  BY <1>1, GoesOn DEF BusyHasCommand
<1> QED BY <1>2, <1>3, <1>4, <1>5, <1>6, <1>7 DEF BusyHasCommand

LEMMA UpdateBusy ==
  ASSUME TypeInv, BusyHasCommand, NEW s \in Slots,
         \/ KeyringBuilt(s) \/ FolderLoaded(s) \/ NamesDone(s) \/ DeleteDone(s)
         \/ UploadDone(s) \/ ConflictsFetched(s) \/ SyncStatusUpdated(s)
  PROVE  BusyHasCommand'
<1>0. view \in ViewSide
  BY DEF TypeInv, ViewOK
<1>1. CASE KeyringBuilt(s)
  <2> DEFINE kr == view.kr \/ Ok(s)
             call == IF Ok(s) THEN Ask("list", Root) ELSE NoCall
             new == [view EXCEPT !.loading = FALSE, !.kr = kr]
  <2>1. Update(s, {"keyring"}, new, call)
    BY <1>1 DEF KeyringBuilt
  <2>2. call \in CallSide
    BY KindsAre, ArgsHold, AskType, NoCallType
  <2>3. ~new.loading /\ new.deleting = view.deleting /\ new.uploading = view.uploading
    <3> HIDE DEF kr
    <3> QED BY <1>0 DEF ViewSide
  <2> HIDE DEF new, call
  <2> QED BY <2>1, <2>2, <2>3, UpdatedBusy
<1>2. CASE FolderLoaded(s)
  <2> DEFINE files == IF ~Ok(s) THEN view.files
                      ELSE IF view.kr THEN calls[s].data ELSE {}
             new == [view EXCEPT !.loading = FALSE, !.files = files]
  <2>1. Update(s, {"list"}, new, NoCall)
    BY <1>2 DEF FolderLoaded
  <2>2. ~new.loading /\ new.deleting = view.deleting /\ new.uploading = view.uploading
    <3> HIDE DEF files
    <3> QED BY <1>0 DEF ViewSide
  <2> HIDE DEF new
  <2> QED BY <2>1, <2>2, NoCallType, UpdatedBusy
<1>3. CASE NamesDone(s)
  BY <1>3, RefetchType, UpdatedBusy DEF NamesDone
<1>4. CASE DeleteDone(s)
  <2> DEFINE new == [view EXCEPT !.deleting = FALSE]
  <2>1. Update(s, {"delete"}, new, Refetch(s))
    BY <1>4 DEF DeleteDone
  <2>2. ~new.deleting /\ new.loading = view.loading /\ new.uploading = view.uploading
    BY <1>0 DEF ViewSide
  <2> HIDE DEF new
  <2> QED BY <2>1, <2>2, RefetchType, UpdatedBusy
<1>5. CASE UploadDone(s)
  <2> DEFINE new == [view EXCEPT !.uploading = FALSE]
  <2>1. Update(s, {"upload"}, new, Refetch(s))
    BY <1>5 DEF UploadDone
  <2>2. ~new.uploading /\ new.loading = view.loading /\ new.deleting = view.deleting
    BY <1>0 DEF ViewSide
  <2> HIDE DEF new
  <2> QED BY <2>1, <2>2, RefetchType, UpdatedBusy
<1>6. CASE ConflictsFetched(s)
  <2> DEFINE found == IF Ok(s) THEN calls[s].data ELSE view.conflicts
             new == [view EXCEPT !.conflicts = found]
  <2>1. Update(s, {"conflicts"}, new, NoCall)
    BY <1>6 DEF ConflictsFetched
  <2>2. /\ new.loading = view.loading /\ new.deleting = view.deleting
        /\ new.uploading = view.uploading
    <3> HIDE DEF found
    <3> QED BY <1>0 DEF ViewSide
  <2> HIDE DEF new
  <2> QED BY <2>1, <2>2, NoCallType, UpdatedBusy
<1>7. CASE SyncStatusUpdated(s)
  <2> DEFINE paused == "paused" \in calls[s].data
             syncing == "syncing" \in calls[s].data
             new == [view EXCEPT !.paused = paused, !.syncing = syncing]
  <2>1. Update(s, {"status"}, new, NoCall)
    BY <1>7 DEF SyncStatusUpdated
  <2>2. /\ new.loading = view.loading /\ new.deleting = view.deleting
        /\ new.uploading = view.uploading
    <3> HIDE DEF paused, syncing
    <3> QED BY <1>0 DEF ViewSide
  <2> HIDE DEF new
  <2> QED BY <2>1, <2>2, NoCallType, UpdatedBusy
<1> QED BY <1>1, <1>2, <1>3, <1>4, <1>5, <1>6, <1>7

\* Answers that change the screen leave nothing busy there.
LEMMA AnswerBusy ==
  ASSUME TypeInv, BusyHasCommand, NEW s \in Slots,
         \/ CheckAuthDone(s) \/ LoginDone(s) \/ LogoutDone(s)
         \/ ResolveDone(s) \/ PauseDone(s)
  PROVE  BusyHasCommand'
<1>0. view \in ViewSide
  BY DEF TypeInv, ViewOK
<1>1. CASE CheckAuthDone(s)
  <2>1. \/ screen' = "browse" /\ view' = NewView
        \/ screen' = "onboarding"
        \/ screen' = "login" /\ form' = NewForm
    BY <1>1 DEF CheckAuthDone, ToLogin
  <2> QED BY <2>1, NewViewType, NewFormType DEF BusyHasCommand
<1>2. CASE LogoutDone(s)
  BY <1>2, NewFormType DEF LogoutDone, ToLogin, BusyHasCommand
<1>3. CASE LoginDone(s)
  <2>1. screen = "login" => ~form'.loading
    BY <1>3 DEF LoginDone
  <2>2. calls[s].kind \in {"login", "code"} /\ \A u \in Slots \ {s} : calls'[u] = calls[u]
    <3>1. Ask("load", None) \in CallSide
      BY KindsAre, ArgsHold, AskType
    <3> QED BY <1>3, <3>1, NoCallType, Followed DEF LoginDone, Answered, TypeInv
  <2>3. UNCHANGED <<screen, view>>
    BY <1>3 DEF LoginDone
  <2>4. screen = "browse" /\ view.loading => Running({"list"})'
    BY <2>2, GoesOn DEF BusyHasCommand
  <2>5. screen = "browse" /\ view.deleting => Running({"delete"})'
    BY <2>2, GoesOn DEF BusyHasCommand
  <2>6. screen = "browse" /\ view.uploading => Running({"upload"})'
    BY <2>2, GoesOn DEF BusyHasCommand
  <2> QED BY <2>1, <2>3, <2>4, <2>5, <2>6 DEF BusyHasCommand
<1>4. CASE ResolveDone(s) \/ PauseDone(s)
  <2>1. /\ calls[s].kind \in {"resolve", "pause", "resume"}
        /\ \A u \in Slots \ {s} : calls'[u] = calls[u]
    <3>1. Ask("conflicts", None) \in CallSide /\ Ask("status", None) \in CallSide
      BY KindsAre, ArgsHold, AskType
    <3> QED BY <1>4, <3>1, NoCallType, Followed DEF ResolveDone, PauseDone, Answered, TypeInv
  <2>2. /\ UNCHANGED <<screen, form>> /\ view'.loading = view.loading
        /\ view'.deleting = view.deleting /\ view'.uploading = view.uploading
    <3>1. CASE ResolveDone(s)
      BY <3>1 DEF ResolveDone, app
    <3>2. CASE PauseDone(s)
      <4> DEFINE paused == calls[s].kind = "pause"
      <4>1. view' = [view EXCEPT !.paused = paused] \/ view' = view
        BY <3>2 DEF PauseDone
      <4> HIDE DEF paused
      <4>2. UNCHANGED <<screen, form>>
        BY <3>2 DEF PauseDone
      <4> QED BY <1>0, <4>1, <4>2 DEF ViewSide
    <3> QED BY <1>4, <3>1, <3>2
  <2>3. screen = "login" /\ form.loading => Running({"login", "code"})'
    BY <2>1, GoesOn DEF BusyHasCommand
  <2>4. screen = "browse" /\ view.loading => Running({"list"})'
    BY <2>1, GoesOn DEF BusyHasCommand
  <2>5. screen = "browse" /\ view.deleting => Running({"delete"})'
    BY <2>1, GoesOn DEF BusyHasCommand
  <2>6. screen = "browse" /\ view.uploading => Running({"upload"})'
    BY <2>1, GoesOn DEF BusyHasCommand
  <2> QED BY <2>2, <2>3, <2>4, <2>5, <2>6 DEF BusyHasCommand
<1> QED BY <1>1, <1>2, <1>3, <1>4

\* A step that ends no command, and says it is busy only with one that runs.
LEMMA StillBusy ==
  ASSUME BusyHasCommand, screen' = screen,
         \A u \in Slots : calls[u].kind = "none" \/ calls'[u].kind = calls[u].kind,
         form'.loading => form.loading \/ Running({"login", "code"})',
         view'.loading => view.loading \/ Running({"list"})',
         view'.deleting => view.deleting \/ Running({"delete"})',
         view'.uploading => view.uploading \/ Running({"upload"})'
  PROVE  BusyHasCommand'
<1>1. screen = "login" /\ form'.loading => Running({"login", "code"})'
  BY GoesOn DEF BusyHasCommand
<1>2. screen = "browse" /\ view'.loading => Running({"list"})'
  BY GoesOn DEF BusyHasCommand
<1>3. screen = "browse" /\ view'.deleting => Running({"delete"})'
  BY GoesOn DEF BusyHasCommand
<1>4. screen = "browse" /\ view'.uploading => Running({"upload"})'
  BY GoesOn DEF BusyHasCommand
<1> QED BY <1>1, <1>2, <1>3, <1>4 DEF BusyHasCommand

LEMMA ClickingBusy ==
  ASSUME TypeInv, BusyHasCommand,
         \/ OnboardingDone \/ NewFolderPressed \/ Cancelled
         \/ \E l \in Links : RenamePressed(l) \/ DeletePressed(l)
  PROVE  BusyHasCommand'
<1>1. CASE OnboardingDone
  BY <1>1, NewFormType DEF OnboardingDone, ToLogin, BusyHasCommand
<1>2. CASE NewFolderPressed \/ Cancelled \/ \E l \in Links : RenamePressed(l) \/ DeletePressed(l)
  <2>1. UNCHANGED <<screen, form, calls>>
    BY <1>2 DEF NewFolderPressed, Cancelled, RenamePressed, DeletePressed, Click
  <2>2. /\ view'.loading = view.loading /\ view'.deleting = view.deleting
        /\ view'.uploading = view.uploading
    BY <1>2 DEF NewFolderPressed, Cancelled, RenamePressed, DeletePressed,
       TypeInv, ViewOK, ViewSide
  <2> QED BY <2>1, <2>2, StillBusy
<1> QED BY <1>1, <1>2

LEMMA PressingBusy ==
  ASSUME TypeInv, BusyHasCommand,
         \/ LoginPressed \/ LogoutPressed \/ DecryptPressed \/ NewFolderConfirmed
         \/ RenameConfirmed \/ DeleteConfirmed \/ UploadPressed \/ PausePressed
         \/ \E l \in Links : FolderClicked(l)
         \/ \E p \in Paths : ResolveConflict(p)
  PROVE  BusyHasCommand'
<1> USE KindsAre, ArgsHold
<1>0. view \in ViewSide /\ form \in FormSide /\ CallsOK
  BY DEF TypeInv, ViewOK, FormOK
<1>1. view.folder \in Args /\ view.renaming \in Args /\ view.confirm \in Args
  BY <1>0 DEF ViewSide
<1> DEFINE Pressed1(kind) ==
      /\ Running({kind})'
      /\ \A u \in Slots : calls[u].kind = "none" \/ calls'[u].kind = calls[u].kind
<1>2. CASE LoginPressed
  <2>1. Pressed1("code") \/ Pressed1("login")
    BY <1>0, <1>2, Pressed DEF LoginPressed
  <2>2. Running({"login", "code"})'
    BY <2>1 DEF Running
  <2>3. UNCHANGED <<screen, view>>
    BY <1>2 DEF LoginPressed
  <2> QED BY <2>1, <2>2, <2>3, StillBusy
<1>3. CASE LogoutPressed \/ DecryptPressed \/ PausePressed \/ \E p \in Paths : ResolveConflict(p)
  <2>1. UNCHANGED <<screen, form, view>>
    BY <1>3 DEF LogoutPressed, DecryptPressed, PausePressed, ResolveConflict, app
  <2>2. \E kind \in Kinds \ {"list"} : \E arg \in Args : Press("browse", kind, arg)
    BY <1>3 DEF LogoutPressed, DecryptPressed, PausePressed, ResolveConflict
  <2>3. \E kind \in Kinds : Pressed1(kind)
    BY <1>0, <2>2, Pressed
  <2> QED BY <2>1, <2>3, StillBusy
<1>4. CASE NewFolderConfirmed
  <2>1. UNCHANGED <<screen, form>>
    BY <1>4 DEF NewFolderConfirmed
  <2>2. /\ view'.loading = view.loading /\ view'.deleting = view.deleting
        /\ view'.uploading = view.uploading
    BY <1>0, <1>4 DEF NewFolderConfirmed, ViewSide
  <2>3. calls' = calls \/ Pressed1("create")
    BY <1>0, <1>1, <1>4, Pressed DEF NewFolderConfirmed, Click
  <2> QED BY <2>1, <2>2, <2>3, StillBusy
<1>5. CASE RenameConfirmed
  <2>1. /\ view'.loading = view.loading /\ view'.deleting = view.deleting
        /\ view'.uploading = view.uploading
    BY <1>0, <1>5 DEF RenameConfirmed, ViewSide
  <2>2. Pressed1("rename")
    BY <1>0, <1>1, <1>5, Pressed DEF RenameConfirmed
  <2> QED BY <1>5, <2>1, <2>2, StillBusy DEF RenameConfirmed
<1>6. CASE DeleteConfirmed
  <2>1. view'.loading = view.loading /\ view'.uploading = view.uploading
    BY <1>0, <1>6 DEF DeleteConfirmed, ViewSide
  <2>2. Pressed1("delete")
    BY <1>0, <1>1, <1>6, Pressed DEF DeleteConfirmed
  <2> QED BY <1>6, <2>1, <2>2, StillBusy DEF DeleteConfirmed
<1>7. CASE UploadPressed
  <2>1. view'.loading = view.loading /\ view'.deleting = view.deleting
    BY <1>0, <1>7 DEF UploadPressed, ViewSide
  <2>2. Pressed1("upload")
    BY <1>0, <1>1, <1>7, Pressed DEF UploadPressed
  <2> QED BY <1>7, <2>1, <2>2, StillBusy DEF UploadPressed
<1>8. ASSUME NEW l \in Links, FolderClicked(l)
      PROVE  BusyHasCommand'
  <2>1. view'.uploading = view.uploading /\ view'.deleting = view.deleting
    BY <1>0, <1>8 DEF FolderClicked, ViewSide
  <2>2. Pressed1("list")
    BY <1>0, <1>8, Pressed DEF FolderClicked
  <2> QED BY <1>8, <2>1, <2>2, StillBusy DEF FolderClicked
<1> QED BY <1>2, <1>3, <1>4, <1>5, <1>6, <1>7, <1>8

\* What the application says it is busy with has a command running, in
\* whatever order answers come and on whatever screen they find it.
THEOREM BusyIsTrue == Spec => []BusyHasCommand
<1>1. Init => BusyHasCommand
  BY NewFormType, NewViewType DEF Init, BusyHasCommand
<1>2. TypeInv /\ BusyHasCommand /\ [Next]_vars => BusyHasCommand'
  <2> SUFFICES ASSUME TypeInv, BusyHasCommand, [Next]_vars PROVE BusyHasCommand'
    OBVIOUS
  <2>1. ASSUME NEW s \in Slots, Serving(s) PROVE BusyHasCommand'
    BY <2>1, ServingCalls, StillBusy DEF app
  <2>2. ASSUME NEW s \in Slots, Answering(s) PROVE BusyHasCommand'
    BY <2>2, UpdateBusy, AnswerBusy DEF Answering
  <2>3. CASE Pressing
    BY <2>3, ClickingBusy, PressingBusy DEF Pressing
  <2>4. CASE SyncStatusTick
    BY <2>4, TickStarts, StillBusy DEF app, TypeInv
  <2>5. CASE Other
    BY <2>5, OtherType, StillBusy DEF app
  <2>6. CASE UNCHANGED vars
    BY <2>6, StillBusy DEF vars, app
  <2> QED BY <2>1, <2>2, <2>3, <2>4, <2>5, <2>6 DEF Next
<1> QED BY <1>1, <1>2, TypesHold, PTL DEF Spec

-----------------------------------------------------------------------------
(* Listings *)

LEMMA NextListing ==
  ASSUME TypeInv, FilesNeedKeyring, [Next]_vars
  PROVE  FilesNeedKeyring'
<1>0. view \in ViewSide
  BY DEF TypeInv, ViewOK
<1>1. ASSUME screen' = screen, view' \in ViewSide,
             view'.files = {} \/ (view'.files = view.files /\ (view.kr => view'.kr))
                             \/ view'.kr
      PROVE  FilesNeedKeyring'
  BY <1>1 DEF FilesNeedKeyring
<1>2. ASSUME NEW s \in Slots, Serving(s) PROVE FilesNeedKeyring'
  BY <1>2, ServingCalls DEF app, FilesNeedKeyring
<1>3. ASSUME NEW s \in Slots,
             \/ NamesDone(s) \/ DeleteDone(s) \/ UploadDone(s)
             \/ LoginDone(s) \/ ResolveDone(s)
      PROVE  FilesNeedKeyring'
  BY <1>0, <1>3 DEF NamesDone, DeleteDone, UploadDone, Update, LoginDone, ResolveDone,
     app, FilesNeedKeyring, ViewSide
<1>4. ASSUME NEW s \in Slots, ConflictsFetched(s) \/ SyncStatusUpdated(s) \/ PauseDone(s)
      PROVE  FilesNeedKeyring'
  <2>1. screen' = screen
    BY <1>4 DEF ConflictsFetched, SyncStatusUpdated, PauseDone, Update
  <2>2. \E found, paused, syncing :
          \/ view' = view
          \/ view' = [view EXCEPT !.conflicts = found]
          \/ view' = [view EXCEPT !.paused = paused, !.syncing = syncing]
          \/ view' = [view EXCEPT !.paused = paused]
    BY <1>4, Zenon DEF ConflictsFetched, SyncStatusUpdated, PauseDone, Update
  <2> QED BY <1>0, <2>1, <2>2 DEF FilesNeedKeyring, ViewSide
<1>5. ASSUME NEW s \in Slots, FolderLoaded(s) PROVE FilesNeedKeyring'
  <2> DEFINE new(files) == [view EXCEPT !.loading = FALSE, !.files = files]
  <2>1. screen' = screen
    BY <1>5 DEF FolderLoaded, Update
  <2>2. \/ view' = view
        \/ view' = new(view.files)
        \/ view' = new({})
        \/ view.kr /\ view' = new(calls[s].data)
    BY <1>5 DEF FolderLoaded, Update
  <2> QED BY <1>0, <2>1, <2>2 DEF FilesNeedKeyring, ViewSide
<1>6. ASSUME NEW s \in Slots, KeyringBuilt(s) PROVE FilesNeedKeyring'
  <2> DEFINE kr == view.kr \/ Ok(s)
  <2>1. screen' = screen
    BY <1>6 DEF KeyringBuilt, Update
  <2>2. view' = view \/ view' = [view EXCEPT !.loading = FALSE, !.kr = kr]
    BY <1>6 DEF KeyringBuilt, Update
  <2>3. view.kr => kr
    OBVIOUS
  <2> HIDE DEF kr
  <2> QED BY <1>0, <2>1, <2>2, <2>3 DEF FilesNeedKeyring, ViewSide
<1>7. ASSUME NEW s \in Slots, CheckAuthDone(s) \/ LogoutDone(s) PROVE FilesNeedKeyring'
  BY <1>7, NewViewType DEF CheckAuthDone, LogoutDone, ToLogin, FilesNeedKeyring
<1>8. CASE Pressing
  <2>1. screen' = "login" \/ screen' = screen
    BY <1>8 DEF Pressing, OnboardingDone, LoginPressed, LogoutPressed, DecryptPressed,
       NewFolderPressed, NewFolderConfirmed, RenameConfirmed, DeleteConfirmed, Cancelled,
       UploadPressed, PausePressed, FolderClicked, RenamePressed, DeletePressed,
       ResolveConflict, ToLogin, app
  <2>2. view'.files = view.files /\ view'.kr = view.kr
    <3>1. CASE \/ OnboardingDone \/ LoginPressed \/ LogoutPressed \/ DecryptPressed
               \/ PausePressed \/ \E p \in Paths : ResolveConflict(p)
      BY <3>1 DEF OnboardingDone, LoginPressed, LogoutPressed, DecryptPressed, PausePressed,
         ResolveConflict, app
    <3>2. CASE NewFolderPressed \/ NewFolderConfirmed \/ Cancelled
      BY <1>0, <3>2 DEF NewFolderPressed, NewFolderConfirmed, Cancelled, ViewSide
    <3>3. CASE RenameConfirmed \/ DeleteConfirmed \/ UploadPressed
      BY <1>0, <3>3 DEF RenameConfirmed, DeleteConfirmed, UploadPressed, ViewSide
    <3>4. CASE \E l \in Links : FolderClicked(l) \/ RenamePressed(l) \/ DeletePressed(l)
      BY <1>0, <3>4 DEF FolderClicked, RenamePressed, DeletePressed, ViewSide
    <3> QED BY <1>8, <3>1, <3>2, <3>3, <3>4 DEF Pressing
  <2> QED BY <2>1, <2>2 DEF FilesNeedKeyring
<1>9. CASE SyncStatusTick \/ Other \/ UNCHANGED vars
  BY <1>9 DEF SyncStatusTick, Other, vars, app, FilesNeedKeyring
<1> QED BY <1>2, <1>3, <1>4, <1>5, <1>6, <1>7, <1>8, <1>9 DEF Next, Answering

\* Whichever answer comes when, also after a logout and the next login: where there is
\* no keyring, no listing is shown.  With one, whether it opens the listing is not said.
THEOREM ListingsNeedKeyring == Spec => []FilesNeedKeyring
<1>1. Init => FilesNeedKeyring
  BY DEF Init, FilesNeedKeyring
<1>2. TypeInv /\ FilesNeedKeyring /\ [Next]_vars => FilesNeedKeyring'
  BY NextListing
<1> QED BY <1>1, <1>2, TypesHold, PTL DEF Spec
=============================================================================
