--------------------------------- MODULE GuiApp ---------------------------------
(***************************************************************************)
(* The desktop application (crates/proton-gui/src/main.rs): one step per   *)
(* message of update(), and the commands it leaves running.                *)
(*                                                                         *)
(* A command is asked when its button is pressed, served when the daemon,  *)
(* the keyring or the Drive API acts on it, and answered when update()     *)
(* gets its message.  Commands run side by side, so answers come in any    *)
(* order and find the application on any screen.                           *)
(*                                                                         *)
(* The text of inputs and errors is left out, except whether a new         *)
(* folder's name is empty.  BackPressed has no step: nothing pushes to the *)
(* breadcrumb, whose button needs two entries.                             *)
(***************************************************************************)
EXTENDS Naturals, FiniteSets

CONSTANTS
  Root, Folders,  \* folders of the drive, the root among them
  Files,
  Paths,          \* local paths that may be in conflict
  None,
  MaxCalls,       \* bound: commands running at a time
  MaxPresses,     \* bound: buttons the user presses
  MaxOthers       \* bound: changes made by other clients and the daemon itself

ASSUME TreeAssumption ==
  Root \in Folders /\ Folders \cap Files = {} /\ None \notin Folders \cup Files
ASSUME BoundsAssumption ==
  /\ MaxCalls \in Nat \ {0}
  /\ {MaxPresses, MaxOthers} \subseteq Nat

VARIABLES
  screen,   \* State
  form,     \* LoginData
  view,     \* BrowseData
  calls,    \* the commands running, by slot
  daemon,   \* what the daemon would say
  ring,     \* the keyring has a session
  inside,   \* inside[f]: the links in a folder
  presses, others,
  settled   \* history: conflicts this GUI was told are resolved

app == <<screen, form, view>>
world == <<daemon, ring, inside>>
vars == <<app, calls, world, presses, others, settled>>

-----------------------------------------------------------------------------
Links == (Folders \ {Root}) \cup Files
Slots == 1..MaxCalls
Screens == {"loading", "onboarding", "login", "browse"}
Kinds == {"check", "load", "login", "code", "logout", "keyring", "list",
          "conflicts", "resolve", "status", "pause", "resume",
          "create", "rename", "delete", "upload"}

NewForm == [code |-> FALSE, loading |-> FALSE]
NewView == [kr |-> FALSE, folder |-> None, files |-> {}, conflicts |-> {},
            loading |-> FALSE, creating |-> FALSE, renaming |-> None,
            confirm |-> None, deleting |-> FALSE, uploading |-> FALSE,
            paused |-> FALSE, syncing |-> FALSE]

NoCall == [kind |-> "none", arg |-> None, state |-> "free", data |-> {}]
Ask(kind, arg) == [kind |-> kind, arg |-> arg, state |-> "asked", data |-> {}]
Running(kinds) == \E s \in Slots : calls[s].kind \in kinds
Quiet == ~Running(Kinds)

Answered(s, kinds) ==
  calls[s].kind \in kinds /\ calls[s].state \notin {"free", "asked"}
Ok(s) == calls[s].state = "ok"

\* The slot of an answer is free for the command it leads to.
Then(s, call) == calls' = [calls EXCEPT ![s] = call]

\* Bound: the daemon starts idle and not paused; Other can change both first.
Init ==
  /\ screen = "loading"
  /\ form = NewForm
  /\ view = NewView
  /\ calls = [s \in Slots |-> IF s = 1 THEN Ask("check", None) ELSE NoCall]
  /\ ring \in BOOLEAN
  /\ daemon \in [session : {ring}, pending : {FALSE}, paused : {FALSE},
                 syncing : {FALSE}, conflicts : SUBSET Paths]
  /\ inside = [f \in Folders |-> IF f = Root THEN Links ELSE {}]
  /\ presses = 0 /\ others = 0
  /\ settled = {}

-----------------------------------------------------------------------------
(* What a command finds and does *)

Serve(s, state, data) ==
  /\ calls[s].state = "asked"
  /\ calls' = [calls EXCEPT ![s].state = state, ![s].data = data]
  /\ UNCHANGED <<app, presses, others>>

Fail(s) ==
  /\ calls[s].kind # "logout"
  /\ Serve(s, "failed", {})
  /\ UNCHANGED <<world, settled>>

Flags == {f \in {"paused", "syncing"} : daemon[f]}

\* Requests that change nothing: auth.status and the keyring, the listing of
\* a folder, drive.conflicts, drive.status, build_keyring, auth.login's first
\* answer to a wrong password.
Read(s) ==
  LET c == calls[s]
  IN  /\ \/ c.kind = "check"
            /\ Serve(s, "ok", IF daemon.session /\ ring THEN {"session"} ELSE {})
         \/ c.kind = "load" /\ ring /\ Serve(s, "ok", {"session"})
         \/ c.kind = "load" /\ ~ring /\ Serve(s, "failed", {})
         \/ c.kind = "keyring" /\ Serve(s, "ok", {})
         \/ c.kind = "list" /\ Serve(s, "ok", inside[c.arg])
         \/ c.kind = "conflicts" /\ Serve(s, "ok", daemon.conflicts)
         \/ c.kind = "status" /\ Serve(s, "ok", Flags)
      /\ UNCHANGED <<world, settled>>

LoggedIn(s) ==
  /\ daemon' = [daemon EXCEPT !.session = TRUE, !.pending = FALSE]
  /\ ring' = TRUE
  /\ Serve(s, "ok", {})

LogIn(s) ==
  /\ calls[s].kind = "login"
  /\ \/ LoggedIn(s)
     \/ Serve(s, "2fa", {}) /\ daemon' = [daemon EXCEPT !.pending = TRUE] /\ UNCHANGED ring
  /\ UNCHANGED <<inside, settled>>

\* The pending login is gone whether or not the code is right.
SendCode(s) ==
  /\ calls[s].kind = "code"
  /\ \/ daemon.pending /\ LoggedIn(s)
     \/ Serve(s, "failed", {}) /\ daemon' = [daemon EXCEPT !.pending = FALSE] /\ UNCHANGED ring
  /\ UNCHANGED <<inside, settled>>

\* The daemon's answer is not looked at; the keyring is cleared in any case.
LogOut(s) ==
  /\ calls[s].kind = "logout"
  /\ \/ daemon' = [daemon EXCEPT !.session = FALSE]
     \/ UNCHANGED daemon
  /\ ring' = FALSE
  /\ Serve(s, "ok", {})
  /\ UNCHANGED <<inside, settled>>

Resolve(s) ==
  LET p == calls[s].arg
  IN  /\ calls[s].kind = "resolve"
      /\ IF p \in daemon.conflicts
         THEN /\ Serve(s, "ok", {})
              /\ daemon' = [daemon EXCEPT !.conflicts = @ \ {p}]
         ELSE Serve(s, "failed", {}) /\ UNCHANGED daemon
      /\ UNCHANGED <<ring, inside, settled>>

SetPause(s) ==
  /\ calls[s].kind \in {"pause", "resume"}
  /\ daemon' = [daemon EXCEPT !.paused = (calls[s].kind = "pause")]
  /\ Serve(s, "ok", {})
  /\ UNCHANGED <<ring, inside, settled>>

\* Folders that are created and files that are uploaded get no link here:
\* the listing they lead to shows enough.  Without a parent both fail.
ChangeDrive(s) ==
  LET c == calls[s]
  IN  /\ c.kind \in {"create", "rename", "delete", "upload"}
      /\ Serve(s, IF c.arg = None THEN "failed" ELSE "ok", {})
      /\ inside' = [f \in Folders |->
           IF c.kind = "delete" THEN inside[f] \ {c.arg} ELSE inside[f]]
      /\ UNCHANGED <<daemon, ring, settled>>

\* A pass begins, ends or finds a conflict; another client pauses, resumes.
Other ==
  /\ others < MaxOthers /\ others' = others + 1
  /\ \/ \E f \in {"paused", "syncing"} :
          daemon' = [daemon EXCEPT ![f] = ~@] /\ UNCHANGED settled
     \/ \E p \in Paths \ daemon.conflicts :
          /\ daemon' = [daemon EXCEPT !.conflicts = @ \cup {p}]
          /\ settled' = settled \ {p}
  /\ UNCHANGED <<app, calls, ring, inside, presses>>

-----------------------------------------------------------------------------
(* Messages: the start and the login *)

ToLogin == screen' = "login" /\ form' = NewForm

CheckAuthDone(s) ==
  /\ Answered(s, {"check", "load"})
  /\ IF Ok(s) /\ calls[s].data # {}
     THEN /\ screen' = "browse" /\ view' = NewView
          /\ Then(s, Ask("conflicts", None))
          /\ UNCHANGED form
     ELSE /\ Then(s, NoCall)
          /\ IF Ok(s) THEN screen' = "onboarding" /\ UNCHANGED form ELSE ToLogin
          /\ UNCHANGED view
  /\ UNCHANGED <<world, presses, others, settled>>

\* A button is pressed, on the screen that shows it.
Press(where, kind, arg) ==
  /\ screen = where
  /\ presses < MaxPresses /\ presses' = presses + 1
  /\ \E s \in Slots :
       /\ calls[s] = NoCall /\ \A h \in 1..(s - 1) : calls[h] # NoCall
       /\ calls' = [calls EXCEPT ![s] = Ask(kind, arg)]
  /\ UNCHANGED <<world, others, settled>>

\* One that starts no command.
Click(where) ==
  /\ screen = where
  /\ presses < MaxPresses /\ presses' = presses + 1
  /\ UNCHANGED <<calls, world, others, settled>>

OnboardingDone == Click("onboarding") /\ ToLogin /\ UNCHANGED view

LoginPressed ==
  /\ ~form.loading
  /\ Press("login", IF form.code THEN "code" ELSE "login", None)
  /\ form' = [form EXCEPT !.loading = TRUE]
  /\ UNCHANGED <<screen, view>>

\* LoginDone and TwoFADone: a wrong code leads back to the password.
LoginDone(s) ==
  /\ Answered(s, {"login", "code"})
  /\ IF screen = "login"
     THEN /\ form' = [loading |-> FALSE,
                      code |-> IF calls[s].kind = "code" THEN FALSE
                               ELSE form.code \/ calls[s].state = "2fa"]
          /\ Then(s, IF Ok(s) THEN Ask("load", None) ELSE NoCall)
     ELSE Then(s, NoCall) /\ UNCHANGED form
  /\ UNCHANGED <<screen, view, world, presses, others, settled>>

LogoutPressed == Press("browse", "logout", None) /\ UNCHANGED app

LogoutDone(s) ==
  /\ Answered(s, {"logout"})
  /\ Then(s, NoCall)
  /\ ToLogin
  /\ UNCHANGED <<view, world, presses, others, settled>>

-----------------------------------------------------------------------------
(* Messages: folders *)

\* What an answer does to the view; on another screen it is dropped, and
\* leads to no command.
Update(s, kinds, new, call) ==
  /\ Answered(s, kinds)
  /\ IF screen = "browse" THEN view' = new /\ Then(s, call)
                          ELSE UNCHANGED view /\ Then(s, NoCall)
  /\ UNCHANGED <<screen, form, world, presses, others>>

DecryptPressed == ~view.kr /\ Press("browse", "keyring", None) /\ UNCHANGED app

KeyringBuilt(s) ==
  /\ Update(s, {"keyring"},
            [view EXCEPT !.loading = FALSE, !.kr = view.kr \/ Ok(s)],
            IF Ok(s) THEN Ask("list", Root) ELSE NoCall)
  /\ UNCHANGED settled

FolderClicked(f) ==
  /\ f \in view.files \cap Folders
  /\ Press("browse", "list", f)
  /\ view' = [view EXCEPT !.loading = TRUE, !.folder = f]
  /\ UNCHANGED <<screen, form>>

\* (mistake: a listing is shown with the names it has)
FolderLoaded_Encrypted(s) ==
  /\ Update(s, {"list"},
            [view EXCEPT !.loading = FALSE,
                         !.files = IF Ok(s) THEN calls[s].data ELSE @], NoCall)
  /\ UNCHANGED settled

\* The answer does not say which folder it lists.
FolderLoaded(s) ==
  /\ Update(s, {"list"},
            [view EXCEPT !.loading = FALSE,
                         !.files = IF ~Ok(s) THEN @
                                   ELSE IF view.kr THEN calls[s].data ELSE {}],
            NoCall)
  /\ UNCHANGED settled

\* "Re-fetch current folder.": at the root there is none.
Refetch(s) ==
  IF Ok(s) /\ view.kr /\ view.folder # None THEN Ask("list", view.folder) ELSE NoCall

NewFolderPressed ==
  /\ view.kr /\ ~view.creating
  /\ Click("browse")
  /\ view' = [view EXCEPT !.creating = TRUE]
  /\ UNCHANGED <<screen, form>>

\* An empty name, or no current folder, leaves the input open.
NewFolderConfirmed ==
  /\ view.creating
  /\ IF view.folder = None THEN Click("browse") /\ UNCHANGED view
     ELSE /\ Press("browse", "create", view.folder)
          /\ view' = [view EXCEPT !.creating = FALSE]
  /\ UNCHANGED <<screen, form>>

RenamePressed(l) ==
  /\ l \in view.files
  /\ Click("browse")
  /\ view' = [view EXCEPT !.renaming = l]
  /\ UNCHANGED <<screen, form>>

RenameConfirmed ==
  /\ view.renaming # None
  /\ Press("browse", "rename", view.renaming)
  /\ view' = [view EXCEPT !.renaming = None]
  /\ UNCHANGED <<screen, form>>

DeletePressed(l) ==
  /\ l \in view.files
  /\ Click("browse")
  /\ view' = [view EXCEPT !.confirm = l]
  /\ UNCHANGED <<screen, form>>

DeleteConfirmed ==
  /\ view.confirm # None
  /\ Press("browse", "delete", view.confirm)
  /\ view' = [view EXCEPT !.confirm = None, !.deleting = TRUE]
  /\ UNCHANGED <<screen, form>>

\* NewFolderCancelled, RenameCancelled, DeleteCancelled.
Cancelled ==
  /\ Click("browse")
  /\ \/ view.creating /\ view' = [view EXCEPT !.creating = FALSE]
     \/ view.renaming # None /\ view' = [view EXCEPT !.renaming = None]
     \/ view.confirm # None /\ view' = [view EXCEPT !.confirm = None]
  /\ UNCHANGED <<screen, form>>

UploadPressed ==
  /\ view.kr /\ ~view.uploading
  /\ Press("browse", "upload", view.folder)
  /\ view' = [view EXCEPT !.uploading = TRUE]
  /\ UNCHANGED <<screen, form>>

\* NewFolderDone and RenameDone.
NamesDone(s) ==
  Update(s, {"create", "rename"}, view, Refetch(s)) /\ UNCHANGED settled

DeleteDone(s) ==
  /\ Update(s, {"delete"}, [view EXCEPT !.deleting = FALSE], Refetch(s))
  /\ UNCHANGED settled

\* (mistake: an error is shown, and nothing else is done)
UploadDone_Kept(s) ==
  /\ Update(s, {"upload"}, [view EXCEPT !.uploading = @ /\ ~Ok(s)], Refetch(s))
  /\ UNCHANGED settled

UploadDone(s) ==
  /\ Update(s, {"upload"}, [view EXCEPT !.uploading = FALSE], Refetch(s))
  /\ UNCHANGED settled

-----------------------------------------------------------------------------
(* Messages: conflicts, status, pause *)

ConflictsFetched(s) ==
  /\ Update(s, {"conflicts"},
            [view EXCEPT !.conflicts = IF Ok(s) THEN calls[s].data ELSE @], NoCall)
  /\ UNCHANGED settled

ResolveConflict(p) ==
  p \in view.conflicts /\ Press("browse", "resolve", p) /\ UNCHANGED app

\* The command's result is the text of its error, empty if there is none.
\* Looked at on every screen.
ResolveDone(s) ==
  /\ Answered(s, {"resolve"})
  /\ Then(s, IF Ok(s) THEN NoCall ELSE Ask("conflicts", None))
  /\ settled' = IF Ok(s) /\ calls[s].arg \notin daemon.conflicts
                THEN settled \cup {calls[s].arg} ELSE settled
  /\ UNCHANGED <<app, world, presses, others>>

\* Every five seconds; here, with one status request at a time.
SyncStatusTick ==
  /\ screen = "browse"
  /\ ~Running({"status"})
  /\ \E s \in Slots :
       /\ calls[s] = NoCall /\ \A h \in 1..(s - 1) : calls[h] # NoCall
       /\ calls' = [calls EXCEPT ![s] = Ask("status", None)]
  /\ UNCHANGED <<app, world, presses, others, settled>>

\* (mistake: the view's own pause, set by its button, is kept)
SyncStatusUpdated_State(s) ==
  /\ Update(s, {"status"},
            [view EXCEPT !.syncing = "syncing" \in calls[s].data], NoCall)
  /\ UNCHANGED settled

\* (mistake: no default for an answer without the flags)
SyncStatusUpdated_Bare(s) ==
  /\ Update(s, {"status"},
            [view EXCEPT !.paused = IF Ok(s) THEN "paused" \in calls[s].data ELSE None,
                         !.syncing = "syncing" \in calls[s].data], NoCall)
  /\ UNCHANGED settled

\* A request that failed counts as a daemon that is not paused.
SyncStatusUpdated(s) ==
  /\ Update(s, {"status"},
            [view EXCEPT !.paused = "paused" \in calls[s].data,
                         !.syncing = "syncing" \in calls[s].data], NoCall)
  /\ UNCHANGED settled

PausePressed ==
  /\ Press("browse", IF view.paused THEN "resume" ELSE "pause", None)
  /\ UNCHANGED app

\* PauseDone and ResumeDone; the status is asked for on every screen.
PauseDone(s) ==
  /\ Answered(s, {"pause", "resume"})
  /\ view' = IF screen = "browse" /\ Ok(s)
             THEN [view EXCEPT !.paused = (calls[s].kind = "pause")] ELSE view
  /\ Then(s, Ask("status", None))
  /\ UNCHANGED <<screen, form, world, presses, others, settled>>

-----------------------------------------------------------------------------
Serving(s) ==
  \/ Fail(s) \/ Read(s) \/ LogIn(s) \/ SendCode(s) \/ LogOut(s)
  \/ Resolve(s) \/ SetPause(s) \/ ChangeDrive(s)

Answering(s) ==
  \/ CheckAuthDone(s) \/ LoginDone(s) \/ LogoutDone(s) \/ KeyringBuilt(s)
  \/ FolderLoaded(s) \/ NamesDone(s) \/ DeleteDone(s) \/ UploadDone(s)
  \/ ConflictsFetched(s) \/ ResolveDone(s) \/ SyncStatusUpdated(s) \/ PauseDone(s)

Pressing ==
  \/ OnboardingDone \/ LoginPressed \/ LogoutPressed \/ DecryptPressed
  \/ NewFolderPressed \/ NewFolderConfirmed \/ RenameConfirmed
  \/ DeleteConfirmed \/ Cancelled \/ UploadPressed \/ PausePressed
  \/ \E l \in Links : FolderClicked(l) \/ RenamePressed(l) \/ DeletePressed(l)
  \/ \E p \in Paths : ResolveConflict(p)

Next ==
  \/ \E s \in Slots : Serving(s) \/ Answering(s)
  \/ Pressing
  \/ SyncStatusTick
  \/ Other

Spec == Init /\ [][Next]_vars

\* The application takes its messages, and its timer ticks.  Nobody has to press
\* anything; and no request has a timeout, over IPC or to the Drive API, so no
\* command has to be served.
Fairness ==
  /\ \A s \in Slots : WF_vars(Answering(s))
  /\ WF_vars(SyncStatusTick)

FairSpec == Spec /\ Fairness

-----------------------------------------------------------------------------
(* Properties *)

\* Types of the application's state and its commands.
TypeOK ==
  /\ screen \in Screens
  /\ form \in [code : BOOLEAN, loading : BOOLEAN]
  /\ view \in [kr : BOOLEAN, folder : Folders \cup {None}, files : SUBSET Links,
               conflicts : SUBSET Paths, loading : BOOLEAN, creating : BOOLEAN,
               renaming : Links \cup {None}, confirm : Links \cup {None},
               deleting : BOOLEAN, uploading : BOOLEAN, paused : BOOLEAN,
               syncing : BOOLEAN]
  /\ \A s \in Slots : /\ calls[s].kind \in Kinds \cup {"none"}
                      /\ calls[s].state \in {"free", "asked", "ok", "failed", "2fa"}
  /\ inside \in [Folders -> SUBSET Links]

\* What the application says it is busy with, it is: each "please wait",
\* "loading", "deleting" and "uploading" has a command whose answer will take
\* it away, also after a logout, an error, or an answer meant for an earlier
\* screen (main.rs:323-380, 400-489, 750-831).
BusyHasCommand ==
  /\ screen = "login" /\ form.loading => Running({"login", "code"})
  /\ screen = "browse" /\ view.loading => Running({"list"})
  /\ screen = "browse" /\ view.deleting => Running({"delete"})
  /\ screen = "browse" /\ view.uploading => Running({"upload"})

\* Without a keyring no listing is shown, whichever answer comes when: one that was
\* asked for before a logout and is answered in the next session, before its keyring
\* is built, is shown empty.  This is all: with a keyring, the application does not
\* ask whether it opens what it shows (main.rs:232-264, 400-419, 452-489).
FilesNeedKeyring == screen = "browse" /\ view.files # {} => view.kr

\* However late the answers and whoever paused or resumed, the button in the end
\* offers what the daemon would do, where no command is left unserved, say for the
\* api lock that drive.delete holds, and status requests cease to fail: one that
\* fails shows the daemon as not paused (main.rs:528-536, 601-622, 1232-1281;
\* handler.rs:414, 1202-1208).
PauseShownInTheEnd ==
  /\ <>[](screen = "browse")
  /\ \A s \in Slots : []<>(calls[s].state # "asked")
  /\ <>[][\A s \in Slots : calls[s].kind = "status" => ~Fail(s)]_vars
  => <>[](view.paused = daemon.paused)

-----------------------------------------------------------------------------
(* What a comment says and the code does not do *)

\* main.rs:517, "Re-fetch conflicts.": once the application was told that a
\* conflict is resolved, and has nothing more to wait for, it does not go on
\* showing it.
ResolvedConflictsLeave ==
  screen = "browse" /\ Quiet => view.conflicts \cap settled = {}
=============================================================================
