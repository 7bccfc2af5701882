# A TLA+ model of the Proton Drive client

The repository is a Linux client for Proton Drive: a library (`proton-core`),
a daemon (`protond`), a CLI and a GUI.  This directory models the part of it
that decides what happens to a user's files, checks the model with TLC and
proves the most important facts about it with TLAPS.  `PROJECT.json` maps each
definition to the lines it stands for, and lists runs, mutants, findings,
hazards and theorems.

`path:line` below is relative to the repository's `crates/`; `sync` is
`proton-core/src/sync/mod.rs`, `drive` is `proton-core/src/drive/mod.rs`,
`transfer` is `proton-core/src/transfer.rs`, `handler` is
`protond/src/handler.rs`, `gui` is `proton-gui/src/main.rs`.

## 1. Inventory

| Component | State | Operations | Depends on |
|---|---|---|---|
| Sync engine, `sync` | one pass: keyring, entries, `remote_by_path`, report | `sync`, `download_file`, `ensure_remote_folders`, `upload_new_files`, `upload_file` | all of the below |
| State database, `proton-core/src/db` | tables `nodes`, `jobs`, `sync_meta` behind one mutex | `upsert_node`, `get_node*`, `list_nodes`, `delete_node`, `enqueue_job`, `dequeue_job`, `complete_job`, `fail_job`, `set_meta`, `get_meta` | SQLite |
| Remote tree, `drive`, `drive/keyring.rs` | keyring (id to unlocked key) | `build_keyring`, `list_children` (paged), `walk_decrypted`, `walk_all` | API client |
| Local scanner, `proton-core/src/local` | none | `walk_all` | disk |
| Handler, `handler` | API client, pending login, cached password, sync state, last report, transfer manager, limiter | 17 IPC requests, `trigger_sync`, `refresh_token` | engine, database, auth |
| Daemon, `protond/src/main.rs`, `watcher.rs` | instance lock, socket, channel of triggers | start, sync loop, refresh loop, accept loop, shutdown, debounced events | handler |
| Authentication, `auth`, `keyring.rs`, `api/client.rs` | session in memory and in the OS keyring | login, 2FA, refresh, logout, retry after a refresh | server |
| Transfer schedule, `transfer.rs`, `throttle.rs` | windows, pause flag, token bucket | `is_in_window_at`, `minutes_until_next_window`, `check_transfer`, `acquire` | clock |
| IPC, `proton-core/src/ipc` | none | lines of JSON of bounded length, peer's uid | socket |
| Cryptography, SRP | none | primitives | - |
| GUI, `gui`, `tray.rs` | screen, login form, browse view, commands under way | the messages of `update()`, start of the daemon | IPC, keyring, API |
| CLI, translations | none | one request per command | IPC |

How they interact:

- The background loop runs `trigger_sync` on a timer and on every debounced
  file event, one at a time.  `drive.sync` runs the same engine from the task
  of its connection.  Nothing keeps the two, or two connections, apart: each
  builds an engine of its own over the shared database, the same local tree
  and the same account.
- An engine reads the remote tree, then the database and the disk file by
  file, then walks the disk and sends what the database does not know to be in
  sync.  Each request, each read of a file and each call of the database is a
  point where the user, another device, another pass or a crash can step in.
- A row of `nodes` is all that one pass hands to the next.  Its state says
  `pending`, `synced` or `conflict`; `drive.resolve` takes a path out of
  `conflict`.
- The handler's memory (session, password, pause flag) is changed by requests
  and by the two loops, with an `await` between reading and writing.
- The pause flag and the schedule are kept twice, in `sync_meta` and in the
  transfer manager.  A request writes one after the other, a start reads the
  first into the second, and the check before a pass or an upload looks at
  the second only.
- A GUI that finds no daemon removes the socket file and starts one; a daemon
  that starts removes the socket file too, but holds the instance lock.
- The GUI's commands run side by side; their answers reach `update()` in any
  order, whatever screen is up by then.

What is hard to get right, and the property that makes each part correct:

| Part | Hard because of | Correct when |
|---|---|---|
| File pass | edits between the stat, the read and the row; lost answers; crashes; two passes at once | no edit is ever taken for one already sent; a conflict stays one until it is resolved; a row vouches for a whole revision |
| Resolution | a row read, a session awaited, the row written; three steps of `rename_local` | both versions survive |
| Remote walk | many requests over a tree that changes; folders found twice, or in a cycle | exact if nothing moves; ends; paths follow parents |
| Folder creation | new folders have no unlocked key; paths lack their first name; the tree changes under the pass | a name gets nowhere it was not asked for; a directory whose parent takes it becomes a folder |
| Session | refresh against logout and login; two copies of one refresh token | nothing is saved after a logout; memory agrees with the keyring |
| Pause and windows | two copies of each, written in two steps; midnight, week's end | both copies agree; no pass starts while paused; the announced wait is long enough |
| Daemon | one instance; dropped events; loops on shutdown; a full channel | one loop and one socket; a change on disk is seen in the end |
| GUI | answers in any order, on another screen, in another session | what it says it is busy with, it is; what it shows, the daemon would say |

The hazards, each with its line, are in `PROJECT.json`; those no property
covers say why.

## 2. Modules

| Module | What it is |
|---|---|
| `StateDb` | the `nodes` table: rows, the upsert, the lookups |
| `SyncEngine` | the pass of `sync()` over files, the resolution of conflicts, the user, other devices, crashes |
| `MCSyncEngine` | its instance for TLC: `Conflicted` as one constant path, symmetry |
| `SyncEngineProofs` | its types, its five safety properties and the bound on its passes proved |
| `DriveWalk` | the walk of the remote tree, and the local paths made of what it returns |
| `MCDriveWalk` | its instance for TLC: children listed by their ids |
| `DriveWalkProofs` | its types, `SnapshotWhenQuiet` and `PathsFollowParentsUnlessCyclic` proved |
| `AuthSession` | the copies of a login session: handler, keyring, pending login, every client |
| `MCAuthSession` | its instance for TLC: symmetry |
| `AuthSessionProofs` | its types and its three safety properties proved |
| `FolderSync` | directories made of folders and folders of directories, `drive.create_folder`, `drive.rename` |
| `MCFolderSync` | its instance for TLC: the tree at the start, the paths |
| `FolderSyncProofs` | its types and `EveryNameAsked` proved |
| `TransferSchedule` | the windows, and the announced wait, as operators on a week |
| `Setting` | abstract: what a client may expect of a setting of the daemon |
| `TransferGate` | pause and schedule in database and memory, and the check before a transfer; implements `Setting` twice |
| `MCTransferGate` | its instance for TLC: a short week, its schedules, symmetry |
| `TransferGateProofs` | its types, its safety properties and the refinement of `Setting` proved |
| `DaemonLife` | the daemon's processes, lock, socket, watcher and loop; a GUI that starts one |
| `MCDaemonLife` | its instance for TLC |
| `DaemonLifeProofs` | its types and its two safety properties proved |
| `GuiApp` | the GUI's `update()` and the commands it leaves running |
| `MCGuiApp` | its instance for TLC |
| `GuiAppProofs` | its types and its two safety properties proved |
| `LeastNatural` | lemmas: least numbers, remainders; a loop over finitely many rounds, a sort by counting |

### StateDb

A call of `StateDb` holds the connection's mutex throughout, so it is an
operator on the table and never more than part of one step.  A row keeps its
link, its state and its *stamp*: size and modification time together, as one
number, since every decision compares both.  `Upsert` keeps the old link when
it is given none (the COALESCE); `RowsOfLink` returns any of several rows with
the same link, because nothing makes `link_id` unique.

### SyncEngine

One engine's pass runs through `pc[e]`:

| `pc` | Code |
|---|---|
| `files` | the loop over the snapshot's files, `sync:237-327` |
| `compare`, `mark` | the row is read, the file to be compared; compared, the row to be written |
| `walk` | `LocalClient::walk_all`, one stat per step |
| `uploads` | the loop of `upload_new_files` |
| `read`, `send`, `record` | file to be read; revision to be completed; row to be written |
| `stalled` | awaiting a request that is never answered; only a crash ends it |

`seen` is what the walk found and the upload loop has yet to visit, so a
file's stamp is that of the walk however late its turn comes.  `uploaded` and
the field `own` of a link are history: what this device completed, and what it
completed last on the link.

A call of the database that fails is never an error of the pass.  A read that
fails passes for "no row" (`CompareRemote`), for "not in conflict" or for "not
synced" (`Reads`), and a write that fails changes nothing (`TryUpsert`).  The
second is why an upload has a field `blind`: it was begun on a path in conflict
because the read that looks for the conflict failed (`ReadAsNew`).

The HTTP client has no timeout (`proton-core/src/api/client.rs:54-57`), so each
request may also stay without an answer (`Stall`, here and in `DriveWalk` and
`FolderSync`).

Choices that a reader should know of:

- The remote tree is read in one step (`StartPass`); that it is not in truth a
  snapshot is the subject of `DriveWalk`.  Several links may share a path, and
  `remote_by_path` then keeps one of them (`ByPathMaps`, `InOrder`).
- Paths are files below a folder whose path and key are known.
- An edit always takes a fresh stamp.  Two edits within one second that keep
  the size are out of the model: the program cannot see them.
- A download always fails: `download_file` asks the keyring for the file's
  own key, which no walk puts there (`FileKeysInKeyring` shows it on
  `DriveWalk`).  So `MarkPending` stops at the row, the
  job that is queued with it is left out, and strategy `remote` of the
  resolution, which ends in the same error, has no step.
- The server gives a completed revision a time of its own; it equals the
  file's only when both fall into the same second.
- A block that fails does not stop an upload; the code completes the
  revision, and whether it is whole is left out.
- Links in the trash are listed too (the request asks for all).
- `rename_local` renames the path as the request has it, that is, relative to
  the daemon's working directory: `CwdIsBase` tells the two cases apart.
- The key a revision is encrypted to (the snapshot's link at that path, not
  the row's link) is left out.

### DriveWalk

`stack` holds the folders being walked with the children still to visit, as
the recursion of `walk_decrypted_inner` does; one `ListPage` is one request.
`Visit` is the visitor's call and the unlocking of a folder, which may fail
and then skips what is below.  `Move` and `Trash` come in between requests, and a
page may fail or never come (`ListFails`, `Stall`).
`LocalPaths` is the code's computation: last entry of a link, depth by
following parents up to a cap, stable sort, path = parent's path + name; a
parent that is no entry, or a bad name, leaves the path empty.  The loop over
the sorted entries is a recursive function of the round (`placed`), the depth
a recursive function of the steps upwards, and the stable sort puts an entry
at the place that the number of entries before it gives (`Order`).

Link ids are numbers.  `ListOrder` is the order in which the server lists a
folder's children: any order, the same from page to page as long as the set is
the same.  `Above` and `IsTree` are stated without recursion: what is above a
link is in every set that has the link and the parent of each of its members,
and in a tree no set of folders, unless it is empty, is closed under parents.  A path is the
sequence of the links whose names it is made of.  `DepthCap` stands for
the 1000 of the code and must exceed the number of folders for an acyclic
tree to be sorted properly (`AcyclicPathsFollow`): 5 with three folders.

### AuthSession

A copy of a session is its uid and the generation of its tokens; the server
replaces both tokens at each refresh.  `api`, `pending` and `ring` are the
handler's session, the login that waits for its second factor, and the
keyring's entry; `task[t]` is where a task is and the session it holds.

| `task[t].at` | Code |
|---|---|
| `unverified`, `submit` | `handle_auth_login` before it keeps the pending login, `handle_auth_2fa` after it took it |
| `save`, `set`, `clear`, and the two `...Verified` | the rest of a login, `handler:327-391` |
| `revoke`, `delete`, `forget` | `handle_auth_logout` |
| `call`, `refresh`, `store` | any other request or pass: it copied the session, got a 401, has new tokens |
| `held`, `heldRefresh`, `heldStore` | `handle_drive_delete`, which uses the handler's own client and keeps its lock |
| `loopRefresh`, `loopStore`, `loopSet` | `refresh_token`, called by the loop |

Each `await` is the end of a step.  Of the server the model assumes that a
refresh ends both old tokens, that a login whose code is missing
(`wantsCode`) is neither admitted nor refreshed, and that a session may be ended from elsewhere at any time;
every request may fail, and a refresh may be granted and its answer lost.  A
write of the keyring may fail: a login and a call then end with an error, the
loop ignores it.  The answer to a login has a mask of second factors, of which
the code looks at one bit: a login that wants a security key alone (`wantsKey`)
goes on as one that wants nothing.  What the server lets such a session do is not
known from this code; that it refreshes is assumed.  The cached password and `auth.status` are left out.

`spoilt` and `out` are history: the sessions whose last refresh never reached
the keyring, and whether the user is logged out with no login attempted since.

### FolderSync

A folder's `trail` is the sequence of folders it is in, itself last; nobody
moves one here, so it never changes (moves are in `DriveWalk`).  `PathOf` is
what `sync()` makes of it: the names below the first level, hence `<<>>` for
a folder of the first level.  The server keeps the hash of the name a link
was created with and refuses a second active link with the same one;
`drive.rename` sends a name without a hash, so a link's `name` and `hash` may
part.

| `pass[e].at` | Code |
|---|---|
| `dirs` | the walk is done, `create_dir_all` to come, `sync:187-228` |
| `scan` | `ensure_remote_folders` before it reads the disk |
| `create` | its loop over the missing directories, shallowest first |
| `stalled` | awaiting a request that is never answered |

`known` is `remote_by_path`: of the folders at one path it has the last the
walk found, any of them here.  `kr` has the folders the walk unlocked; a
folder made in this pass is put in `known`, not in `kr`, so what is below it
waits for the next pass.  A trashed folder is listed and not entered: it is
made locally and takes no new folder.  Requests (`KeyAtHand`) reach the root
and its children only, since they unlock one folder with its parent's key.
`asked` is history.

### TransferSchedule, TransferGate and Setting

`TransferSchedule` has the code's arithmetic with the length of a day and of a
week as parameters; a schedule is a sequence, because its order decides which
window is announced.  `TransferGate` has a task per connection and one for the
loop:

| `task[t].at` | Code |
|---|---|
| `pause`, `resume`, `set`, `get` | between the call of the database and the lock of the transfer manager, `handler:1214-1288` |
| `cleared` | `check_transfer` said yes, the pass or upload has not begun |
| `pass`, `upload` | inside `SyncEngine::sync`, inside `upload_file` |

`transfer.config` without windows also sets the memory, from what it read; a
read that fails is taken for "no windows" there, and for the defaults at a
start (`Restart`, which may come anywhere).  `contested` and `held` are
history: settings whose last requests overlapped or were misread, and a pause
that was answered and not undone.

`Setting` is the promise: a value in force which changes only to one somebody
asked for, or to the default when a read of the database failed.
`TransferGate` implements it for the flag and for the schedule; the refinement
mapping takes the transfer manager's copy as the value in force, and that
copy, the database's and those on their way in a request as the values still
expected (`PauseInPlay`, `ConfigInPlay`).

### DaemonLife

A process goes `started` -> `locked` -> `clean` (stale socket removed) ->
`bound` -> `serving` -> `closing` (SIGINT) -> `closed` (its socket removed) ->
`left` (main has returned) -> `dead`, and may die anywhere.  Another start is
another process; they are numbered as they start.  `sock` is the process that
bound the file at the path: a socket whose process is dead is the stale file,
and connecting to it fails.  A process in `bound` accepts connections and does
not answer yet.

The lock is a local of main, so it goes at `left`, while the runtime and the
loop, which nobody awaits, go after it: a pass may still run to its next
`await` there (`Leave`, `Exit`).  What it does on the way shows nowhere else in
this module; for `SyncEngine` it is a second engine until the crash that ends
it.

`trig[p]` has, for each process, what starts its passes: events the watcher has
not read, its thread, the triggers in the channel, and where `background_loop`
is:

| `trig[p].loop` | Code |
|---|---|
| `select` | at its `select!` |
| `api` | `trigger_sync` let through by the schedule, waiting for the api lock, `handler:206-216` |
| `pass` | in the pass, before the walk of the directory |
| `looked` | in the pass, after it has begun that walk |
| `ended` | it saw the cancellation and dropped the channel |

`deleting` are the processes in which `drive.delete` holds the api lock.
`unseen` is history: the directory has changed since a walk of it last began, a
walk that succeeds (`Look`); a pass that fails before it (`FailPass`) has seen
nothing.  The debounce interval is a choice: an event may be dropped whenever it
is read (`ReadEvent`).  `allowed` stands for `TransferGate`, the session and the
cached password, and may change at any time.  A GUI goes through `check_auth`
and `spawn_daemon`: a request, a second attempt to connect, the removal of the
socket, the start of a daemon, 300 ms in which it may exit, then a number of
polls.

### GuiApp

One action per message of `update()` that changes state (text fields, the
language and the tray are left out), named as the message is.  A command is a
slot of `calls`: `asked` when the button is pressed, then served (the action
of the daemon, the keyring or the API on it), then answered (the message).
`daemon`, `ring` and `inside` are what the commands find; `Other` is another
client or a pass that changes it.  A command may fail any number of times, and
may stay unserved: the client waits for an answer without a timeout.  `NewView` replaces the whole view at a
login, so an answer from an earlier session finds a view that never asked.

Nothing ever pushes to `path`, so `BackPressed` has no step.

## 3. Runs

| Run | Instance | Question |
|---|---|---|
| `SyncOnePath` | 1 engine, 1 path, 2 links, 3 stamps, fair | `NoMaskedEdit`; `NoUploadInConflict`; `RowMatchesLastRevision`; a pass ends or stalls |
| `SyncMoves` | 1 engine, 3 paths, 1 link, 2 stamps, `rename_local` | types, `NoMaskedEdit` and `OnePathPerLink` for a link that moves between paths and a copy that is a path of its own |
| `SyncTwoEngines` | 2 engines, 1 path, 1 link, 3 stamps | `NoMaskedEdit` when passes overlap; `OnlyOtherPassConflicts`; `PassNearsEnd` |
| `WalkMoves` | 3 folders, 1 file, pages of 2, 2 changes, all initial trees, fair | the walk is exact when undisturbed; paths follow parents when not; it ends or stalls |
| `FolderDirs` | 2 passes, 5 links, 4 paths, 2 changes | `EveryNameAsked`; `DirsArrive` |
| `AuthCopies` | 2 connections and the loop, 2 sessions, 1 refresh of each | what the keyring can be trusted for: `VerifiedOnly`, `KeyringCanRefresh`, `KeyringNeverGoesBack` |
| `GateSettings` | 2 connections and the loop, days of 4 minutes, weeks of 3 days, 1 failing read | `CopiesAgree`, `PauseHolds`, `SyncingMeansPass`, `WaitLongEnough`; `SettingsRefine` |
| `DaemonStarts` | 2 processes, 1 GUI opened once, a channel of 1, 2 polls, fair | `OneLoop`, `DaemonsSpareSockets`; `ChangesAreSeen`, `WatcherGetsOn`, `GuisDecide` |
| `GuiAnswers` | 2 commands at a time, 4 buttons, 1 other change, fair | `BusyHasCommand`, `FilesNeedKeyring`; `PauseShownInTheEnd` |
| `VPendingCoversNoUnsavedEdit` | 1 engine, 1 path, 2 links | a comment of `sync` the code does not keep |
| `VLoggedOutStays` | as `AuthCopies` | a comment on logout the code does not keep |
| `VRemovedSocketIsStale` | as `DaemonStarts` | a comment of `gui` the code does not keep |

Why the bounds are enough to be interesting. In `SyncMoves` two stamps are an
edit of two paths, or an edit and the server's time, and the third path is the
copy. (Three stamps over two paths, 5.8 million states, held as well; so did
`OnePathPerLink` and `RowMatchesLastRevision` over two paths and two links
without `rename_local`, 6.0 million states. They are left out for their time.)
Over one path three stamps are an edit, a second edit while the first is on
its way, and a revision by another device or the server's own time for ours;
with them every state of a row is reached with every relation of disk, row and
server. Two links at one path give a replaced file and a duplicate; one link
over several paths gives a move and two rows of the same link. Two engines is
where passes meet. In the walk two changes are the least that make a cycle
among the entries or duplicate a folder with something below it; pages of 2
meet folders of 0 to 4 children, the exact multiples included. In `AuthCopies`
two connections and the loop are three holders of one session, of which one
refreshes and two fall behind; two sessions are what a logout followed by a
login needs.

`FolderDirs` starts with a folder of the first level and one below it, whose
path is therefore of the first level; five links leave three to be made, by
two passes at once, one of them losing its answer.  Paths up to three names
are a directory below a folder that has to be made first, in another pass.
Two changes are a trashing or a removal against the pass that copies the
other way.  In `GateSettings` two connections are two requests for a setting
that overlap, with the loop starting a pass between them; a day of four
minutes has room for windows that are open, closed, empty and overnight, and
`WaitLongEnough` is checked for every single window of such a week and for two
windows in both orders, at every minute.  In `DaemonStarts` the second process
is started by hand or by the GUI while the first comes up, serves, stops or
dies; a channel of one is full after one event.  In `GuiAnswers` four buttons
are a login, a logout, a login and a click, or a decryption, a folder and two
of pause, rename, delete, upload.

`CHECK_DEADLOCK FALSE` stands where the bounded instance may run out of things
to do: in those of `SyncEngine` once the clock is used up and everything is
deleted, in `GuiAnswers` once the buttons are, on the screen of the login,
which has no timer.

Symmetry is used over links, engines, connections and sessions, in runs
without liveness; no definition tells one from another (`ByPathMaps` and `RowsOfLink` are sets of
choices).

Fairness and premises.  No request of this code has a timeout: not those of the
HTTP client, not those of the IPC client, and nothing wraps a pass in one.  So no
fairness says that a request is answered, a pass ended or a command served.
What fairness there is is that of the runtimes, and what a liveness property needs
beyond it is a premise of that property, in its formula:

- `SyncEngine`, `DriveWalk`: a pass, or a walk, whose answer has come takes its
  next step (`WF_vars(PassStep(e))`, `WF_vars(Walking /\ WalkStep)`).  That the
  answer never comes is a step of its own, `Stall`, so `PassEnds` and `WalkEnds`
  say that a pass ends or waits for an answer, and for nothing else.  `WalkEnds`
  also rests on `MaxChanges`: a folder moved ahead of the walk for ever would
  keep it going.
- `FolderSync` has no fairness.  `DirsArrive` supposes of one engine that its
  passes are run to their end again and again, and that the server does not
  refuse or lose for ever a folder it could make each time.  Neither is certain:
  one entry of the directory that cannot be read makes every pass fail
  (`Abandon`), only the background loop has a timer, and a pass may stall.
- `DaemonLife`: a process goes on starting or stopping, its watcher's thread
  runs, a GUI's task is polled.  Strong fairness of `Tick` and `Receive`, because
  `select!` picks at random among the ready branches: neither the timer nor the
  channel starves the other.  Nothing is assumed of starts, SIGINT, changes,
  `Allow`, passes or `drive.delete`.  `ChangesAreSeen` supposes that a process
  serves for good with transfers allowed, that its loop comes back to `select!`
  again and again, and that its passes at last cease to fail before they look at
  the directory; `WatcherGetsOn` that no pass of the process hangs for ever;
  `GuisDecide` that no `drive.delete` keeps the api lock for ever.
- `GuiApp`: the application takes its messages, and the status timer ticks while
  the screen it belongs to is up.  `PauseShownInTheEnd` supposes that no command
  is left unserved for ever and that status requests at last cease to fail.

Each premise is needed: without any one of them TLC finds a counterexample.

Every property of a passing run has a mutant that breaks it: the definitions
marked `(mistake: ...)`, for instance a row written with the stamp the file
has after the upload, a conflict check left out of the upload loop, a
failed page that is retried for ever, entries resolved in the order they were found.

### What the violated properties show

| Property | The source says | What the code does |
|---|---|---|
| `PendingCoversNoUnsavedEdit` | "check if local also changed (conflict)" (`sync:255`) | without a row for the link nothing is compared: a remote file over an unsent local one is marked for download |
| `LoggedOutStays` | "Revoke the session on the server and remove it from the keyring" (`proton-core/src/auth/mod.rs:110`) | a refresh answered before the logout writes its tokens to the keyring after it |
| `RemovedSocketIsStale` | "No daemon is listening. Any existing socket file is stale, so remove it" (`gui:948`) | the GUI connects in vain, a daemon binds, the GUI removes its socket: that daemon keeps the lock and nobody can reach it or start another |

More such statements stand in the modules, each with a short counterexample
in TLC, and have no run of their own in `PROJECT.json`:

| Property | The source says | What the code does |
|---|---|---|
| `SyncEngine.ConflictHeldUntilResolved` | "Skip files in conflict state - user must resolve first" (`sync:771`) | the download branch overwrites `conflict` with `pending` when the file is deleted meanwhile or the row is found by another path |
| `AuthSession.SecondFactorHeld` | "Return a `Session` (or indicate that 2FA is still needed)" (`proton-core/src/auth/mod.rs:29`), "1 = TOTP, 2 = FIDO2" (`proton-core/src/api/types.rs:56`) | only the first bit is looked at (`auth/mod.rs:80`): an account with a security key alone gets its session used and saved as if nothing were needed |
| `DriveWalk.FileKeysInKeyring` | "so callers can later decrypt file content key packets" (`drive:285`) | keys are unlocked for folders only |
| `TransferGate.PauseStopsTransfers` | "pause all background transfers and sync" (`README.md:158`) | a pass or an upload that was let through goes on, and so does one between its check and its start |
| `TransferGate.WaitEndsInWindow` | "the number of minutes from `now` until transfers become allowed" (`transfer:31`) | a window that opens on a later day at an earlier minute is announced for the same minute of that day, when it may have closed again (`transfer:69`) |
| `GuiApp.ResolvedConflictsLeave` | "Re-fetch conflicts." (`gui:517`) | the resolution's answer is empty on success, and only a text that is not empty re-fetches: a resolved conflict stays on the screen |

Also visible in the model, without a run of their own: the root is never an
entry, so the links directly below it get the empty path and what is below
them loses its first name (`LocalPaths`); a row keeps the local time of an upload and the
server's differs, so the device's own upload is taken for a remote change and
conflicts with the next edit (`CompareRemote`, `CompletionStamps`); a failed
read of the database sends a path in conflict as a new link (`ReadAsNew`); a
file whose row is
`pending` with a link is sent as a new link (`CreateLink`); after
`rename_local` the copy has a `synced` row without a link and is skipped for
good (`RenameRecord`, `SkipUpload`); a link moved from a folder not yet
listed to one already listed is in no entry; two moves can leave entries whose
parents form a cycle, which is why `PathsFollowParentsUnlessCyclic` has its
second half; a directory of the first level never becomes a folder (`Target`),
and nested new directories need a pass for each level; a directory the user
removed is made again by the next pass as long as its folder is there; two
connections that set the schedule at once can leave memory and database
apart, and a failing read lifts the schedule (`contested`); passes that
overlap share `sync_state`, so that it says "idle" while one still runs (only
the converse holds, `SyncingMeansPass`); the listing of one folder may arrive
when another is the current one (`FolderLoaded`); at the root the GUI has no
parent, so new folders and uploads are refused (`NewFolderConfirmed`,
`ChangeDrive`); a logout clears the keyring even if the daemon keeps its
session (`LogOut`); a listing that was asked for before a logout is shown under
the next session's keyring, which does not open it (`FolderLoaded`:
`FilesNeedKeyring` says only that there is a keyring); a failed status request
shows a paused daemon as not paused (`SyncStatusUpdated`); and between the return
of main and the end of the runtime a second daemon may serve while what is left of
a pass of the first runs, although the lock is there "to ensure only one daemon
instance runs" (`protond/src/main.rs:166`; the exception of `OneLoop`).  Left out
of the models, and plain in the code: the upload loop goes on after a block that
failed, and completes and records a revision with blocks missing (`sync:1275`).

`NoUploadInConflict` and `RowMatchesLastRevision` hold for one engine and are
false for two, which nothing in the code rules out: another pass may mark the
conflict between the check and the row's update, and two uploads of one path
may complete in either order. What holds for any number of them is
`OnlyOtherPassConflicts`: nothing but such a marking does it.  Both leave out an
upload begun on a failed read (`blind`). `OnePathPerLink`
holds for any number of engines and leaves out the copies of `rename_local`,
for which it is false, and `RowMatchesLastRevision` with it: a link that is
moved to the path of the copy leaves its id in the row there, `RenameRecord`
makes that row synced and keeps the id (COALESCE), and the next pass sends the
copy as a revision of another file's link.

## 4. Proofs

Each proof module states what it proves for every value of the constants,
under the assumptions its model declares and no others, except where a theorem
names one.  All of them follow one pattern: types first, then an inductive
invariant with one lemma per conjunct or per group of actions, and a last step
that combines them.  Every inductive invariant was checked by TLC on a run's
constants before it was proved.

| Module | Theorems (property) |
|---|---|
| `SyncEngineProofs` | `TypeCorrect` (`TypeOK`), `EditsNeverMasked` (`NoMaskedEdit`), `NothingSentInConflict` (`NoUploadInConflict`), `ConflictsFromOthers` (`OnlyOtherPassConflicts`), `LinkTakesOnePath` (`OnePathPerLink`), `LastRevisionIsRecorded`, `LastRevisionOfOnePath` (`RowMatchesLastRevision`), `PassesNearEnd` (`PassNearsEnd`), `PassesAreBounded` |
| `DriveWalkProofs` | `TypeCorrect`, `QuietWalkIsSnapshot` (`SnapshotWhenQuiet`), `NestedPathsFollow`, `AcyclicPathsFollow` (`PathsFollowParentsUnlessCyclic`) |
| `FolderSyncProofs` | `TypeCorrect`, `NamesWereAsked` (`EveryNameAsked`) |
| `AuthSessionProofs` | `SessionTypes`, `CopiesKeepApart`, `KeyringMonotone` (`KeyringNeverGoesBack`), `NothingUnverified` (`VerifiedOnly`), `KeyringRefreshable` (`KeyringCanRefresh`) |
| `TransferGateProofs` | `TypeCorrect`, `WaitsLongEnough` (`WaitLongEnough`), `SyncingNeedsPass` (`SyncingMeansPass`), `CopiesStayTogether` (`CopiesAgree`), `PauseIsKept` (`PauseHolds`), `SettingsImplement` (`SettingsRefine`) |
| `DaemonLifeProofs` | `TypeCorrect`, `LoopsOneByOne` (`OneLoop`), `SocketsSpared` (`DaemonsSpareSockets`) |
| `GuiAppProofs` | `TypeCorrect`, `BusyIsTrue` (`BusyHasCommand`), `ListingsNeedKeyring` (`FilesNeedKeyring`) |

### SyncEngineProofs

Assumptions: `NoLink` is no link; `Paths` is not empty; the conflicted name of
a path is a path and its own conflicted name; the strategies are `local` and
`rename_local`; `CwdIsBase` is a Boolean.

`NoMaskedEdit` is not inductive: it says nothing of an upload on its way,
whose row is yet to be written.  The inductive invariant is

    IInv == StampsDistinct /\ WalkHeld /\ OneUpload /\ UploadHeld /\ RowsVouch

Call a stamp *lost* for a path when it has been handed out and is not the
stamp of the file there.  A lost stamp stays lost, because edits take fresh
ones and `rename_local` moves a stamp to another path without copying it
(`StampsDistinct`: no stamp is at two paths).  What the walk saw is either
still there or lost (`WalkHeld`).  An upload inherits that from the walk, and
if the content it read is not the one its stamp names, the stamp is already
lost (`UploadHeld`).  So when the row is written with the walk's stamp, either
the content sent is that of the stamp and was completed, or the stamp is lost
and can never equal the file's again (`RowsVouch`).  Recording a later stamp
breaks precisely this step.  `HeldCarriedOver` is the lemma every other one
rests on; each conjunct has a lemma of its own, with a case per group of
actions.

`NoUploadInConflict` and `RowMatchesLastRevision` are false for two engines
(section 3), so their theorems suppose one: `Engines = {e}`.  A step is first
shown to be another pass's or of one of four kinds (`Quiet`, `Begins`,
`Completes`, `Records`: it leaves the upload alone, begins it, completes its
revision, writes its row), and the invariants are proved of the kinds.
`NothingSentInConflict` holds for any paths and needs `UploadPhase` only: an
upload is under way in its own part of the pass, where nothing is marked.
`ConflictsFromOthers` is the step of that argument which holds for any number
of engines: a pass that compares is another one (`MarkedBy`).  Both say nothing
of an upload that is `blind`, which a failed read began on a path in conflict.

`LinkTakesOnePath` supposes nothing of engines, paths or links.  Its invariant
says of a path and a link that contents of the one are, were or will be put on
the other (`Fed`: a synced row, an upload under way, the history), and

    LinkInv == NoRename /\ FedUsed /\ FedOnce

Copies of `rename_local` apart, a link that is fed has been given out, so that
the server gives it to no one else (`FedUsed`), and two paths do not feed one
link (`FedOnce`).  Without that strategy there are no copies (`NoRename`).  A step that
makes a path feed a link takes the link from the path's row or from the server
(`FedStep`, `CreatedFor`), never from what the snapshot lists at the path,
which is what moves change.

`LastRevisionIsRecorded` takes both suppositions, one engine and no
`rename_local`, over any paths; over one path `rename_local` does no harm
(`LastRevisionOfOnePath`).  Its invariant is `LinkInv`, that every link in a row, a
snapshot, a comparison, an upload or a resolution was given out by the server
(`GivenInv`), and

    RevInv == UploadPhase /\ RowsHeld /\ WalkOlder /\ UploadOlder /\ RecordOwn /\ RowOwn

A row that would make a pass skip the file says of its stamp that it is the
file's or lost.  A file is sent only when the walk found another stamp than
the row's, so that the row's is lost (`WalkOlder`), or when the read of the
rows failed, and then as a new link, which by `GivenInv` is not the row's
(`UploadOlder`): completing a revision changes what a link holds under a row that
no longer counts or names another link, even if the answer is lost and the row
is never written.  That no row of another
path counts for that link is `FedOnce` (`LinksAreOwn`).

`PassesNearEnd` is the part of `PassEnds` that needs no fairness.  `StepsLeft`
is a bound on the steps a pass has before it: three for an entry of the
snapshot (compare, stat, mark), one for a file to look at, four for a file to
send.  A step of the pass lowers it, whether it succeeds, fails or ends the
pass, and a step of anyone else leaves the pass as it was (`OwnStepShortens`,
`OthersPass`).  It supposes that the paths and the links are finitely many,
and its invariant `TodoSmall` says that the snapshot then is.
`PassesAreBounded` puts a number to it.  What `PassEnds` adds, and TLC checks,
is that a pass under way always has a step it can take.

### DriveWalkProofs

Assumptions: the root is no folder or file of the tree and no link is both; a
page has room for a link; the server lists each child of a folder once, in
some order (`OrderAssumption`).  Nothing is assumed of the size of the tree.

`TypeCorrect` includes that the keyring never holds a file's key.  For
`QuietWalkIsSnapshot` the invariant, as long as nothing was changed, is

    Quiet == TreeOK /\ FoundOK /\ StackOK /\ ListOK /\ Covered /\ StayedUp

What was found hangs together up to the root, each link once (`FoundOK`); each
folder of the stack was found, is there once, and what is left of it was not
found (`StackOK`); the list being fetched is the first so many of the folder's
children, a multiple of the page size (`ListOK`); a link whose parent was
found, and which is not found itself, is still in that parent's list or on a
page to come (`Covered`), unless it is below a key that did not unlock, and
such links are closed downwards (`StayedUp`).  When the stack is empty nothing
can be waiting, so the links that were missed would form a set of folders each
in another of the set: `IsTree` says there is none.  `AboveParent` is the one
fact about trees it takes.

The paths are computed in the last step of the walk, from entries that may
have come in any order, so the proof is about the three loops of that
computation.  Each is a recursive function over finitely many rounds;
`LoopRuns` shows that such a function exists and satisfies its equation, and
`EveryRound` is induction over the rounds.  Depth: an entry whose parent is an
entry climbs the same way one round later, so as long as it does not reach the
cap its depth is one more (`ClimbAbove`, `ParentLessDeep`).  Sort: counting
puts every entry at one place and in order of depth (`OrderSorts`).  Paths: an
entry's round sets its path and no other's, so when its turn comes the path of
its parent's entry is final (`PlacedStays`, `PathsFollow`).  A climb that
never ends goes round in a cycle or past as many folders as the cap:

- `NestedPathsFollow` supposes levels of the entries (`Levels`), below the cap
  and each entry's above its parent's, and nothing of the size of the tree;
- `AcyclicPathsFollow` supposes fewer folders than `DepthCap`, and no cycle:
  the entries a climb passes are of different folders (`AcyclicWithinCap`).
  With the code's 1000 that is an account of fewer than 1000 folders; beyond
  it the first theorem covers trees that are broad and not deep.

### FolderSyncProofs

Assumptions: links are numbers, none of them the root's; `None` is no name and
no link; the paths have those above them; the folders at the start make a
forest (`TreeAssumption`: a trail is the trail of the folder above, and the
folder).

    FolderInv == LinkOK /\ Forest /\ ListedAsked /\ DirsOK /\ PassOK

A name's depth is that of the folder's trail on the server and that of the
path on the disk, one less.  The invariant extends `EveryNameAsked` to the
places a name may come from next: what a pass knows is at the depth of the
path it knows it for, and what it is about to make was asked for (`PassOK`).
The folder that takes a new one is the one known for the path above
(`MadeAtDepth`), never a nearer or a farther one.  `PathOf` and the shallowest
path of a set are choices; `LeastElement` shows that what is chosen exists.

### AuthSessionProofs

Assumptions: the loop is no connection and `NoSession` no session.

The inductive invariant is `CopyInv` (`CopiesKeepApart`), which says where
copies of one session can be at once: a login on its way is the only copy of
its session (`LoginAlone`, `PendingAlone`), and tokens about to be saved are
newer than every other copy (`NewestAlone`), because two tasks cannot both
have refreshed with the same tokens.  This is what makes writing the keyring
without a lock safe: a task that writes it either brings another session or
newer tokens.  To keep the proof readable, a step is first shown to be one of
a few `Moves` of copies (a task passes its copy on, borrows the handler's,
takes the pending one, opens a session, renews one, or nothing moves), and
`CopyInv` is proved of the moves.  `VerifiedOnly` needs that the loop and the
calls hold verified sessions only (`OnlyVerified`), where verified means that a
code the account asks for was accepted: of an account with a security key alone
it says nothing (`SecondFactorHeld` is refuted, section 3); `KeyringCanRefresh` needs
`CopyInv`, `OnlyVerified` and that logins on their way are fresh
(`LoginsFresh`).

### TransferGateProofs

Assumptions: a day and a week of some length (`CalendarAssumption`), schedules
of windows within them, a loop that is no connection.

`WaitsLongEnough` is a fact about the calendar alone (`WaitIsEnough`): the
announced minute is that of a window's opening, today or on a later day, and
the openings of a week recur (`DayComes`, `NextOpeningExists`), whatever the
order of the windows.  The rest needs

    SettingsInv == Alone /\ Wrote /\ HeldFast /\ CopiesAgree

A request that was alone when it began, and has been since, is the only one at
work on its setting (`Alone`), and what it is about to put in memory is what
is on the disk (`Wrote`); a pause that holds is in both copies and no resume
is under way (`HeldFast`).  `CopiesAgree` alone is not inductive: it says
nothing while a request is between its two writes, which is when it could be
broken.  `SettingsImplement` is the refinement: the initial state maps to one
of `Setting`, and each step of the gate to a step of `Setting` or a stutter,
for the schedule (`ConfigStep`) and for the flag (`PauseStep`).

### DaemonLifeProofs

Assumptions: processes are numbers and `None` is none of them; the channel has
room; the other bounds are numbers.  Everything rests on `LockHeld`: whoever is
past `acquire_instance_lock` holds the lock until main has returned, and two
processes cannot both be there.  With it goes `LoopsRun`: a loop that may run a
pass is in a process that serves, stops or has left.  So no other process
listens while one may run a pass, but for the one whose main has returned
(`LoopsOneByOne`), and the socket a daemon removes is its own or that of a process
whose listener is gone (`SocketsSpared`).

### GuiAppProofs

Assumptions: `TreeAssumption` and `BoundsAssumption` of `GuiApp`.  Here the
properties are inductive together with the types, which include what a
command's answer may hold (`CallSide`: a listing names a folder and holds
links).  `UpdatedBusy` says what an answer may do to the view it finds, and is
applied to each message: an answer clears what it was asked for, and leaves
the rest to the commands still running.  `ListingsNeedKeyring` says that no
listing is shown without a keyring, not that this keyring opens it (section 3).

### What is only model-checked

Every invariant and every action property of the passing runs is proved, and so
is the refinement.  What is left to TLC:

- Liveness (`PassEnds`, but for the bound on a pass, `WalkEnds`, `DirsArrive`, `ChangesAreSeen`,
  `WatcherGetsOn`, `GuisDecide`, `PauseShownInTheEnd`): fairness and ENABLED
  are out of the prover's reach.  Most of them carry premises (section 3).
- The violations of section 3, which are counterexamples.
- The theorems hold of the models; that the bounds in guards (`MaxChanges`,
  `MaxGen`, `MaxFaults`, the clock) may be any number is what makes them
  statements about unbounded runs.

Every module is free of RECURSIVE operators, so that all of them can be proved
about.  Induction is first order throughout: over natural numbers by the least
number a claim fails for (`LeastNatural`), since the library's induction
theorems take an operator as a parameter, which the provers cannot
instantiate.

## 5. Not modelled

Left out for good:

- cryptography and SRP (arithmetic on large numbers); which keys are at hand
  is in `DriveWalk` and `FolderSync`;
- translations, the CLI (one request per command), the GUI's layout and tray;
- JSON and HTTP, and with them IPC: a line is a request, whose handler's steps
  are in the modules.  (The client refuses a line of more than 1 MiB and the
  daemon has no limit on what it answers; the client waits for ever.)
- the request limiter and the throttle: fractions of tokens over real time; a
  refused request changes nothing, and the throttle is created unlimited;
- the table of jobs, which only the end of a download reads, and everything a
  download would do once it had the file's key: no pass gets that far;
- the cached password, which a `drive.sync` that ends after a logout caches
  again (`handler:762`);
- names, hashes, progress reports and logging, where code is modelled.

What could be added: the node keys a revision is encrypted to (`sync:814`), the
cached password, and for several engines which of two uploads of one path is
the last, which the code leaves to chance.
