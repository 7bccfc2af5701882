------------------------------ MODULE SyncEngine ------------------------------
(***************************************************************************)
(* The file half of `SyncEngine::sync` (crates/proton-core/src/sync),      *)
(* together with the three resolutions of a conflict that the daemon       *)
(* offers (crates/protond/src/handler.rs), the user who edits the local    *)
(* tree and the other devices that edit the remote one.                    *)
(*                                                                         *)
(* A pass of an engine: take a snapshot of the remote tree; for each file  *)
(* of the snapshot compare it with the state database and the disk, and    *)
(* mark its path "conflict" or "pending"; then walk the local tree and     *)
(* send every file the database does not know to be in sync.  A call of    *)
(* the database may fail, and most failures pass for "no row"; a request   *)
(* may be answered, fail, or never be answered, for the HTTP client has    *)
(* no timeout, and then neither does the pass end.  Nothing                *)
(* keeps two passes apart: `drive.sync` and the background loop each       *)
(* build an engine over the same database, hence the set Engines.          *)
(*                                                                         *)
(* The paths here are files below a remote folder whose own local path is  *)
(* known and whose key is in the keyring; how folders get their paths is   *)
(* the subject of DriveWalk.                                               *)
(*                                                                         *)
(* Contents and stamps: an edit always takes a fresh stamp, so a stamp     *)
(* also names the content it came with.                                    *)
(***************************************************************************)
EXTENDS StateDb, FiniteSets

CONSTANTS
  Engines,       \* concurrent runs of sync() over one database
  Conflicted(_), \* with_extension("conflicted") on a path
  Strategies,    \* the conflict strategies the user chooses from
  CwdIsBase,     \* the daemon runs in the directory it synchronises
  MaxClock       \* bound: last stamp handed out

ASSUME ConflictedAssumption ==
  \A p \in Paths : /\ Conflicted(p) \in Paths
                   /\ Conflicted(Conflicted(p)) = Conflicted(p)
ASSUME StrategiesAssumption ==
  Strategies \subseteq {"local", "rename_local"}
ASSUME CwdAssumption == CwdIsBase \in BOOLEAN
ASSUME PathsAssumption == Paths # {}

VARIABLES
  local,     \* local[p]: stamp of the file at p, 0 when there is none
  remote,    \* remote[l]: what the server holds for link l
  clock,     \* last stamp handed out
  rows,      \* the nodes table
  uploaded,  \* history: <<p, l, c>> once content c of p was completed on l
  pc,        \* where each engine is in its pass
  todo,      \* snapshot entries an engine has not examined yet
  byPath,    \* remote_by_path of an engine
  cur,       \* the entry an engine examines, with the row it read for it
  visit,     \* paths an engine's walk of the local tree has not reached yet
  seen,      \* stamps the walk found, until the upload loop passes the file
  up,        \* the upload an engine has under way
  resolver   \* the conflict resolution under way in the handler

engineVars == <<pc, todo, byPath, cur, seen, visit, up>>
vars == <<local, remote, clock, rows, uploaded, engineVars, resolver>>

-----------------------------------------------------------------------------
\* A link without a revision is a draft: its size and times are unset (0).
\* own: content of the last revision this device completed on the link.
Remote == [status : {"unused", "draft", "active", "gone"},
           path : Paths, stamp : Nat, own : Nat]

Entry == [link : Links, path : Paths, stamp : Nat]
Comparison == [entry : Entry, row : Row, changed : BOOLEAN]
\* blind: the path was in conflict when the read that would have said so failed.
Upload == [path : Paths, link : Links, stamp : Nat, content : Nat, blind : BOOLEAN]
Resolution == [path : Paths, row : Row, strategy : {"local", "rename_local"},
               at : {"chosen", "moved", "pending"}]

Places == {"idle", "files", "compare", "mark", "walk", "uploads", "read", "send",
           "record", "stalled"}

Unused == [status |-> "unused", path |-> CHOOSE p \in Paths : TRUE,
           stamp |-> 0, own |-> 0]

NoStamps == [p \in Paths |-> 0]
NothingByPath == [p \in Paths |-> NoLink]

Init ==
  /\ clock = 0
  /\ local = NoStamps
  /\ remote = [l \in Links |-> Unused]
  /\ rows = [p \in Paths |-> NoRow]
  /\ uploaded = {}
  /\ pc = [e \in Engines |-> "idle"]
  /\ todo = [e \in Engines |-> {}]
  /\ byPath = [e \in Engines |-> NothingByPath]
  /\ cur = [e \in Engines |-> {}]
  /\ seen = [e \in Engines |-> NoStamps]
  /\ visit = [e \in Engines |-> {}]
  /\ up = [e \in Engines |-> {}]
  /\ resolver = {}

-----------------------------------------------------------------------------
(* The user and the other devices *)

UserEdit(p) ==
  /\ clock < MaxClock
  /\ clock' = clock + 1
  /\ local' = [local EXCEPT ![p] = clock + 1]
  /\ UNCHANGED <<remote, rows, uploaded, engineVars, resolver>>

UserDelete(p) ==
  /\ local[p] # 0
  /\ local' = [local EXCEPT ![p] = 0]
  /\ UNCHANGED <<remote, clock, rows, uploaded, engineVars, resolver>>

\* Another client adds a file or a revision.
OtherUpload(l, p) ==
  /\ clock < MaxClock
  /\ \/ remote[l].status = "unused"
     \/ remote[l].status = "active" /\ remote[l].path = p
  /\ clock' = clock + 1
  /\ remote' = [remote EXCEPT ![l] =
                  [status |-> "active", path |-> p, stamp |-> clock + 1,
                   own |-> @.own]]
  /\ UNCHANGED <<local, rows, uploaded, engineVars, resolver>>

\* drive.rename changes the link only; so does a move by another device.
OtherMove(l, p) ==
  /\ remote[l].status = "active"
  /\ remote[l].path # p
  /\ remote' = [remote EXCEPT ![l].path = p]
  /\ UNCHANGED <<local, clock, rows, uploaded, engineVars, resolver>>

\* drive.delete deletes the link only; no row is touched.
OtherDelete(l) ==
  /\ remote[l].status \in {"draft", "active"}
  /\ remote' = [remote EXCEPT ![l].status = "gone"]
  /\ UNCHANGED <<local, clock, rows, uploaded, engineVars, resolver>>

-----------------------------------------------------------------------------
(* Remote snapshot and conflict detection *)

Listed(l) == remote[l].status \in {"draft", "active"}

LinksAt(p) == {l \in Links : Listed(l) /\ remote[l].path = p}

Listing ==
  {[link |-> l, path |-> remote[l].path, stamp |-> remote[l].stamp] :
     l \in {k \in Links : Listed(k)}}

\* HashMap::insert keeps the entry inserted last; the order is the server's.
ByPathMaps ==
  {f \in [Paths -> Links \cup {NoLink}] :
     \A p \in Paths : IF LinksAt(p) = {} THEN f[p] = NoLink
                                         ELSE f[p] \in LinksAt(p)}

\* (mistake: a pass begins where the one before was cut short in an upload)
StartPass_Again(e) ==
  /\ pc[e] \in {"idle", "read"}
  /\ pc' = [pc EXCEPT ![e] = "files"]
  /\ todo' = [todo EXCEPT ![e] = Listing]
  /\ \E f \in ByPathMaps : byPath' = [byPath EXCEPT ![e] = f]
  /\ UNCHANGED <<local, remote, clock, rows, uploaded,
                 cur, seen, visit, up, resolver>>

\* A pass whose walk of the remote tree fails returns here without effect.
StartPass(e) ==
  /\ pc[e] = "idle"
  /\ pc' = [pc EXCEPT ![e] = "files"]
  /\ todo' = [todo EXCEPT ![e] = Listing]
  /\ \E f \in ByPathMaps : byPath' = [byPath EXCEPT ![e] = f]
  /\ UNCHANGED <<local, remote, clock, rows, uploaded,
                 cur, seen, visit, up, resolver>>

\* Entries are examined in the order they were inserted into remote_by_path.
InOrder(e, x) ==
  \A y \in todo[e] \ {x} : y.path = x.path => byPath[e][x.path] # x.link

\* get_node_by_link_id and the `remote_changed` test.  A read that fails is
\* "no row" (`.ok().flatten()`), and what has no row is not compared further.
CompareRemote(e, x) ==
  /\ pc[e] = "files"
  /\ x \in todo[e]
  /\ InOrder(e, x)
  /\ todo' = [todo EXCEPT ![e] = @ \ {x}]
  /\ \E row \in RowsOfLink(rows, x.link) \cup {NoRow} :
       IF row.state # "none" /\ row.stamp = x.stamp
       THEN UNCHANGED <<pc, cur>>
       ELSE /\ pc' = [pc EXCEPT ![e] = IF row.state = "none" THEN "mark" ELSE "compare"]
            /\ cur' = [cur EXCEPT ![e] = {[entry |-> x, row |-> row, changed |-> FALSE]}]
  /\ UNCHANGED <<local, remote, clock, rows, uploaded,
                 byPath, seen, visit, up, resolver>>

LocalChanged(c) == local[c.entry.path] \notin {0, c.row.stamp}

\* LocalNode::from_path stats and hashes the file; an error of it is "unchanged".
StatLocal(e) ==
  /\ pc[e] = "compare"
  /\ pc' = [pc EXCEPT ![e] = "mark"]
  /\ \E c \in cur[e] : \E b \in {LocalChanged(c), FALSE} :
       cur' = [cur EXCEPT ![e] = {[c EXCEPT !.changed = b]}]
  /\ UNCHANGED <<local, remote, clock, rows, uploaded,
                 todo, byPath, seen, visit, up, resolver>>

\* upsert_node whose result is not looked at (`.ok()`): it may change nothing.
TryUpsert(p, lnk, stm, st) == rows' \in {rows, Upsert(rows, p, lnk, stm, st)}

\* What was read of the row and the file decides; the table is written now.
MarkConflict(e) ==
  /\ pc[e] = "mark"
  /\ \E c \in cur[e] :
       /\ c.changed
       /\ TryUpsert(c.entry.path, c.entry.link, c.entry.stamp, "conflict")
  /\ pc' = [pc EXCEPT ![e] = "files"]
  /\ cur' = [cur EXCEPT ![e] = {}]
  /\ UNCHANGED <<local, remote, clock, uploaded,
                 todo, byPath, seen, visit, up, resolver>>

\* Then enqueue_job, left out with the table of jobs, and download_file with the
\* keyring of this pass.  That keyring holds the keys of the share, the root and
\* the active folders and never that of a file, so download_file asks for the
\* link and returns its error before it touches the disk or the database.
MarkPending(e) ==
  /\ pc[e] = "mark"
  /\ \E c \in cur[e] :
       /\ ~c.changed
       /\ TryUpsert(c.entry.path, c.entry.link, c.entry.stamp, "pending")
  /\ pc' = [pc EXCEPT ![e] = "files"]
  /\ cur' = [cur EXCEPT ![e] = {}]
  /\ UNCHANGED <<local, remote, clock, uploaded,
                 todo, byPath, seen, visit, up, resolver>>

-----------------------------------------------------------------------------
(* Local walk and uploads *)

StartWalk(e) ==
  /\ pc[e] = "files"
  /\ todo[e] = {}
  /\ pc' = [pc EXCEPT ![e] = "walk"]
  /\ visit' = [visit EXCEPT ![e] = Paths]
  /\ UNCHANGED <<local, remote, clock, rows, uploaded,
                 todo, byPath, cur, seen, up, resolver>>

\* LocalClient::walk_all stats and hashes one file after the other.
WalkFile(e, p) ==
  /\ pc[e] = "walk"
  /\ p \in visit[e]
  /\ seen' = [seen EXCEPT ![e][p] = local[p]]
  /\ visit' = [visit EXCEPT ![e] = @ \ {p}]
  /\ UNCHANGED <<local, remote, clock, rows, uploaded,
                 pc, todo, byPath, cur, up, resolver>>

StartUploads(e) ==
  /\ pc[e] = "walk"
  /\ visit[e] = {}
  /\ pc' = [pc EXCEPT ![e] = "uploads"]
  /\ UNCHANGED <<local, remote, clock, rows, uploaded,
                 todo, byPath, cur, seen, visit, up, resolver>>

\* Nothing of what the pass had in memory is used again.
LeavePass(e, at) ==
  /\ pc' = [pc EXCEPT ![e] = at]
  /\ todo' = [todo EXCEPT ![e] = {}]
  /\ byPath' = [byPath EXCEPT ![e] = NothingByPath]
  /\ cur' = [cur EXCEPT ![e] = {}]
  /\ seen' = [seen EXCEPT ![e] = NoStamps]
  /\ visit' = [visit EXCEPT ![e] = {}]
  /\ up' = [up EXCEPT ![e] = {}]

\* Any error of the walk, a file that vanished included, ends the pass.
WalkFails(e) ==
  /\ pc[e] = "walk"
  /\ LeavePass(e, "idle")
  /\ UNCHANGED <<local, remote, clock, rows, uploaded, resolver>>

FinishPass(e) ==
  /\ pc[e] = "uploads"
  /\ seen[e] = NoStamps
  /\ LeavePass(e, "idle")
  /\ UNCHANGED <<local, remote, clock, rows, uploaded, resolver>>

\* A request is never answered: that of download_file, those that make folders
\* ahead of the walk, or one of an upload, whatever the server did of it.
Stall(e) ==
  /\ pc[e] \in {"files", "walk", "read", "send", "record"}
  /\ LeavePass(e, "stalled")
  /\ UNCHANGED <<local, remote, clock, rows, uploaded, resolver>>

\* What get_node and list_nodes say of p: one that fails passes for "not in
\* conflict" (`if let Ok(Some(..))`), or for "not synced" (`unwrap_or_default`).
Reads(p) == [conflict : {rows[p].state = "conflict", FALSE},
             synced   : {IsSynced(rows, p), FALSE}]

\* (mistake: the test for a conflict left out)
SkipUpload_Conflicting(e, p, read) ==
  /\ read.synced
  /\ \/ rows[p].stamp = seen[e][p]
     \/ rows[p].link = NoLink
     \/ byPath[e][p] = NoLink

\* (mistake: the test for a row without a link left out)
SkipUpload_Linkless(e, p, read) ==
  \/ read.conflict
  \/ /\ read.synced
     /\ \/ rows[p].stamp = seen[e][p]
        \/ byPath[e][p] = NoLink

\* The early `continue`s: in conflict, unchanged since it was recorded, a
\* synced row without a link, or a modified file the snapshot did not list.
SkipUpload(e, p, read) ==
  \/ read.conflict
  \/ /\ read.synced
     /\ \/ rows[p].stamp = seen[e][p]
        \/ rows[p].link = NoLink
        \/ byPath[e][p] = NoLink

VisitSkipped(e, p) ==
  /\ pc[e] = "uploads"
  /\ seen[e][p] # 0
  /\ \E read \in Reads(p) : SkipUpload(e, p, read)
  /\ seen' = [seen EXCEPT ![e][p] = 0]
  /\ UNCHANGED <<local, remote, clock, rows, uploaded,
                 pc, todo, byPath, cur, visit, up, resolver>>

\* Modified: a revision of the row's link.  (It is encrypted to the node key
\* of the snapshot's entry for the path, be it that link or not; keys are left
\* out here.)
BeginRevision(e, p) ==
  /\ pc[e] = "uploads"
  /\ seen[e][p] # 0
  /\ \E read \in Reads(p) : read.synced /\ ~SkipUpload(e, p, read)
  /\ seen' = [seen EXCEPT ![e][p] = 0]
  /\ up' = [up EXCEPT ![e] = {[path |-> p, link |-> rows[p].link, stamp |-> seen[e][p],
                               content |-> 0, blind |-> FALSE]}]
  /\ pc' = [pc EXCEPT ![e] = "read"]
  /\ UNCHANGED <<local, remote, clock, rows, uploaded,
                 todo, byPath, cur, visit, resolver>>

\* Neither read stops the file from being sent as a new one.
ReadAsNew(e, p, blind) ==
  \E read \in Reads(p) :
    /\ ~read.synced /\ ~SkipUpload(e, p, read)
    /\ blind = (rows[p].state = "conflict" /\ ~read.conflict)

\* (mistake: take the link that has the name already for the new one)
CreateLink_Reused(e, p, l, blind) ==
  /\ pc[e] = "uploads"
  /\ seen[e][p] # 0
  /\ ReadAsNew(e, p, blind)
  /\ \/ remote[l].status = "unused"
     \/ Listed(l) /\ remote[l].path = p
  /\ remote' = [remote EXCEPT ![l] = [@ EXCEPT !.status = "draft",
                                               !.path = p]]
  /\ seen' = [seen EXCEPT ![e][p] = 0]
  /\ up' = [up EXCEPT ![e] = {[path |-> p, link |-> l, stamp |-> seen[e][p],
                               content |-> 0, blind |-> blind]}]
  /\ pc' = [pc EXCEPT ![e] = "read"]
  /\ UNCHANGED <<local, clock, rows, uploaded,
                 todo, byPath, cur, visit, resolver>>

\* Not known as synced: a new link.  The server may refuse (RejectLink), as it may
\* for a name that exists already.
CreateLink(e, p, l, blind) ==
  /\ pc[e] = "uploads"
  /\ seen[e][p] # 0
  /\ ReadAsNew(e, p, blind)
  /\ remote[l].status = "unused"
  /\ remote' = [remote EXCEPT ![l] = [@ EXCEPT !.status = "draft",
                                               !.path = p]]
  /\ seen' = [seen EXCEPT ![e][p] = 0]
  /\ up' = [up EXCEPT ![e] = {[path |-> p, link |-> l, stamp |-> seen[e][p],
                               content |-> 0, blind |-> blind]}]
  /\ pc' = [pc EXCEPT ![e] = "read"]
  /\ UNCHANGED <<local, clock, rows, uploaded,
                 todo, byPath, cur, visit, resolver>>

\* (mistake: retry the file at once instead of going on to the next)
RejectLink_Retried(e, p) ==
  /\ pc[e] = "uploads"
  /\ seen[e][p] # 0
  /\ \E blind \in BOOLEAN : ReadAsNew(e, p, blind)
  /\ UNCHANGED vars

RejectLink(e, p) ==
  /\ pc[e] = "uploads"
  /\ seen[e][p] # 0
  /\ \E blind \in BOOLEAN : ReadAsNew(e, p, blind)
  /\ seen' = [seen EXCEPT ![e][p] = 0]
  /\ UNCHANGED <<local, remote, clock, rows, uploaded,
                 pc, todo, byPath, cur, visit, up, resolver>>

\* tokio::fs::read: the content is the one of now, the stamp that of the walk.
ReadContent(e) ==
  /\ pc[e] = "read"
  /\ \E u \in up[e] :
       /\ local[u.path] # 0
       /\ up' = [up EXCEPT ![e] = {[u EXCEPT !.content = local[u.path]]}]
  /\ pc' = [pc EXCEPT ![e] = "send"]
  /\ UNCHANGED <<local, remote, clock, rows, uploaded,
                 todo, byPath, cur, seen, visit, resolver>>

\* (mistake: put the file back to try it again in this pass)
AbandonUpload_Again(e) ==
  /\ pc[e] \in {"read", "send"}
  /\ pc' = [pc EXCEPT ![e] = "uploads"]
  /\ \E u \in up[e] : seen' = [seen EXCEPT ![e][u.path] = local[u.path]]
  /\ up' = [up EXCEPT ![e] = {}]
  /\ UNCHANGED <<local, remote, clock, rows, uploaded,
                 todo, byPath, cur, visit, resolver>>

\* (mistake: report the error but go on to the row's update)
AbandonUpload_Recorded(e) ==
  /\ pc[e] \in {"read", "send"}
  /\ pc' = [pc EXCEPT ![e] = "record"]
  /\ UNCHANGED <<local, remote, clock, rows, uploaded,
                 todo, byPath, cur, seen, visit, up, resolver>>

\* An error of any call on the way: the draft and the row stay as they are.
AbandonUpload(e) ==
  /\ pc[e] \in {"read", "send"}
  /\ pc' = [pc EXCEPT ![e] = "uploads"]
  /\ up' = [up EXCEPT ![e] = {}]
  /\ UNCHANGED <<local, remote, clock, rows, uploaded,
                 todo, byPath, cur, seen, visit, resolver>>

\* create_revision, the blocks, complete_revision.  Which blocks the server has is
\* left out: the revision is completed though one failed.  The server's
\* modification time is that of the file when both fall in the same second, else
\* a new one.
Complete(e, u, stm) ==
  /\ remote[u.link].status \in {"draft", "active"}
  /\ remote' = [remote EXCEPT ![u.link] =
                  [@ EXCEPT !.status = "active", !.stamp = stm,
                            !.own = u.content]]
  /\ uploaded' = uploaded \cup {<<u.path, u.link, u.content>>}
  /\ clock' = IF stm = u.stamp THEN clock ELSE stm

CompletionStamps(u) ==
  {t \in {u.stamp, clock + 1} : IF t = u.stamp THEN u.content = u.stamp
                                               ELSE t <= MaxClock}

CompleteRevision(e) ==
  /\ pc[e] = "send"
  /\ \E u \in up[e] :
       \E stm \in CompletionStamps(u) : Complete(e, u, stm)
  /\ pc' = [pc EXCEPT ![e] = "record"]
  /\ UNCHANGED <<local, rows,
                 todo, byPath, cur, seen, visit, up, resolver>>

\* The server completes the revision but its answer is lost or is an error.
LoseCompletion(e) ==
  /\ pc[e] = "send"
  /\ \E u \in up[e] :
       \E stm \in CompletionStamps(u) : Complete(e, u, stm)
  /\ pc' = [pc EXCEPT ![e] = "uploads"]
  /\ up' = [up EXCEPT ![e] = {}]
  /\ UNCHANGED <<local, rows,
                 todo, byPath, cur, seen, visit, resolver>>

\* (mistake: record the stamp the file has once it is uploaded)
RecordUpload_StampNow(e) ==
  /\ pc[e] = "record"
  /\ \E u \in up[e] : TryUpsert(u.path, u.link, local[u.path], "synced")
  /\ pc' = [pc EXCEPT ![e] = "uploads"]
  /\ up' = [up EXCEPT ![e] = {}]
  /\ UNCHANGED <<local, remote, clock, uploaded,
                 todo, byPath, cur, seen, visit, resolver>>

RecordUpload(e) ==
  /\ pc[e] = "record"
  /\ \E u \in up[e] : TryUpsert(u.path, u.link, u.stamp, "synced")
  /\ pc' = [pc EXCEPT ![e] = "uploads"]
  /\ up' = [up EXCEPT ![e] = {}]
  /\ UNCHANGED <<local, remote, clock, uploaded,
                 todo, byPath, cur, seen, visit, resolver>>

-----------------------------------------------------------------------------
(* drive.resolve, one request at a time; a crash of the daemon *)

\* The checks on the row; the session is fetched next, so the row may be
\* stale when it is written back.  Strategy "remote" has no step: it builds
\* a keyring with the share and root keys only, and download_file fails.
ChooseResolution(p, strategy) ==
  /\ resolver = {}
  /\ rows[p].state = "conflict"
  /\ rows[p].link # NoLink
  /\ resolver' = {[path |-> p, row |-> rows[p], strategy |-> strategy,
                   at |-> "chosen"]}
  /\ UNCHANGED <<local, remote, clock, rows, uploaded, engineVars>>

ResolveLocal ==
  /\ \E r \in resolver :
       /\ r.strategy = "local"
       /\ rows' = Upsert(rows, r.path, r.row.link, r.row.stamp, "pending")
  /\ resolver' = {}
  /\ UNCHANGED <<local, remote, clock, uploaded, engineVars>>

\* The request's relative path is given to rename() as it is, that is,
\* relative to the daemon's working directory.
RenameLocal ==
  /\ \E r \in resolver :
       /\ r.strategy = "rename_local"
       /\ r.at = "chosen"
       /\ IF CwdIsBase
          THEN /\ local[r.path] # 0
               /\ local' = [local EXCEPT ![r.path] = 0,
                                         ![Conflicted(r.path)] = local[r.path]]
          ELSE UNCHANGED local
       /\ resolver' = {[r EXCEPT !.at = "moved"]}
  /\ UNCHANGED <<remote, clock, rows, uploaded, engineVars>>

RenamePending ==
  /\ \E r \in resolver :
       /\ r.at = "moved"
       /\ rows' = Upsert(rows, r.path, r.row.link, r.row.stamp, "pending")
       /\ resolver' = {[r EXCEPT !.at = "pending"]}
  /\ UNCHANGED <<local, remote, clock, uploaded, engineVars>>

RenameRecord ==
  /\ \E r \in resolver :
       /\ r.at = "pending"
       /\ rows' = Upsert(rows, Conflicted(r.path), NoLink, 0, "synced")
  /\ resolver' = {}
  /\ UNCHANGED <<local, remote, clock, uploaded, engineVars>>

\* Not logged in, or the rename or a row's update failed.
ResolveFails ==
  /\ resolver # {}
  /\ resolver' = {}
  /\ UNCHANGED <<local, remote, clock, rows, uploaded, engineVars>>

\* The process dies; the database, the disk and the server keep their state.
Crash ==
  /\ \E e \in Engines : pc[e] # "idle"
  /\ pc' = [e \in Engines |-> "idle"]
  /\ todo' = [e \in Engines |-> {}]
  /\ byPath' = [e \in Engines |-> NothingByPath]
  /\ cur' = [e \in Engines |-> {}]
  /\ seen' = [e \in Engines |-> NoStamps]
  /\ visit' = [e \in Engines |-> {}]
  /\ up' = [e \in Engines |-> {}]
  /\ resolver' = {}
  /\ UNCHANGED <<local, remote, clock, rows, uploaded>>

-----------------------------------------------------------------------------
\* The steps of a pass under way.
PassStep(e) ==
  \/ \E x \in todo[e] : CompareRemote(e, x)
  \/ StatLocal(e)
  \/ MarkConflict(e)
  \/ MarkPending(e)
  \/ StartWalk(e)
  \/ \E p \in Paths : WalkFile(e, p)
  \/ StartUploads(e)
  \/ WalkFails(e)
  \/ FinishPass(e)
  \/ Stall(e)
  \/ \E p \in Paths : VisitSkipped(e, p)
  \/ \E p \in Paths : BeginRevision(e, p)
  \/ \E p \in Paths, l \in Links, blind \in BOOLEAN : CreateLink(e, p, l, blind)
  \/ \E p \in Paths : RejectLink(e, p)
  \/ ReadContent(e)
  \/ AbandonUpload(e)
  \/ CompleteRevision(e)
  \/ LoseCompletion(e)
  \/ RecordUpload(e)

Environment ==
  \/ \E p \in Paths : UserEdit(p)
  \/ \E p \in Paths : UserDelete(p)
  \/ \E l \in Links, p \in Paths : OtherUpload(l, p)
  \/ \E l \in Links, p \in Paths : OtherMove(l, p)
  \/ \E l \in Links : OtherDelete(l)

Resolve ==
  \/ \E p \in Paths, s \in Strategies : ChooseResolution(p, s)
  \/ ResolveLocal
  \/ RenameLocal
  \/ RenamePending
  \/ RenameRecord
  \/ ResolveFails

Next ==
  \/ \E e \in Engines : StartPass(e) \/ PassStep(e)
  \/ Environment
  \/ Resolve
  \/ Crash

Spec == Init /\ [][Next]_vars

\* The runtime polls a pass whenever what it waits for has come: a file, a call
\* of the database, or an answer.  That an answer may never come is Stall.
FairSpec == Spec /\ \A e \in Engines : WF_vars(PassStep(e))

-----------------------------------------------------------------------------
TypeOK ==
  /\ local \in [Paths -> Nat]
  /\ remote \in [Links -> Remote]
  /\ clock \in Nat
  /\ rows \in Table
  /\ uploaded \in SUBSET (Paths \X Links \X Nat)
  /\ pc \in [Engines -> Places]
  /\ todo \in [Engines -> SUBSET Entry]
  /\ byPath \in [Engines -> [Paths -> Links \cup {NoLink}]]
  /\ cur \in [Engines -> SUBSET Comparison]
  /\ seen \in [Engines -> [Paths -> Nat]]
  /\ visit \in [Engines -> SUBSET Paths]
  /\ up \in [Engines -> SUBSET Upload]
  /\ resolver \in SUBSET Resolution

-----------------------------------------------------------------------------
(* Properties *)

\* What the next pass will take for "nothing to send": a synced row that
\* carries the stamp of the file on the disk.
LooksUploaded(p) ==
  /\ rows[p].state = "synced"
  /\ rows[p].link # NoLink
  /\ local[p] # 0
  /\ rows[p].stamp = local[p]

\* An edit made while its file is walked, read and sent is never masked: the
\* upload loop skips a file (lines 786-797) only if exactly the content now on
\* the disk was completed on the link of its row.  It hangs on recording the
\* stamp of the walk and not one taken when the upload ends (lines 1013-1018).
NoMaskedEdit ==
  \A p \in Paths : LooksUploaded(p) => <<p, rows[p].link, local[p]>> \in uploaded

\* Nothing is sent from a path in conflict, unless the read that looks for the
\* conflict failed: between that check (lines 770-776) and the row's update no
\* step of this or a later pass puts the path in conflict.
NoUploadInConflict ==
  \A e \in Engines : \A u \in up[e] : ~u.blind => rows[u.path].state # "conflict"

\* The same for any number of passes: but for a failed read of the row, a path
\* comes in conflict under an upload only by another pass, which compared it with
\* the remote file, found it changed and writes the row now (lines 252-306); no
\* resolution, crash or step of the uploading pass itself does it.
OnlyOtherPassConflicts ==
  [][\A e \in Engines : \A u \in up'[e] :
       ~u.blind /\ rows'[u.path].state = "conflict" =>
         \/ rows[u.path].state = "conflict" /\ \E v \in up[e] : v.path = u.path
         \/ \E f \in Engines \ {e} :
              pc[f] = "mark" /\ \E c \in cur[f] : c.changed /\ c.entry.path = u.path]_vars

\* The content this device last gave to a link is the one its row vouches for:
\* an older content is not completed on top of a newer one that a row records.
RowMatchesLastRevision ==
  \A p \in Paths : LooksUploaded(p) => remote[rows[p].link].own = local[p]

\* A path that a resolution by rename_local may make a copy at.
MayBeCopy(p) == "rename_local" \in Strategies /\ Conflicted(p) = p

\* A link takes contents of one local path only: wherever other devices move it
\* and whatever row a move leaves its id in, a file that is not synced gets a
\* link of its own (lines 1121-1142) and a modified one the link of its row
\* (lines 803-812).  The copies of rename_local are left out, they break it: the
\* id that a move has left in the copy's row stays there, see RenameRecord.
OnePathPerLink ==
  \A x, y \in uploaded :
    x[2] = y[2] => x[1] = y[1] \/ MayBeCopy(x[1]) \/ MayBeCopy(y[1])

\* Steps of its own that a pass has before it, at most: three for an entry, one
\* for a path of the walk, four for a file that was found.
Found(e) == {p \in Paths : seen[e][p] # 0}
FilesLeft(e) == 3 * Cardinality(todo[e]) + 5 * Cardinality(Paths) + 3
StepsLeft(e) ==
  CASE pc[e] = "idle"    -> 0
    [] pc[e] = "stalled" -> 1
    [] pc[e] = "files"   -> FilesLeft(e)
    [] pc[e] = "mark"    -> FilesLeft(e) + 1
    [] pc[e] = "compare" -> FilesLeft(e) + 2
    [] pc[e] = "walk"    -> Cardinality(visit[e]) + 4 * Cardinality(Paths) + 2
    [] pc[e] = "uploads" -> 4 * Cardinality(Found(e)) + 1
    [] pc[e] = "record"  -> 4 * Cardinality(Found(e)) + 2
    [] pc[e] = "send"    -> 4 * Cardinality(Found(e)) + 3
    [] pc[e] = "read"    -> 4 * Cardinality(Found(e)) + 4

PassOf(e) == <<pc[e], todo[e], byPath[e], cur[e], seen[e], visit[e], up[e]>>

\* A pass works off what its snapshot and its walk gave it: none of the upload
\* loop's error exits puts a file back, and no edit, resolution or other pass
\* gives it more to do.  Each of its steps brings it nearer its end (lines
\* 237-327 and 740-1290).
PassNearsEnd ==
  [][\A e \in Engines : pc[e] # "idle" =>
       PassOf(e)' = PassOf(e) \/ StepsLeft(e)' < StepsLeft(e)]_vars

\* A pass ends, whatever fails in it and whatever is edited meanwhile, or waits for
\* an answer that never comes: nothing else holds it.
PassEnds ==
  \A e \in Engines : pc[e] \notin {"idle", "stalled"} ~> pc[e] \in {"idle", "stalled"}

-----------------------------------------------------------------------------
(* What the source says of itself and its steps do not keep *)

\* "Skip files in conflict state -- user must resolve first" (line 771): a path
\* leaves "conflict" in a step of the resolution only.
ConflictHeldUntilResolved ==
  [][\A p \in Paths : rows[p].state = "conflict" /\ rows'[p].state # "conflict"
                        => resolver' # resolver]_vars

\* "check if local also changed (conflict)" (line 255): a path is marked for
\* download only when its file is gone or its content is on the server.
PendingCoversNoUnsavedEdit ==
  [][\A e \in Engines : \A c \in cur[e] :
       pc[e] = "mark" /\ pc'[e] = "files" /\ rows'[c.entry.path].state = "pending" =>
         \/ local[c.entry.path] = 0
         \/ \E l \in Links : <<c.entry.path, l, local[c.entry.path]>> \in uploaded]_vars
=============================================================================
