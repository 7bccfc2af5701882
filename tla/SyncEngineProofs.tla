--------------------------- MODULE SyncEngineProofs ---------------------------
(***************************************************************************)
(* The invariants of SyncEngine: its types and NoMaskedEdit for any number *)
(* of engines, paths and links, NoUploadInConflict for one engine,         *)
(* OnePathPerLink without rename_local, RowMatchesLastRevision where both  *)
(* hold, and a bound on the steps of a pass over finitely many paths.      *)
(***************************************************************************)
EXTENDS SyncEngine, FiniteSetTheorems, TLAPS

-----------------------------------------------------------------------------
(* The inductive invariant behind NoMaskedEdit *)

\* Stamp s will never again be that of the file at p: it was handed out, it
\* is not at p, and no rename brings it back to p.
Lost(p, s) ==
  /\ s <= clock
  /\ \A q \in Paths : local[q] = s => q # p /\ Conflicted(q) # p

Held(p, s) == local[p] = s \/ Lost(p, s)

\* Stamps were handed out, and no two files share one.
StampsDistinct ==
  /\ \A p \in Paths : local[p] <= clock
  /\ \A p, q \in Paths : local[p] = local[q] /\ local[p] # 0 => p = q

WalkHeld ==
  \A e \in Engines, p \in Paths : seen[e][p] # 0 => Held(p, seen[e][p])

\* An upload that read another content than the walk saw will record a stamp
\* that is lost; a completed one is in the history.
UploadHeld ==
  \A e \in Engines : \A u \in up[e] :
    /\ u.stamp # 0
    /\ Held(u.path, u.stamp)
    /\ pc[e] \in {"send", "record"} =>
         u.content = u.stamp \/ Lost(u.path, u.stamp)
    /\ pc[e] = "record" => <<u.path, u.link, u.content>> \in uploaded

OneUpload == \A e \in Engines : \A u, v \in up[e] : u = v

RowsVouch ==
  \A p \in Paths :
    rows[p].state = "synced" /\ rows[p].link # NoLink /\ rows[p].stamp # 0 =>
      <<p, rows[p].link, rows[p].stamp>> \in uploaded \/ Lost(p, rows[p].stamp)

IInv == StampsDistinct /\ WalkHeld /\ OneUpload /\ UploadHeld /\ RowsVouch

-----------------------------------------------------------------------------
(* Type correctness *)

LEMMA UpsertType ==
  ASSUME NEW tab \in Table, NEW p \in Paths, NEW l \in Links \cup {NoLink},
         NEW s \in Nat, NEW st \in RowStates
  PROVE  Upsert(tab, p, l, s, st) \in Table
BY DEF Upsert, Table, Row

LEMMA RowsOfLinkType ==
  ASSUME NEW tab \in Table, NEW l \in Links, NEW row \in RowsOfLink(tab, l)
  PROVE  row \in Row
BY DEF RowsOfLink, Table, Row, NoRow, RowStates

LEMMA NoStampsType == NoStamps \in [Paths -> Nat]
BY DEF NoStamps

LEMMA NothingByPathType == NothingByPath \in [Paths -> Links \cup {NoLink}]
BY DEF NothingByPath

\* The work under way of one engine is replaced.
LEMMA ReplaceType ==
  ASSUME NEW S, NEW f \in [Engines -> SUBSET S], NEW e \in Engines,
         NEW x \in S
  PROVE  [f EXCEPT ![e] = {x}] \in [Engines -> SUBSET S]
OBVIOUS

LEMMA InitType == Init => TypeOK
<1> SUFFICES ASSUME Init PROVE TypeOK
  OBVIOUS
<1>1. NoRow \in Row
  BY DEF NoRow, Row, RowStates
<1>2. Unused \in Remote
  <2>1. (CHOOSE p \in Paths : TRUE) \in Paths
    BY PathsAssumption
  <2> QED BY <2>1 DEF Unused, Remote
<1> QED
  BY <1>1, <1>2, NoStampsType, NothingByPathType DEF Init, TypeOK, Table, Places

LEMMA EnvironmentType == TypeOK /\ Environment => TypeOK'
<1> SUFFICES ASSUME TypeOK, Environment PROVE TypeOK'
  OBVIOUS
<1> USE DEF TypeOK, engineVars
<1>1. ASSUME NEW p \in Paths, UserEdit(p) PROVE TypeOK'
  BY <1>1 DEF UserEdit
<1>2. ASSUME NEW p \in Paths, UserDelete(p) PROVE TypeOK'
  BY <1>2 DEF UserDelete
<1>3. ASSUME NEW l \in Links, NEW p \in Paths, OtherUpload(l, p) PROVE TypeOK'
  BY <1>3 DEF OtherUpload, Remote
<1>4. ASSUME NEW l \in Links, NEW p \in Paths, OtherMove(l, p) PROVE TypeOK'
  BY <1>4 DEF OtherMove, Remote
<1>5. ASSUME NEW l \in Links, OtherDelete(l) PROVE TypeOK'
  BY <1>5 DEF OtherDelete, Remote
<1> QED
  BY <1>1, <1>2, <1>3, <1>4, <1>5 DEF Environment

LEMMA ResolveType == TypeOK /\ Resolve => TypeOK'
<1> SUFFICES ASSUME TypeOK, Resolve PROVE TypeOK'
  OBVIOUS
<1> USE DEF TypeOK, engineVars
<1>1. ASSUME NEW p \in Paths, NEW s \in Strategies, ChooseResolution(p, s)
      PROVE  TypeOK'
  BY <1>1, StrategiesAssumption DEF ChooseResolution, Resolution, Table
<1>2. CASE ResolveLocal
  <2>1. PICK r \in resolver :
          rows' = Upsert(rows, r.path, r.row.link, r.row.stamp, "pending")
    BY <1>2 DEF ResolveLocal
  <2>2. rows' \in Table
    BY <2>1, UpsertType DEF Resolution, Row, RowStates
  <2> QED BY <1>2, <2>2 DEF ResolveLocal
<1>3. CASE RenameLocal
  <2>1. PICK r \in resolver :
          /\ \/ UNCHANGED local
             \/ local' = [local EXCEPT ![r.path] = 0,
                                       ![Conflicted(r.path)] = local[r.path]]
          /\ resolver' = {[r EXCEPT !.at = "moved"]}
    BY <1>3 DEF RenameLocal
  <2>2. r.path \in Paths /\ Conflicted(r.path) \in Paths
    BY ConflictedAssumption DEF Resolution
  <2>3. local' \in [Paths -> Nat]
    BY <2>1, <2>2
  <2>4. resolver' \in SUBSET Resolution
    BY <2>1 DEF Resolution
  <2> QED BY <1>3, <2>3, <2>4 DEF RenameLocal
<1>4. CASE RenamePending
  <2>1. PICK r \in resolver :
          /\ rows' = Upsert(rows, r.path, r.row.link, r.row.stamp, "pending")
          /\ resolver' = {[r EXCEPT !.at = "pending"]}
    BY <1>4 DEF RenamePending
  <2>2. rows' \in Table
    BY <2>1, UpsertType DEF Resolution, Row, RowStates
  <2>3. resolver' \in SUBSET Resolution
    BY <2>1 DEF Resolution
  <2> QED BY <1>4, <2>2, <2>3 DEF RenamePending
<1>5. CASE RenameRecord
  <2>1. PICK r \in resolver :
          rows' = Upsert(rows, Conflicted(r.path), NoLink, 0, "synced")
    BY <1>5 DEF RenameRecord
  <2>2. rows' \in Table
    BY <2>1, UpsertType, ConflictedAssumption DEF Resolution, RowStates
  <2> QED BY <1>5, <2>2 DEF RenameRecord
<1>6. CASE ResolveFails
  BY <1>6 DEF ResolveFails
<1> QED
  BY <1>1, <1>2, <1>3, <1>4, <1>5, <1>6 DEF Resolve

LEMMA PassStepType ==
  ASSUME TypeOK, NEW e \in Engines, PassStep(e)
  PROVE  TypeOK'
<1> USE DEF TypeOK
<1>1. ASSUME NEW x \in todo[e], CompareRemote(e, x) PROVE TypeOK'
  <2>1. PICK row \in RowsOfLink(rows, x.link) \cup {NoRow} :
          \/ UNCHANGED <<pc, cur>>
          \/ /\ \E w \in {"mark", "compare"} : pc' = [pc EXCEPT ![e] = w]
             /\ cur' = [cur EXCEPT ![e] =
                          {[entry |-> x, row |-> row, changed |-> FALSE]}]
    BY <1>1 DEF CompareRemote
  <2>2. x \in Entry /\ row \in Row
    BY RowsOfLinkType DEF Entry, NoRow, Row, RowStates
  <2>3. [entry |-> x, row |-> row, changed |-> FALSE] \in Comparison
    BY <2>2 DEF Comparison
  <2>4. todo' \in [Engines -> SUBSET Entry]
    BY <1>1 DEF CompareRemote
  <2> DEFINE d == [entry |-> x, row |-> row, changed |-> FALSE]
  <2>5. cur' \in [Engines -> SUBSET Comparison]
    <3>1. d \in Comparison /\ (cur' = cur \/ cur' = [cur EXCEPT ![e] = {d}])
      BY <2>1, <2>3
    <3> HIDE DEF d
    <3> QED BY <3>1, ReplaceType
  <2>6. pc' \in [Engines -> Places]
    BY <2>1 DEF Places
  <2> QED BY <1>1, <2>4, <2>5, <2>6 DEF CompareRemote
<1>2. CASE MarkConflict(e)
  <2>1. PICK c \in cur[e] :
          TryUpsert(c.entry.path, c.entry.link, c.entry.stamp, "conflict")
    BY <1>2 DEF MarkConflict
  <2>2. rows' \in Table
    BY <2>1, UpsertType DEF Comparison, Entry, RowStates, TryUpsert
  <2> QED BY <1>2, <2>2 DEF MarkConflict, Places
<1>3. CASE MarkPending(e)
  <2>1. PICK c \in cur[e] :
          TryUpsert(c.entry.path, c.entry.link, c.entry.stamp, "pending")
    BY <1>3 DEF MarkPending
  <2>2. rows' \in Table
    BY <2>1, UpsertType DEF Comparison, Entry, RowStates, TryUpsert
  <2> QED BY <1>3, <2>2 DEF MarkPending, Places
<1>4. CASE StatLocal(e)
  <2>1. PICK c \in cur[e], b \in BOOLEAN :
          cur' = [cur EXCEPT ![e] = {[c EXCEPT !.changed = b]}]
    BY <1>4 DEF StatLocal, LocalChanged
  <2> DEFINE d == [c EXCEPT !.changed = b]
  <2>2. d \in Comparison
    BY DEF Comparison
  <2>3. cur' = [cur EXCEPT ![e] = {d}]
    BY <2>1
  <2> HIDE DEF d
  <2>4. cur' \in [Engines -> SUBSET Comparison]
    BY <2>2, <2>3, ReplaceType
  <2> QED BY <1>4, <2>4 DEF StatLocal, Places
<1>5. CASE StartWalk(e)
  BY <1>5 DEF StartWalk, Places
<1>6. ASSUME NEW p \in Paths, WalkFile(e, p) PROVE TypeOK'
  BY <1>6 DEF WalkFile
<1>7. CASE StartUploads(e)
  BY <1>7 DEF StartUploads, Places
<1>8. CASE WalkFails(e)
  BY <1>8, NoStampsType, NothingByPathType DEF WalkFails, LeavePass, Places
<1>9. CASE FinishPass(e)
  BY <1>9, NoStampsType, NothingByPathType DEF FinishPass, LeavePass, Places
<1>20. CASE Stall(e)
  BY <1>20, NoStampsType, NothingByPathType DEF Stall, LeavePass, Places
<1>10. ASSUME NEW p \in Paths, VisitSkipped(e, p) PROVE TypeOK'
  BY <1>10 DEF VisitSkipped
<1>11. ASSUME NEW p \in Paths, BeginRevision(e, p) PROVE TypeOK'
  <2>1. rows[p].link \in Links
    BY <1>11 DEF BeginRevision, SkipUpload, Table, Row
  <2> DEFINE u == [path |-> p, link |-> rows[p].link, stamp |-> seen[e][p],
                   content |-> 0, blind |-> FALSE]
  <2>2. u \in Upload
    BY <2>1 DEF Upload
  <2>3. up' = [up EXCEPT ![e] = {u}]
    BY <1>11 DEF BeginRevision
  <2> HIDE DEF u
  <2>4. up' \in [Engines -> SUBSET Upload]
    BY <2>2, <2>3, ReplaceType
  <2> QED BY <1>11, <2>4 DEF BeginRevision, Places
<1>12. ASSUME NEW p \in Paths, NEW l \in Links, NEW b \in BOOLEAN, CreateLink(e, p, l, b)
       PROVE  TypeOK'
  <2> DEFINE r == [remote[l] EXCEPT !.status = "draft", !.path = p]
  <2>a. remote' = [remote EXCEPT ![l] = r]
    BY <1>12 DEF CreateLink
  <2>b. r \in Remote
    <3>1. remote[l] \in Remote
      OBVIOUS
    <3> QED BY <3>1 DEF Remote
  <2> HIDE DEF r
  <2>1. remote' \in [Links -> Remote]
    BY <2>a, <2>b
  <2> DEFINE u == [path |-> p, link |-> l, stamp |-> seen[e][p],
                   content |-> 0, blind |-> b]
  <2>2. u \in Upload
    BY DEF Upload
  <2>3. up' = [up EXCEPT ![e] = {u}]
    BY <1>12 DEF CreateLink
  <2> HIDE DEF u
  <2>4. up' \in [Engines -> SUBSET Upload]
    BY <2>2, <2>3, ReplaceType
  <2> QED BY <1>12, <2>1, <2>4 DEF CreateLink, Places
<1>13. ASSUME NEW p \in Paths, RejectLink(e, p) PROVE TypeOK'
  BY <1>13 DEF RejectLink
<1>14. CASE ReadContent(e)
  <2>1. PICK u \in up[e] :
          up' = [up EXCEPT ![e] = {[u EXCEPT !.content = local[u.path]]}]
    BY <1>14 DEF ReadContent
  <2> DEFINE v == [u EXCEPT !.content = local[u.path]]
  <2>2. v \in Upload
    <3>1. u \in Upload /\ local[u.path] \in Nat
      BY DEF Upload
    <3> QED BY <3>1 DEF Upload
  <2>4. up' = [up EXCEPT ![e] = {v}]
    BY <2>1
  <2> HIDE DEF v
  <2>3. up' \in [Engines -> SUBSET Upload]
    BY <2>2, <2>4, ReplaceType
  <2> QED BY <1>14, <2>3 DEF ReadContent, Places
<1>15. CASE AbandonUpload(e)
  BY <1>15 DEF AbandonUpload, Places
<1>16. ASSUME NEW u \in up[e], NEW stm \in CompletionStamps(u), Complete(e, u, stm)
       PROVE  /\ remote' \in [Links -> Remote]
              /\ uploaded' \in SUBSET (Paths \X Links \X Nat)
              /\ clock' \in Nat
  <2>1. u \in Upload /\ stm \in Nat
    BY DEF CompletionStamps, Upload
  <2> DEFINE r == [remote[u.link] EXCEPT !.status = "active", !.stamp = stm,
                     !.own = u.content]
  <2>2. r \in Remote
    <3>1. remote[u.link] \in Remote /\ u.content \in Nat
      BY <2>1 DEF Upload
    <3> QED BY <2>1, <3>1 DEF Remote
  <2>3. remote' = [remote EXCEPT ![u.link] = r]
    BY <1>16 DEF Complete
  <2> HIDE DEF r
  <2>4. remote' \in [Links -> Remote]
    BY <2>2, <2>3
  <2>5. uploaded' \in SUBSET (Paths \X Links \X Nat)
    BY <1>16, <2>1 DEF Complete, Upload
  <2> QED BY <1>16, <2>1, <2>4, <2>5 DEF Complete
<1>17. CASE CompleteRevision(e)
  BY <1>16, <1>17 DEF CompleteRevision, Places
<1>18. CASE LoseCompletion(e)
  BY <1>16, <1>18 DEF LoseCompletion, Places
<1>19. CASE RecordUpload(e)
  <2>1. PICK u \in up[e] : TryUpsert(u.path, u.link, u.stamp, "synced")
    BY <1>19 DEF RecordUpload
  <2>2. rows' \in Table
    BY <2>1, UpsertType DEF Upload, RowStates, TryUpsert
  <2> QED BY <1>19, <2>2 DEF RecordUpload, Places
<1> QED
  BY <1>1, <1>2, <1>3, <1>4, <1>5, <1>6, <1>7, <1>8, <1>9, <1>10, <1>11,
     <1>12, <1>13, <1>14, <1>15, <1>17, <1>18, <1>19, <1>20 DEF PassStep

LEMMA NextType == TypeOK /\ [Next]_vars => TypeOK'
<1> SUFFICES ASSUME TypeOK, [Next]_vars PROVE TypeOK'
  OBVIOUS
<1>1. ASSUME NEW e \in Engines, StartPass(e) PROVE TypeOK'
  <2>1. Listing \in SUBSET Entry
    BY DEF Listing, Entry, TypeOK, Remote
  <2>2. \A f \in ByPathMaps : f \in [Paths -> Links \cup {NoLink}]
    BY DEF ByPathMaps
  <2> QED BY <1>1, <2>1, <2>2 DEF StartPass, TypeOK, Places
<1>2. CASE Crash
  BY <1>2, NoStampsType, NothingByPathType DEF Crash, TypeOK, Places
<1>3. CASE UNCHANGED vars
  BY <1>3 DEF vars, engineVars, TypeOK
<1> QED
  BY <1>1, <1>2, <1>3, PassStepType, EnvironmentType, ResolveType DEF Next

\* Every variable keeps to its type, whatever the engines, the handler, the
\* user and the other devices do.
THEOREM TypeCorrect == Spec => []TypeOK
<1> QED BY InitType, NextType, PTL DEF Spec

-----------------------------------------------------------------------------
(* How a step can change the disk *)

Edited(p) == clock' = clock + 1 /\ local' = [local EXCEPT ![p] = clock + 1]

Deleted(p) == clock' = clock /\ local' = [local EXCEPT ![p] = 0]

Renamed(p) ==
  clock' = clock /\ local' = [local EXCEPT ![p] = 0, ![Conflicted(p)] = local[p]]

DiskStep ==
  \/ local' = local /\ clock' \in Nat /\ clock <= clock'
  \/ \E p \in Paths : Edited(p) \/ Deleted(p) \/ Renamed(p)

LEMMA DiskStepStable ==
  ASSUME TypeOK, StampsDistinct, DiskStep
  PROVE  /\ StampsDistinct'
         /\ \A p \in Paths, s \in Nat \ {0} : Lost(p, s) => Lost(p, s)'
         /\ \A p \in Paths, s \in Nat \ {0} : Held(p, s) => Held(p, s)'
<1>0. local \in [Paths -> Nat] /\ clock \in Nat
  BY DEF TypeOK
<1> USE DEF StampsDistinct, Held, Lost
<1>1. CASE local' = local /\ clock' \in Nat /\ clock <= clock'
  BY <1>0, <1>1
<1>2. ASSUME NEW r \in Paths, Edited(r)
      PROVE  /\ StampsDistinct'
             /\ \A p \in Paths, s \in Nat \ {0} : Lost(p, s) => Lost(p, s)'
             /\ \A p \in Paths, s \in Nat \ {0} : Held(p, s) => Held(p, s)'
  <2>1. \A q \in Paths : local'[q] = IF q = r THEN clock + 1 ELSE local[q]
    BY <1>0, <1>2 DEF Edited
  <2>2. clock' = clock + 1
    BY <1>2 DEF Edited
  <2>3. StampsDistinct'
    BY <1>0, <2>1, <2>2
  <2>4. ASSUME NEW p \in Paths, NEW s \in Nat \ {0}, Lost(p, s)
        PROVE  Lost(p, s)'
    BY <1>0, <2>1, <2>2, <2>4
  <2>5. ASSUME NEW p \in Paths, NEW s \in Nat \ {0}, local[p] = s
        PROVE  Held(p, s)'
    BY <1>0, <2>1, <2>2, <2>5
  <2> QED BY <2>3, <2>4, <2>5
<1>3. ASSUME NEW r \in Paths, Deleted(r)
      PROVE  /\ StampsDistinct'
             /\ \A p \in Paths, s \in Nat \ {0} : Lost(p, s) => Lost(p, s)'
             /\ \A p \in Paths, s \in Nat \ {0} : Held(p, s) => Held(p, s)'
  <2>1. \A q \in Paths : local'[q] = IF q = r THEN 0 ELSE local[q]
    BY <1>0, <1>3 DEF Deleted
  <2>2. clock' = clock
    BY <1>3 DEF Deleted
  <2>3. StampsDistinct'
    BY <1>0, <2>1, <2>2
  <2>4. ASSUME NEW p \in Paths, NEW s \in Nat \ {0}, Lost(p, s)
        PROVE  Lost(p, s)'
    BY <1>0, <2>1, <2>2, <2>4
  <2>5. ASSUME NEW p \in Paths, NEW s \in Nat \ {0}, local[p] = s
        PROVE  Held(p, s)'
    BY <1>0, <2>1, <2>2, <2>5
  <2> QED BY <2>3, <2>4, <2>5
<1>4. ASSUME NEW r \in Paths, Renamed(r)
      PROVE  /\ StampsDistinct'
             /\ \A p \in Paths, s \in Nat \ {0} : Lost(p, s) => Lost(p, s)'
             /\ \A p \in Paths, s \in Nat \ {0} : Held(p, s) => Held(p, s)'
  <2>0. Conflicted(r) \in Paths /\ Conflicted(Conflicted(r)) = Conflicted(r)
    BY ConflictedAssumption
  <2>1. \A q \in Paths : local'[q] = IF q = Conflicted(r) THEN local[r]
                                     ELSE IF q = r THEN 0 ELSE local[q]
    BY <1>0, <1>4, <2>0 DEF Renamed
  <2>2. clock' = clock
    BY <1>4 DEF Renamed
  <2>3. StampsDistinct'
    BY <1>0, <2>0, <2>1, <2>2
  <2>4. ASSUME NEW p \in Paths, NEW s \in Nat \ {0}, Lost(p, s)
        PROVE  Lost(p, s)'
    BY <1>0, <2>0, <2>1, <2>2, <2>4
  <2>5. ASSUME NEW p \in Paths, NEW s \in Nat \ {0}, local[p] = s
        PROVE  Held(p, s)'
    BY <1>0, <2>0, <2>1, <2>2, <2>5
  <2> QED BY <2>3, <2>4, <2>5
<1> QED
  BY <1>1, <1>2, <1>3, <1>4 DEF DiskStep

LEMMA NextIsDiskStep == TypeOK /\ [Next]_vars => DiskStep
<1> SUFFICES ASSUME TypeOK, [Next]_vars PROVE DiskStep
  OBVIOUS
<1>0. clock \in Nat
  BY DEF TypeOK
<1> USE DEF DiskStep
<1>1. CASE Environment
  BY <1>0, <1>1 DEF Environment, UserEdit, UserDelete, OtherUpload, OtherMove,
                    OtherDelete, Edited, Deleted
<1>2. CASE Resolve
  <2>1. CASE RenameLocal
    BY <1>0, <2>1 DEF RenameLocal, Renamed, TypeOK, Resolution
  <2>2. CASE ~RenameLocal
    BY <1>0, <1>2, <2>2 DEF Resolve, ChooseResolution, ResolveLocal,
                            RenamePending, RenameRecord, ResolveFails
  <2> QED BY <2>1, <2>2
<1>3. ASSUME NEW e \in Engines, StartPass(e) \/ PassStep(e) PROVE DiskStep
  <2>1. ASSUME NEW u \in up[e], NEW t \in CompletionStamps(u),
               Complete(e, u, t)
        PROVE  clock' \in Nat /\ clock <= clock'
    BY <1>0, <2>1 DEF CompletionStamps, Complete
  <2>2. CASE CompleteRevision(e) \/ LoseCompletion(e)
    BY <2>1, <2>2 DEF CompleteRevision, LoseCompletion
  <2>3. ASSUME \/ StartPass(e) \/ \E x \in todo[e] : CompareRemote(e, x)
               \/ MarkConflict(e) \/ MarkPending(e) \/ StatLocal(e)
        PROVE  UNCHANGED <<local, clock>>
    BY <2>3 DEF StartPass, CompareRemote, MarkConflict, MarkPending,
                StatLocal
  <2>4. ASSUME \/ StartWalk(e) \/ \E p \in Paths : WalkFile(e, p)
               \/ StartUploads(e) \/ WalkFails(e) \/ FinishPass(e) \/ Stall(e)
        PROVE  UNCHANGED <<local, clock>>
    BY <2>4 DEF StartWalk, WalkFile, StartUploads, WalkFails, FinishPass, Stall
  <2>5. ASSUME \/ \E p \in Paths : VisitSkipped(e, p)
               \/ \E p \in Paths : BeginRevision(e, p)
               \/ \E p \in Paths, l \in Links, b \in BOOLEAN : CreateLink(e, p, l, b)
               \/ \E p \in Paths : RejectLink(e, p)
        PROVE  UNCHANGED <<local, clock>>
    BY <2>5 DEF VisitSkipped, BeginRevision, CreateLink, RejectLink
  <2>6. ASSUME ReadContent(e) \/ AbandonUpload(e) \/ RecordUpload(e)
        PROVE  UNCHANGED <<local, clock>>
    BY <2>6 DEF ReadContent, AbandonUpload, RecordUpload
  <2>7. CASE UNCHANGED <<local, clock>>
    BY <1>0, <2>7
  <2> QED BY <1>3, <2>2, <2>3, <2>4, <2>5, <2>6, <2>7 DEF PassStep
<1>4. CASE Crash \/ UNCHANGED vars
  BY <1>0, <1>4 DEF Crash, vars
<1> QED
  BY <1>1, <1>2, <1>3, <1>4 DEF Next

-----------------------------------------------------------------------------
(* NoMaskedEdit *)

LEMMA InitInv == Init => IInv
BY DEF Init, IInv, StampsDistinct, WalkHeld, OneUpload, UploadHeld, RowsVouch,
       NoStamps, NoRow

\* The facts about the disk that a step hands to the next state.
LEMMA HeldCarriedOver ==
  ASSUME TypeOK, IInv, [Next]_vars
  PROVE  /\ StampsDistinct'
         /\ \A p \in Paths, s \in Nat \ {0} : Lost(p, s) => Lost(p, s)'
         /\ \A p \in Paths, s \in Nat \ {0} : Held(p, s) => Held(p, s)'
BY NextIsDiskStep, DiskStepStable DEF IInv

\* What a step can do to the stamps an engine's walk has found.
LEMMA SeenStep ==
  ASSUME TypeOK, [Next]_vars, NEW e \in Engines, NEW p \in Paths
  PROVE  \/ seen'[e][p] \in {0, seen[e][p]}
         \/ seen'[e][p] = local[p] /\ UNCHANGED local
<1>t. seen \in [Engines -> [Paths -> Nat]]
  BY DEF TypeOK
<1>1. CASE Environment
  BY <1>1 DEF Environment, UserEdit, UserDelete, OtherUpload, OtherMove,
              OtherDelete, engineVars
<1>2. CASE Resolve
  BY <1>2 DEF Resolve, ChooseResolution, ResolveLocal, RenameLocal,
              RenamePending, RenameRecord, ResolveFails, engineVars
<1>3. ASSUME NEW f \in Engines, StartPass(f) \/ PassStep(f)
      PROVE  \/ seen'[e][p] \in {0, seen[e][p]}
             \/ seen'[e][p] = local[p] /\ UNCHANGED local
  <2>1. ASSUME NEW q \in Paths, WalkFile(f, q)
        PROVE  \/ seen'[e][p] \in {0, seen[e][p]}
               \/ seen'[e][p] = local[p] /\ UNCHANGED local
    BY <1>t, <2>1 DEF WalkFile
  <2>2. ASSUME WalkFails(f) \/ FinishPass(f) \/ Stall(f)
        PROVE  seen'[e][p] \in {0, seen[e][p]}
    BY <1>t, <2>2 DEF WalkFails, FinishPass, Stall, LeavePass, NoStamps
  <2>3. ASSUME NEW q \in Paths, NEW l \in Links,
               \/ \E b \in BOOLEAN : CreateLink(f, q, l, b)
        PROVE  seen'[e][p] \in {0, seen[e][p]}
    <3>1. seen' = [seen EXCEPT ![f][q] = 0]
      BY <2>3 DEF CreateLink
    <3> QED BY <1>t, <3>1
  <2>4. ASSUME NEW q \in Paths,
               VisitSkipped(f, q) \/ BeginRevision(f, q) \/ RejectLink(f, q)
        PROVE  seen'[e][p] \in {0, seen[e][p]}
    <3>1. seen' = [seen EXCEPT ![f][q] = 0]
      BY <2>4 DEF VisitSkipped, BeginRevision, RejectLink
    <3> QED BY <1>t, <3>1
  <2>5. ASSUME \/ StartPass(f) \/ \E x \in todo[f] : CompareRemote(f, x)
               \/ MarkConflict(f) \/ MarkPending(f) \/ StatLocal(f)
               \/ StartWalk(f) \/ StartUploads(f)
        PROVE  UNCHANGED seen
    BY <2>5 DEF StartPass, CompareRemote, MarkConflict, MarkPending,
                StatLocal, StartWalk, StartUploads
  <2>6. ASSUME \/ ReadContent(f) \/ AbandonUpload(f) \/ CompleteRevision(f)
               \/ LoseCompletion(f) \/ RecordUpload(f)
        PROVE  UNCHANGED seen
    BY <2>6 DEF ReadContent, AbandonUpload, CompleteRevision, LoseCompletion,
                RecordUpload
  <2> QED BY <1>3, <2>1, <2>2, <2>3, <2>4, <2>5, <2>6 DEF PassStep
<1>4. CASE Crash \/ UNCHANGED vars
  BY <1>4 DEF Crash, vars, engineVars, NoStamps
<1> QED
  BY <1>1, <1>2, <1>3, <1>4 DEF Next

LEMMA WalkHeldStep ==
  ASSUME TypeOK, IInv, [Next]_vars
  PROVE  WalkHeld'
<1>t. TypeOK'
  BY NextType
<1> SUFFICES ASSUME NEW e \in Engines, NEW p \in Paths, NEW s \in Nat \ {0},
                    seen'[e][p] = s
             PROVE  Held(p, s)'
  BY <1>t DEF WalkHeld, Held, Lost, TypeOK
<1>1. CASE seen[e][p] = s
  BY <1>1, HeldCarriedOver DEF IInv, WalkHeld
<1>2. CASE local[p] = s /\ UNCHANGED local
  BY <1>2 DEF Held
<1> QED BY <1>1, <1>2, SeenStep

\* What a step can do to the uploads under way, engine by engine.
Began(e) ==
  /\ pc'[e] = "read"
  /\ \E p \in Paths, l \in Links, b \in BOOLEAN :
       /\ seen[e][p] # 0
       /\ up'[e] = {[path |-> p, link |-> l, stamp |-> seen[e][p],
                     content |-> 0, blind |-> b]}

Read(e) ==
  /\ pc'[e] = "send"
  /\ UNCHANGED <<local, clock>>
  /\ \E u \in up[e] : up'[e] = {[u EXCEPT !.content = local[u.path]]}

Completed(e) ==
  /\ pc[e] = "send" /\ pc'[e] = "record"
  /\ up'[e] = up[e]
  /\ \E u \in up[e] : <<u.path, u.link, u.content>> \in uploaded'

Kept(e) ==
  /\ up'[e] \subseteq up[e]
  /\ pc'[e] = pc[e] \/ pc'[e] \notin {"send", "record"} \/ up'[e] = {}

LEMMA UploadStep ==
  ASSUME TypeOK, [Next]_vars, NEW e \in Engines
  PROVE  /\ uploaded \subseteq uploaded'
         /\ Began(e) \/ Read(e) \/ Completed(e) \/ Kept(e)
<1>t. /\ pc \in [Engines -> Places]
      /\ up \in [Engines -> SUBSET Upload]
  BY DEF TypeOK
<1>1. CASE Environment
  BY <1>1 DEF Environment, UserEdit, UserDelete, OtherUpload, OtherMove,
              OtherDelete, engineVars, Kept
<1>2. CASE Resolve
  BY <1>2 DEF Resolve, ChooseResolution, ResolveLocal, RenameLocal,
              RenamePending, RenameRecord, ResolveFails, engineVars, Kept
<1>3. CASE Crash \/ UNCHANGED vars
  BY <1>3 DEF Crash, vars, engineVars, Kept
<1>4. ASSUME NEW f \in Engines, StartPass(f) \/ PassStep(f)
      PROVE  /\ uploaded \subseteq uploaded'
             /\ Began(e) \/ Read(e) \/ Completed(e) \/ Kept(e)
  <2>1. ASSUME \/ StartPass(f) \/ \E x \in todo[f] : CompareRemote(f, x)
               \/ MarkConflict(f) \/ MarkPending(f) \/ StatLocal(f)
        PROVE  uploaded \subseteq uploaded' /\ Kept(e)
    <3>1. uploaded' = uploaded /\ up' = up
      BY <2>1 DEF StartPass, CompareRemote, MarkConflict, MarkPending,
                  StatLocal
    <3>2. \/ pc' = pc
          \/ \E w \in {"files", "compare", "mark"} :
               pc' = [pc EXCEPT ![f] = w]
      BY <2>1 DEF StartPass, CompareRemote, MarkConflict, MarkPending,
                  StatLocal
    <3> QED BY <1>t, <3>1, <3>2 DEF Kept
  <2>2. ASSUME \/ StartWalk(f) \/ \E p \in Paths : WalkFile(f, p)
               \/ StartUploads(f) \/ \E p \in Paths : VisitSkipped(f, p)
               \/ \E p \in Paths : RejectLink(f, p)
        PROVE  uploaded \subseteq uploaded' /\ Kept(e)
    <3>1. uploaded' = uploaded /\ up' = up
      BY <2>2 DEF StartWalk, WalkFile, StartUploads, VisitSkipped, RejectLink
    <3>2. \/ pc' = pc
          \/ \E w \in {"walk", "uploads"} : pc' = [pc EXCEPT ![f] = w]
      BY <2>2 DEF StartWalk, WalkFile, StartUploads, VisitSkipped, RejectLink
    <3> QED BY <1>t, <3>1, <3>2 DEF Kept
  <2>3. ASSUME \/ WalkFails(f) \/ FinishPass(f) \/ Stall(f) \/ AbandonUpload(f)
               \/ LoseCompletion(f) \/ RecordUpload(f)
        PROVE  uploaded \subseteq uploaded' /\ Kept(e)
    <3>1. uploaded \subseteq uploaded'
      BY <2>3 DEF WalkFails, FinishPass, Stall, AbandonUpload, LoseCompletion,
                  Complete, RecordUpload
    <3>2. /\ up' = [up EXCEPT ![f] = {}]
          /\ \E w \in {"idle", "stalled", "uploads"} : pc' = [pc EXCEPT ![f] = w]
      BY <2>3 DEF WalkFails, FinishPass, Stall, LeavePass, AbandonUpload,
                  LoseCompletion, RecordUpload
    <3> QED BY <1>t, <3>1, <3>2 DEF Kept
  <2>4. ASSUME NEW p \in Paths, BeginRevision(f, p)
        PROVE  uploaded \subseteq uploaded' /\ (Began(e) \/ Kept(e))
    <3>1. rows[p].link \in Links
      BY <2>4 DEF BeginRevision, SkipUpload, TypeOK, Table, Row
    <3>2. /\ uploaded' = uploaded
          /\ seen[f][p] # 0
          /\ pc' = [pc EXCEPT ![f] = "read"]
          /\ up' = [up EXCEPT ![f] =
                      {[path |-> p, link |-> rows[p].link, stamp |-> seen[f][p],
                        content |-> 0, blind |-> FALSE]}]
      BY <2>4 DEF BeginRevision
    <3>3. CASE e = f
      BY <1>t, <3>1, <3>2, <3>3 DEF Began
    <3>4. CASE e # f
      BY <1>t, <3>2, <3>4 DEF Kept
    <3> QED BY <3>2, <3>3, <3>4
  <2>5. ASSUME NEW p \in Paths, NEW l \in Links, NEW b \in BOOLEAN, CreateLink(f, p, l, b)
        PROVE  uploaded \subseteq uploaded' /\ (Began(e) \/ Kept(e))
    <3>2. /\ uploaded' = uploaded
          /\ seen[f][p] # 0
          /\ pc' = [pc EXCEPT ![f] = "read"]
          /\ up' = [up EXCEPT ![f] =
                      {[path |-> p, link |-> l,
                        stamp |-> seen[f][p], content |-> 0, blind |-> b]}]
      BY <2>5 DEF CreateLink
    <3>3. CASE e = f
      BY <1>t, <3>2, <3>3 DEF Began
    <3>4. CASE e # f
      BY <1>t, <3>2, <3>4 DEF Kept
    <3> QED BY <3>2, <3>3, <3>4
  <2>6. CASE ReadContent(f)
    <3>1. PICK u \in up[f] :
            up' = [up EXCEPT ![f] = {[u EXCEPT !.content = local[u.path]]}]
      BY <2>6 DEF ReadContent
    <3>2. /\ UNCHANGED <<uploaded, local, clock>>
          /\ pc' = [pc EXCEPT ![f] = "send"]
      BY <2>6 DEF ReadContent
    <3> DEFINE v == [u EXCEPT !.content = local[u.path]]
    <3>3. CASE e = f
      <4>1. up'[e] = {v}
        BY <1>t, <3>1, <3>3
      <4> QED BY <1>t, <3>2, <3>3, <4>1 DEF Read
    <3>4. CASE e # f
      <4>1. up' = [up EXCEPT ![f] = {v}]
        BY <3>1
      <4> HIDE DEF v
      <4> QED BY <1>t, <3>2, <3>4, <4>1 DEF Kept
    <3> QED BY <3>2, <3>3, <3>4
  <2>7. CASE CompleteRevision(f)
    <3>1. PICK u \in up[f] :
            uploaded' = uploaded \cup {<<u.path, u.link, u.content>>}
      BY <2>7 DEF CompleteRevision, Complete
    <3>2. /\ pc[f] = "send"
          /\ pc' = [pc EXCEPT ![f] = "record"]
          /\ up' = up
      BY <2>7 DEF CompleteRevision
    <3> QED BY <1>t, <3>1, <3>2 DEF Completed, Kept
  <2> QED BY <1>4, <2>1, <2>2, <2>3, <2>4, <2>5, <2>6, <2>7 DEF PassStep
<1> QED
  BY <1>1, <1>2, <1>3, <1>4 DEF Next

LEMMA HistoryGrows == TypeOK /\ [Next]_vars => uploaded \subseteq uploaded'
<1> SUFFICES ASSUME TypeOK, [Next]_vars PROVE uploaded \subseteq uploaded'
  OBVIOUS
<1>1. CASE Environment \/ Resolve \/ Crash \/ UNCHANGED vars
  BY <1>1 DEF Environment, UserEdit, UserDelete, OtherUpload, OtherMove,
              OtherDelete, Resolve, ChooseResolution, ResolveLocal, RenameLocal,
              RenamePending, RenameRecord, ResolveFails, Crash, vars
<1>2. ASSUME NEW e \in Engines PROVE uploaded \subseteq uploaded'
  BY UploadStep
<1> QED BY <1>1, <1>2 DEF Next

LEMMA OneUploadStep ==
  ASSUME TypeOK, IInv, [Next]_vars
  PROVE  OneUpload'
<1> SUFFICES ASSUME NEW e \in Engines PROVE \A u, v \in up'[e] : u = v
  BY DEF OneUpload
<1>1. \A u, v \in up[e] : u = v
  BY DEF IInv, OneUpload
<1>2. CASE Began(e) \/ Read(e)
  BY <1>2 DEF Began, Read
<1>3. CASE Completed(e) \/ Kept(e)
  BY <1>1, <1>3 DEF Completed, Kept
<1> QED BY <1>2, <1>3, UploadStep

LEMMA UploadHeldStep ==
  ASSUME TypeOK, IInv, [Next]_vars
  PROVE  UploadHeld'
<1>t. TypeOK /\ TypeOK'
  BY NextType
<1>c. /\ \A p \in Paths, s \in Nat \ {0} : Lost(p, s) => Lost(p, s)'
      /\ \A p \in Paths, s \in Nat \ {0} : Held(p, s) => Held(p, s)'
  BY HeldCarriedOver
<1> SUFFICES ASSUME NEW e \in Engines, NEW u \in up'[e]
             PROVE  /\ u.stamp # 0
                    /\ Held(u.path, u.stamp)'
                    /\ pc'[e] \in {"send", "record"} =>
                         u.content = u.stamp \/ Lost(u.path, u.stamp)'
                    /\ pc'[e] = "record" =>
                         <<u.path, u.link, u.content>> \in uploaded'
  BY DEF UploadHeld, Held, Lost
<1>1. uploaded \subseteq uploaded'
  BY UploadStep
<1>2. CASE Began(e)
  <2>1. PICK p \in Paths : seen[e][p] # 0 /\ u.path = p /\ u.stamp = seen[e][p]
    BY <1>2 DEF Began
  <2>2. Held(p, seen[e][p]) /\ seen[e][p] \in Nat \ {0}
    BY <1>t, <2>1 DEF IInv, WalkHeld, TypeOK
  <2>3. PICK s \in Nat \ {0} : s = seen[e][p] /\ Held(p, s)
    BY <2>2
  <2>4. Held(p, s)'
    BY <1>c, <2>3
  <2>5. pc'[e] = "read"
    BY <1>2 DEF Began
  <2> QED BY <2>1, <2>3, <2>4, <2>5
<1>3. CASE Read(e)
  <2>1. PICK v \in up[e] : up'[e] = {[v EXCEPT !.content = local[v.path]]}
    BY <1>3 DEF Read
  <2>2. v \in Upload
    BY <1>t DEF TypeOK
  <2>3. /\ u.path = v.path /\ u.stamp = v.stamp
        /\ u.content = local[v.path]
    <3>1. u = [v EXCEPT !.content = local[v.path]]
      BY <2>1
    <3> QED BY <2>2, <3>1 DEF Upload
  <2>4. v.stamp \in Nat \ {0} /\ v.path \in Paths /\ Held(v.path, v.stamp)
    BY <2>2 DEF IInv, UploadHeld, Upload
  <2>5. Held(u.path, u.stamp)'
    BY <1>c, <2>3, <2>4
  <2>6. u.content = u.stamp \/ Lost(v.path, v.stamp)
    BY <2>3, <2>4 DEF Held
  <2>7. u.content = u.stamp \/ Lost(u.path, u.stamp)'
    BY <1>c, <2>3, <2>4, <2>6
  <2>8. pc'[e] = "send"
    BY <1>3 DEF Read
  <2> QED BY <2>3, <2>4, <2>5, <2>7, <2>8
<1>4. ASSUME u \in up[e]
      PROVE  /\ u.stamp \in Nat \ {0} /\ u.path \in Paths
             /\ Held(u.path, u.stamp)'
             /\ pc[e] \in {"send", "record"} =>
                  u.content = u.stamp \/ Lost(u.path, u.stamp)'
             /\ pc[e] = "record" => <<u.path, u.link, u.content>> \in uploaded'
  <2>1. u \in Upload
    BY <1>t, <1>4 DEF TypeOK
  <2>2. /\ u.stamp # 0
        /\ Held(u.path, u.stamp)
        /\ pc[e] \in {"send", "record"} =>
             u.content = u.stamp \/ Lost(u.path, u.stamp)
        /\ pc[e] = "record" => <<u.path, u.link, u.content>> \in uploaded
    BY <1>4 DEF IInv, UploadHeld
  <2>3. u.stamp \in Nat \ {0} /\ u.path \in Paths
    BY <2>1, <2>2 DEF Upload
  <2> QED BY <1>1, <1>c, <2>2, <2>3
<1>5. CASE Completed(e)
  <2>1. u \in up[e] /\ pc[e] = "send"
    BY <1>5 DEF Completed
  <2>2. <<u.path, u.link, u.content>> \in uploaded'
    BY <1>5, <2>1 DEF Completed, IInv, OneUpload
  <2> QED BY <1>4, <2>1, <2>2
<1>6. CASE Kept(e)
  BY <1>4, <1>6 DEF Kept
<1> QED BY <1>2, <1>3, <1>5, <1>6, UploadStep

\* What the UPSERT leaves at each path.
LEMMA UpsertAt ==
  ASSUME NEW tab \in Table, NEW p \in Paths, NEW q \in Paths,
         NEW l \in Links \cup {NoLink}, NEW s \in Nat, NEW st \in RowStates
  PROVE  /\ q # p => Upsert(tab, p, l, s, st)[q] = tab[q]
         /\ Upsert(tab, p, l, s, st)[p].stamp = s
         /\ Upsert(tab, p, l, s, st)[p].state = st
         /\ l # NoLink => Upsert(tab, p, l, s, st)[p].link = l
BY DEF Upsert, Table

\* How a step can change the row of a path.
Vouched(p) ==
  \E e \in Engines : \E u \in up[e] :
    /\ pc[e] = "record"
    /\ u.path = p
    /\ rows'[p].link = u.link
    /\ rows'[p].stamp = u.stamp

LEMMA RowStep ==
  ASSUME TypeOK, [Next]_vars, NEW p \in Paths
  PROVE  \/ rows'[p] = rows[p]
         \/ rows'[p].state # "synced"
         \/ rows'[p].stamp = 0 /\ RenameRecord /\ Conflicted(p) = p
         \/ Vouched(p)
<1>t. /\ rows \in Table
      /\ cur \in [Engines -> SUBSET Comparison]
      /\ up \in [Engines -> SUBSET Upload]
      /\ resolver \in SUBSET Resolution
  BY DEF TypeOK
<1>u. ASSUME NEW q \in Paths, NEW l \in Links \cup {NoLink}, NEW s \in Nat,
             NEW st \in RowStates \ {"synced"}, TryUpsert(q, l, s, st)
      PROVE  rows'[p] = rows[p] \/ rows'[p].state # "synced"
  <2>1. CASE p = q
    BY <1>t, <1>u, <2>1, UpsertAt DEF TryUpsert
  <2>2. CASE p # q
    BY <1>t, <1>u, <2>2, UpsertAt DEF TryUpsert
  <2> QED BY <2>1, <2>2
<1>1. CASE Environment
  BY <1>1 DEF Environment, UserEdit, UserDelete, OtherUpload, OtherMove,
              OtherDelete
<1>2. CASE Resolve
  <2>1. CASE ResolveLocal \/ RenamePending
    <3>1. PICK r \in resolver :
            rows' = Upsert(rows, r.path, r.row.link, r.row.stamp, "pending")
      BY <2>1 DEF ResolveLocal, RenamePending
    <3>2. r.path \in Paths /\ r.row.link \in Links \cup {NoLink}
          /\ r.row.stamp \in Nat
      BY <1>t DEF Resolution, Row
    <3> QED BY <1>u, <3>1, <3>2 DEF RowStates, TryUpsert
  <2>2. CASE RenameRecord
    <3>1. PICK r \in resolver :
            rows' = Upsert(rows, Conflicted(r.path), NoLink, 0, "synced")
      BY <2>2 DEF RenameRecord
    <3>2. Conflicted(r.path) \in Paths /\ Conflicted(Conflicted(r.path)) = Conflicted(r.path)
      BY <1>t, ConflictedAssumption DEF Resolution
    <3>3. CASE p = Conflicted(r.path)
      BY <1>t, <2>2, <3>1, <3>2, <3>3, UpsertAt DEF RowStates
    <3>4. CASE p # Conflicted(r.path)
      BY <1>t, <3>1, <3>2, <3>4, UpsertAt DEF RowStates
    <3> QED BY <3>3, <3>4
  <2>3. CASE RenameLocal \/ ResolveFails
             \/ \E q \in Paths, t \in Strategies : ChooseResolution(q, t)
    BY <2>3 DEF RenameLocal, ResolveFails, ChooseResolution
  <2> QED BY <1>2, <2>1, <2>2, <2>3 DEF Resolve
<1>3. CASE Crash \/ UNCHANGED vars
  BY <1>3 DEF Crash, vars
<1>4. ASSUME NEW e \in Engines, StartPass(e) \/ PassStep(e)
      PROVE  \/ rows'[p] = rows[p]
             \/ rows'[p].state # "synced"
             \/ Vouched(p)
  <2>1. CASE MarkConflict(e) \/ MarkPending(e)
    <3>1. PICK c \in cur[e], st \in {"conflict", "pending"} :
            TryUpsert(c.entry.path, c.entry.link, c.entry.stamp, st)
      BY <2>1 DEF MarkConflict, MarkPending
    <3>2. /\ c.entry.path \in Paths /\ c.entry.link \in Links
          /\ c.entry.stamp \in Nat
      BY <1>t DEF Comparison, Entry
    <3> QED BY <1>u, <3>1, <3>2 DEF RowStates
  <2>2. CASE RecordUpload(e)
    <3>1. PICK u \in up[e] : TryUpsert(u.path, u.link, u.stamp, "synced")
      BY <2>2 DEF RecordUpload
    <3>2. u.path \in Paths /\ u.link \in Links /\ u.stamp \in Nat
      BY <1>t DEF Upload
    <3>3. pc[e] = "record"
      BY <2>2 DEF RecordUpload
    <3>4. CASE p = u.path
      BY <1>t, <3>1, <3>2, <3>3, <3>4, UpsertAt, NoLinkAssumption
      DEF RowStates, Vouched, TryUpsert
    <3>5. CASE p # u.path
      BY <1>t, <3>1, <3>2, <3>5, UpsertAt DEF RowStates, TryUpsert
    <3> QED BY <3>4, <3>5
  <2>3. ASSUME \/ StartPass(e) \/ \E x \in todo[e] : CompareRemote(e, x)
               \/ StatLocal(e) \/ StartWalk(e)
               \/ \E q \in Paths : WalkFile(e, q)
               \/ StartUploads(e) \/ WalkFails(e) \/ FinishPass(e) \/ Stall(e)
        PROVE  rows' = rows
    BY <2>3 DEF StartPass, CompareRemote, StatLocal, StartWalk, WalkFile,
                StartUploads, WalkFails, FinishPass, Stall
  <2>4. ASSUME \/ \E q \in Paths : VisitSkipped(e, q)
               \/ \E q \in Paths : BeginRevision(e, q)
               \/ \E q \in Paths, l \in Links, b \in BOOLEAN : CreateLink(e, q, l, b)
               \/ \E q \in Paths : RejectLink(e, q)
        PROVE  rows' = rows
    BY <2>4 DEF VisitSkipped, BeginRevision, CreateLink, RejectLink
  <2>5. ASSUME \/ ReadContent(e) \/ AbandonUpload(e) \/ CompleteRevision(e)
               \/ LoseCompletion(e)
        PROVE  rows' = rows
    BY <2>5 DEF ReadContent, AbandonUpload, CompleteRevision, LoseCompletion
  <2> QED BY <1>4, <2>1, <2>2, <2>3, <2>4, <2>5 DEF PassStep
<1> QED
  BY <1>1, <1>2, <1>3, <1>4 DEF Next

LEMMA RowsVouchStep ==
  ASSUME TypeOK, IInv, [Next]_vars
  PROVE  RowsVouch'
<1>t. TypeOK /\ TypeOK'
  BY NextType
<1>c. \A p \in Paths, s \in Nat \ {0} : Lost(p, s) => Lost(p, s)'
  BY HeldCarriedOver
<1>1. uploaded \subseteq uploaded'
  BY HistoryGrows
<1> SUFFICES ASSUME NEW p \in Paths, NEW s \in Nat \ {0}, rows'[p].stamp = s,
                    rows'[p].state = "synced", rows'[p].link # NoLink
             PROVE  <<p, rows'[p].link, s>> \in uploaded' \/ Lost(p, s)'
  BY <1>t DEF RowsVouch, Lost, TypeOK, Table, Row
<1>2. CASE rows'[p] = rows[p]
  <2>1. <<p, rows'[p].link, s>> \in uploaded \/ Lost(p, s)
    BY <1>2 DEF IInv, RowsVouch
  <2> QED BY <1>1, <1>c, <2>1
<1>3. CASE Vouched(p)
  <2>0. PICK e \in Engines : \E u \in up[e] :
          /\ pc[e] = "record"
          /\ u.path = p
          /\ rows'[p].link = u.link
          /\ s = u.stamp
    BY <1>3 DEF Vouched
  <2>1. PICK u \in up[e] :
          /\ pc[e] = "record"
          /\ u.path = p
          /\ rows'[p].link = u.link
          /\ s = u.stamp
    BY <2>0
  <2>2. /\ u.content = s \/ Lost(p, s)
        /\ <<p, rows'[p].link, u.content>> \in uploaded
    BY <2>1 DEF IInv, UploadHeld
  <2> QED BY <1>1, <1>c, <2>2
<1> QED BY <1>2, <1>3, RowStep

LEMMA IInvStep == TypeOK /\ IInv /\ [Next]_vars => IInv'
BY HeldCarriedOver, WalkHeldStep, OneUploadStep, UploadHeldStep, RowsVouchStep
DEF IInv

LEMMA IInvImplies == TypeOK /\ IInv => NoMaskedEdit
BY DEF TypeOK, IInv, RowsVouch, Lost, NoMaskedEdit, LooksUploaded

\* However many passes run over the database, and whatever is edited while
\* they do, no pass skips a file whose content it did not complete.
THEOREM EditsNeverMasked == Spec => []NoMaskedEdit
<1> QED
  BY TypeCorrect, InitInv, IInvStep, IInvImplies, PTL DEF Spec

-----------------------------------------------------------------------------
(* A pass that has the database to itself *)

\* The row names a link and a stamp of it.
Vouches(p) ==
  rows[p].state = "synced" /\ rows[p].link # NoLink /\ rows[p].stamp # 0

UploadPhase ==
  \A e \in Engines : up[e] # {} => pc[e] \in {"read", "send", "record"}

\* How a step of the one pass, or of anybody else, touches uploads and rows.
\* Nobody begins, completes or records one:
SameOwn == \A l \in Links : remote'[l].own = remote[l].own
RowQuiet(e, p) ==
  \/ rows'[p] = rows[p]
  \/ rows'[p].state = "pending"
  \/ rows'[p].state = "synced" /\ rows'[p].stamp = 0
  \/ rows'[p].state = "conflict" /\ up[e] = {}
SeenQuiet(e, p) ==
  \/ seen'[e][p] \in {0, seen[e][p]}
  \/ seen'[e][p] = local[p] /\ UNCHANGED <<local, clock, rows>> /\ up[e] = {}
UploadQuiet(e) ==
  /\ \A v \in up'[e] : \E u \in up[e] :
       /\ v.path = u.path /\ v.link = u.link /\ v.stamp = u.stamp /\ v.blind = u.blind
       /\ pc'[e] = "record" => pc[e] = "record" /\ v = u
  /\ up'[e] # {} => pc'[e] \in {"read", "send", "record"}
Quiet(e) ==
  /\ SameOwn /\ UploadQuiet(e)
  /\ \A p \in Paths : RowQuiet(e, p) /\ SeenQuiet(e, p)

\* or the pass begins an upload of a file: of one it knows to be modified, or to a
\* link of its own, and in conflict only if it could not read that,
Begins(e) ==
  /\ SameOwn /\ UNCHANGED <<local, clock, rows>>
  /\ pc'[e] = "read"
  /\ \E p \in Paths :
       /\ seen[e][p] # 0
       /\ seen' = [seen EXCEPT ![e][p] = 0]
       /\ \A u \in up'[e] :
            /\ u.path = p
            /\ ~u.blind => rows[p].state # "conflict"
            /\ Vouches(p) => rows[p].stamp # seen[e][p] \/ remote[u.link].status = "unused"

\* or completes its revision, whether it hears of it or not,
Completes(e) ==
  /\ UNCHANGED <<local, rows, seen>>
  /\ \E u \in up[e] :
       /\ remote'[u.link].own = u.content
       /\ \A l \in Links \ {u.link} : remote'[l].own = remote[l].own
       /\ \/ up'[e] = up[e] /\ pc'[e] = "record"
          \/ up'[e] = {}

\* or records it.
Records(e) ==
  /\ SameOwn /\ UNCHANGED <<local, clock, seen>>
  /\ pc[e] = "record" /\ up'[e] = {}
  /\ \E u \in up[e] : rows' = Upsert(rows, u.path, u.link, u.stamp, "synced")

LEMMA EnvironmentQuiet ==
  ASSUME TypeOK, UploadPhase, NEW e \in Engines, Environment
  PROVE  Quiet(e)
<1>1. SameOwn
  <2>0. remote \in [Links -> Remote]
    BY DEF TypeOK
  <2>1. ASSUME NEW l \in Links, NEW p \in Paths, OtherUpload(l, p) PROVE SameOwn
    <3>1. remote' = [remote EXCEPT ![l] =
                       [status |-> "active", path |-> p, stamp |-> clock + 1,
                        own |-> remote[l].own]]
      BY <2>1, Zenon DEF OtherUpload
    <3>2. remote'[l].own = remote[l].own
      BY <2>0, <3>1
    <3>3. \A k \in Links \ {l} : remote'[k] = remote[k]
      BY <2>0, <3>1
    <3> QED BY <3>2, <3>3 DEF SameOwn
  <2>2. ASSUME NEW l \in Links, NEW p \in Paths, OtherMove(l, p) PROVE SameOwn
    BY <2>0, <2>2 DEF OtherMove, SameOwn, Remote
  <2>3. ASSUME NEW l \in Links, OtherDelete(l) PROVE SameOwn
    BY <2>0, <2>3 DEF OtherDelete, SameOwn, Remote
  <2>4. ASSUME NEW p \in Paths, UserEdit(p) \/ UserDelete(p) PROVE SameOwn
    BY <2>4 DEF UserEdit, UserDelete, SameOwn
  <2> QED BY <2>1, <2>2, <2>3, <2>4 DEF Environment
<1>2. UNCHANGED <<rows, seen, up, pc>>
  BY DEF Environment, UserEdit, UserDelete, OtherUpload, OtherMove, OtherDelete,
         engineVars
<1>3. UploadQuiet(e)
  BY <1>2 DEF UploadQuiet, UploadPhase
<1>4. \A p \in Paths : RowQuiet(e, p) /\ SeenQuiet(e, p)
  BY <1>2 DEF RowQuiet, SeenQuiet
<1> QED BY <1>1, <1>3, <1>4 DEF Quiet

LEMMA ResolveQuiet ==
  ASSUME TypeOK, UploadPhase, NEW e \in Engines, Resolve
  PROVE  Quiet(e)
<1>t. resolver \in SUBSET Resolution /\ rows \in Table
  BY DEF TypeOK
<1>1. UNCHANGED <<remote, seen, up, pc>>
  BY DEF Resolve, ChooseResolution, ResolveLocal, RenameLocal, RenamePending,
         RenameRecord, ResolveFails, engineVars
<1>2. ASSUME NEW p \in Paths PROVE RowQuiet(e, p)
  <2>1. CASE ResolveLocal \/ RenamePending
    <3>1. PICK r \in resolver :
            rows' = Upsert(rows, r.path, r.row.link, r.row.stamp, "pending")
      BY <2>1 DEF ResolveLocal, RenamePending
    <3>2. r.path \in Paths /\ r.row.link \in Links \cup {NoLink} /\ r.row.stamp \in Nat
      BY <1>t DEF Resolution, Row
    <3>3. rows'[p] = rows[p] \/ rows'[p].state = "pending"
      <4>1. CASE p = r.path
        BY <1>t, <3>1, <3>2, <4>1, UpsertAt DEF RowStates
      <4>2. CASE p # r.path
        BY <1>t, <3>1, <3>2, <4>2, UpsertAt DEF RowStates
      <4> QED BY <4>1, <4>2
    <3> QED BY <3>3 DEF RowQuiet
  <2>2. CASE RenameRecord
    <3>1. PICK r \in resolver : rows' = Upsert(rows, Conflicted(r.path), NoLink, 0, "synced")
      BY <2>2 DEF RenameRecord
    <3>2. Conflicted(r.path) \in Paths
      BY <1>t, ConflictedAssumption DEF Resolution
    <3>3. CASE p = Conflicted(r.path)
      BY <1>t, <3>1, <3>2, <3>3, UpsertAt DEF RowStates, RowQuiet
    <3>4. CASE p # Conflicted(r.path)
      BY <1>t, <3>1, <3>2, <3>4, UpsertAt DEF RowStates, RowQuiet
    <3> QED BY <3>3, <3>4
  <2>3. CASE RenameLocal \/ ResolveFails
             \/ \E q \in Paths, t \in Strategies : ChooseResolution(q, t)
    BY <2>3 DEF RenameLocal, ResolveFails, ChooseResolution, RowQuiet
  <2> QED BY <2>1, <2>2, <2>3 DEF Resolve
<1>3. SameOwn /\ UploadQuiet(e) /\ \A p \in Paths : SeenQuiet(e, p)
  BY <1>1 DEF SameOwn, UploadQuiet, UploadPhase, SeenQuiet
<1> QED BY <1>2, <1>3 DEF Quiet

\* Uploads as they are, or none.
LEMMA UploadsSame ==
  ASSUME UploadPhase, NEW e \in Engines,
         \/ up'[e] = up[e] /\ pc'[e] = pc[e]
         \/ up'[e] = {}
         \/ up'[e] = up[e] /\ up[e] = {}
  PROVE  UploadQuiet(e)
BY DEF UploadPhase, UploadQuiet

LEMMA PassStepIs ==
  ASSUME TypeOK, UploadPhase, NEW e \in Engines, StartPass(e) \/ PassStep(e)
  PROVE  Quiet(e) \/ Begins(e) \/ Completes(e) \/ Records(e)
<1>t. /\ pc \in [Engines -> Places]
      /\ up \in [Engines -> SUBSET Upload] /\ rows \in Table
      /\ cur \in [Engines -> SUBSET Comparison]
      /\ remote \in [Links -> Remote] /\ seen \in [Engines -> [Paths -> Nat]]
  BY DEF TypeOK
<1>i. pc[e] \notin {"read", "send", "record"} => up[e] = {}
  BY DEF UploadPhase
<1>1. ASSUME \/ StartPass(e) \/ \E x \in todo[e] : CompareRemote(e, x)
             \/ StatLocal(e) \/ StartWalk(e) \/ StartUploads(e)
      PROVE  Quiet(e)
  <2>1. UNCHANGED <<rows, seen, up, remote>> /\ pc[e] \notin {"read", "send", "record"}
    BY <1>1 DEF StartPass, CompareRemote, StatLocal, StartWalk, StartUploads
  <2>2. UploadQuiet(e)
    BY <1>i, <2>1, UploadsSame
  <2> QED BY <2>1, <2>2 DEF Quiet, SameOwn, RowQuiet, SeenQuiet
<1>2. CASE MarkConflict(e) \/ MarkPending(e)
  <2>1. PICK c \in cur[e], st \in {"conflict", "pending"} :
          TryUpsert(c.entry.path, c.entry.link, c.entry.stamp, st)
    BY <1>2 DEF MarkConflict, MarkPending
  <2>2. c.entry.path \in Paths /\ c.entry.link \in Links /\ c.entry.stamp \in Nat
    BY <1>t DEF Comparison, Entry
  <2>3. UNCHANGED <<seen, up, remote>> /\ pc[e] = "mark"
    BY <1>2 DEF MarkConflict, MarkPending
  <2>4. up[e] = {}
    BY <1>i, <2>3
  <2>5. ASSUME NEW p \in Paths PROVE RowQuiet(e, p)
    <3>1. CASE p = c.entry.path
      BY <1>t, <2>1, <2>2, <2>4, <3>1, UpsertAt DEF RowStates, RowQuiet, TryUpsert
    <3>2. CASE p # c.entry.path
      BY <1>t, <2>1, <2>2, <3>2, UpsertAt DEF RowStates, RowQuiet, TryUpsert
    <3> QED BY <3>1, <3>2
  <2>6. UploadQuiet(e)
    BY <2>3, <2>4, UploadsSame
  <2> QED BY <2>3, <2>5, <2>6 DEF Quiet, SameOwn, SeenQuiet
<1>3. ASSUME NEW p \in Paths, WalkFile(e, p) PROVE Quiet(e)
  <2>1. UNCHANGED <<rows, up, remote, local, clock, pc>> /\ pc[e] = "walk"
        /\ seen' = [seen EXCEPT ![e][p] = local[p]]
    BY <1>3 DEF WalkFile
  <2>2. up[e] = {}
    BY <1>i, <2>1
  <2>3. \A q \in Paths : seen'[e][q] = IF q = p THEN local[p] ELSE seen[e][q]
    BY <1>t, <2>1
  <2>4. UploadQuiet(e)
    BY <2>1, UploadsSame
  <2> QED BY <2>1, <2>2, <2>3, <2>4 DEF Quiet, SameOwn, RowQuiet, SeenQuiet
<1>4. CASE WalkFails(e) \/ FinishPass(e) \/ Stall(e)
  <2>1. UNCHANGED <<rows, remote>> /\ up'[e] = {} /\ seen'[e] = NoStamps
    BY <1>t, <1>4 DEF WalkFails, FinishPass, Stall, LeavePass
  <2>2. \A q \in Paths : seen'[e][q] = 0
    BY <2>1 DEF NoStamps
  <2>3. UploadQuiet(e)
    BY <2>1, UploadsSame
  <2> QED BY <2>1, <2>2, <2>3 DEF Quiet, SameOwn, RowQuiet, SeenQuiet
<1>5. ASSUME NEW p \in Paths, VisitSkipped(e, p) \/ RejectLink(e, p) PROVE Quiet(e)
  <2>1. UNCHANGED <<rows, up, remote, pc>> /\ seen' = [seen EXCEPT ![e][p] = 0]
    BY <1>5 DEF VisitSkipped, RejectLink
  <2>2. \A q \in Paths : seen'[e][q] \in {0, seen[e][q]}
    BY <1>t, <2>1
  <2>3. UploadQuiet(e)
    BY <2>1, UploadsSame
  <2> QED BY <2>1, <2>2, <2>3 DEF Quiet, SameOwn, RowQuiet, SeenQuiet
<1>6. ASSUME NEW p \in Paths, BeginRevision(e, p) PROVE Begins(e)
  <2>1. UNCHANGED <<local, clock, rows, remote>>
    BY <1>6 DEF BeginRevision
  <2>2. /\ seen[e][p] # 0 /\ seen' = [seen EXCEPT ![e][p] = 0]
        /\ rows[p].state # "conflict" /\ rows[p].stamp # seen[e][p]
    BY <1>6 DEF BeginRevision, SkipUpload, Reads, IsSynced
  <2>3. pc'[e] = "read"
    BY <1>t, <1>6 DEF BeginRevision
  <2>4. up'[e] = {[path |-> p, link |-> rows[p].link, stamp |-> seen[e][p],
                   content |-> 0, blind |-> FALSE]}
    BY <1>t, <1>6 DEF BeginRevision
  <2>5. \A u \in up'[e] : u.path = p
    BY <2>4
  <2> QED BY <2>1, <2>2, <2>3, <2>5 DEF Begins, SameOwn
<1>7. ASSUME NEW p \in Paths, NEW l \in Links, NEW b \in BOOLEAN, CreateLink(e, p, l, b) PROVE Begins(e)
  <2>1. UNCHANGED <<local, clock, rows>>
    BY <1>7 DEF CreateLink
  <2>2. /\ seen[e][p] # 0 /\ seen' = [seen EXCEPT ![e][p] = 0]
        /\ ~b => rows[p].state # "conflict"
        /\ remote[l].status = "unused"
    BY <1>7 DEF CreateLink, ReadAsNew, SkipUpload
  <2>3. pc'[e] = "read"
    BY <1>t, <1>7 DEF CreateLink
  <2>4. up'[e] = {[path |-> p, link |-> l, stamp |-> seen[e][p], content |-> 0, blind |-> b]}
    BY <1>t, <1>7 DEF CreateLink
  <2>5. \A u \in up'[e] : u.path = p /\ u.link = l /\ u.blind = b
    BY <2>4
  <2>6. SameOwn
    <3>1. remote' = [remote EXCEPT ![l] = [remote[l] EXCEPT !.status = "draft", !.path = p]]
      BY <1>7, Zenon DEF CreateLink
    <3>2. remote'[l].own = remote[l].own
      BY <1>t, <3>1 DEF Remote
    <3>3. \A k \in Links \ {l} : remote'[k] = remote[k]
      BY <1>t, <3>1
    <3> QED BY <3>2, <3>3 DEF SameOwn
  <2> QED BY <2>1, <2>2, <2>3, <2>5, <2>6 DEF Begins
<1>8. CASE ReadContent(e)
  <2>1. PICK u \in up[e] : up' = [up EXCEPT ![e] = {[u EXCEPT !.content = local[u.path]]}]
    BY <1>8 DEF ReadContent
  <2>2. UNCHANGED <<rows, seen, remote>>
    BY <1>8 DEF ReadContent
  <2>3. pc'[e] = "send"
    BY <1>t, <1>8 DEF ReadContent
  <2> DEFINE v == [u EXCEPT !.content = local[u.path]]
  <2>4. v.path = u.path /\ v.link = u.link /\ v.stamp = u.stamp /\ v.blind = u.blind
    BY <1>t DEF Upload
  <2>5. up'[e] = {v}
    BY <1>t, <2>1
  <2>6. UploadQuiet(e)
    <3> HIDE DEF v
    <3> QED BY <2>3, <2>4, <2>5 DEF UploadQuiet
  <2> QED BY <2>2, <2>6 DEF Quiet, SameOwn, RowQuiet, SeenQuiet
<1>9. CASE AbandonUpload(e)
  <2>1. UNCHANGED <<rows, seen, remote>> /\ up'[e] = {}
    BY <1>t, <1>9 DEF AbandonUpload
  <2> QED BY <2>1, UploadsSame DEF Quiet, SameOwn, RowQuiet, SeenQuiet
<1>10. CASE CompleteRevision(e) \/ LoseCompletion(e)
  <2>1. PICK u \in up[e] : \E t \in CompletionStamps(u) : Complete(e, u, t)
    BY <1>10 DEF CompleteRevision, LoseCompletion
  <2>2. PICK t \in CompletionStamps(u) : Complete(e, u, t)
    BY <2>1
  <2>3. remote' = [remote EXCEPT ![u.link] =
                     [remote[u.link] EXCEPT !.status = "active", !.stamp = t,
                        !.own = u.content]]
    BY <2>2, Zenon DEF Complete
  <2>4. u \in Upload /\ u.link \in Links
    BY <1>t DEF Upload
  <2>5. \A k \in Links \ {u.link} : remote'[k] = remote[k]
    BY <1>t, <2>3, <2>4
  <2>6. remote'[u.link].own = u.content
    <3> DEFINE r == [remote[u.link] EXCEPT !.status = "active", !.stamp = t,
                       !.own = u.content]
    <3>1. remote'[u.link] = r
      BY <1>t, <2>3, <2>4, Zenon
    <3>2. r.own = u.content
      <4>1. remote[u.link] \in Remote
        BY <1>t, <2>4
      <4> QED BY <4>1 DEF Remote
    <3> HIDE DEF r
    <3> QED BY <3>1, <3>2
  <2>7. UNCHANGED <<local, rows, seen>>
    BY <1>10 DEF CompleteRevision, LoseCompletion
  <2>8. (up'[e] = up[e] /\ pc'[e] = "record") \/ up'[e] = {}
    BY <1>t, <1>10 DEF CompleteRevision, LoseCompletion
  <2> QED BY <2>5, <2>6, <2>7, <2>8 DEF Completes
<1>11. CASE RecordUpload(e)
  <2>1. UNCHANGED <<local, clock, seen, remote>> /\ pc[e] = "record" /\ up'[e] = {}
    BY <1>t, <1>11 DEF RecordUpload
  <2>2. PICK u \in up[e] : TryUpsert(u.path, u.link, u.stamp, "synced")
    BY <1>11 DEF RecordUpload
  <2>3. CASE rows' = Upsert(rows, u.path, u.link, u.stamp, "synced")
    BY <2>1, <2>3 DEF Records, SameOwn
  <2>4. CASE rows' = rows
    BY <2>1, <2>4, UploadsSame DEF Quiet, SameOwn, RowQuiet, SeenQuiet
  <2> QED BY <2>2, <2>3, <2>4 DEF TryUpsert
<1> QED
  BY <1>1, <1>2, <1>3, <1>4, <1>5, <1>6, <1>7, <1>8, <1>9, <1>10, <1>11 DEF PassStep

-----------------------------------------------------------------------------
(* NoUploadInConflict *)

\* A pass under way touches its own upload only.
LEMMA OthersUploads ==
  ASSUME TypeOK, NEW e \in Engines, NEW f \in Engines \ {e}, StartPass(f) \/ PassStep(f)
  PROVE  up'[e] = up[e] /\ pc'[e] = pc[e]
<1>t. /\ pc \in [Engines -> Places]
      /\ up \in [Engines -> SUBSET Upload]
  BY DEF TypeOK
<1>1. CASE \/ StartPass(f) \/ \E x \in todo[f] : CompareRemote(f, x)
           \/ MarkConflict(f) \/ MarkPending(f) \/ StatLocal(f)
           \/ StartWalk(f) \/ StartUploads(f)
           \/ \E p \in Paths : WalkFile(f, p)
  BY <1>t, <1>1 DEF StartPass, CompareRemote, MarkConflict, MarkPending, StatLocal,
     StartWalk, WalkFile, StartUploads
<1>2. CASE \/ WalkFails(f) \/ FinishPass(f) \/ Stall(f) \/ AbandonUpload(f)
           \/ LoseCompletion(f) \/ RecordUpload(f) \/ CompleteRevision(f)
  BY <1>t, <1>2 DEF WalkFails, FinishPass, Stall, LeavePass, AbandonUpload, LoseCompletion,
     RecordUpload, CompleteRevision
<1>3. CASE \/ \E p \in Paths : VisitSkipped(f, p)
           \/ \E p \in Paths : BeginRevision(f, p)
           \/ \E p \in Paths : RejectLink(f, p)
  BY <1>t, <1>3 DEF VisitSkipped, RejectLink, BeginRevision
<1>4. CASE (\E p \in Paths, l \in Links, b \in BOOLEAN : CreateLink(f, p, l, b)) \/ ReadContent(f)
  BY <1>t, <1>4 DEF CreateLink, ReadContent
<1> QED BY <1>1, <1>2, <1>3, <1>4 DEF PassStep

\* A step is another pass's or of one of the four kinds.
LEMMA StepIs ==
  ASSUME TypeOK, UploadPhase, [Next]_vars, NEW e \in Engines
  PROVE  \/ Quiet(e) \/ Begins(e) \/ Completes(e) \/ Records(e)
         \/ \E f \in Engines \ {e} : StartPass(f) \/ PassStep(f)
<1>1. CASE Environment \/ Resolve
  BY <1>1, EnvironmentQuiet, ResolveQuiet
<1>2. CASE Crash
  <2>1. UNCHANGED <<rows, remote>> /\ up'[e] = {} /\ seen'[e] = NoStamps
    BY <1>2 DEF Crash
  <2>2. \A q \in Paths : seen'[e][q] = 0
    BY <2>1 DEF NoStamps
  <2>3. UploadQuiet(e)
    BY <2>1, UploadsSame
  <2> QED BY <2>1, <2>2, <2>3 DEF Quiet, SameOwn, RowQuiet, SeenQuiet
<1>3. CASE UNCHANGED vars
  <2>1. UNCHANGED <<rows, seen, remote, up, pc>>
    BY <1>3 DEF vars, engineVars
  <2>2. UploadQuiet(e)
    BY <2>1, UploadsSame
  <2> QED BY <2>1, <2>2 DEF Quiet, SameOwn, RowQuiet, SeenQuiet
<1>4. CASE StartPass(e) \/ PassStep(e)
  BY <1>4, PassStepIs
<1> QED BY <1>1, <1>2, <1>3, <1>4 DEF Next

\* Every step, when the database has one pass.
LEMMA LoneStep ==
  ASSUME TypeOK, UploadPhase, [Next]_vars, NEW e, Engines = {e}
  PROVE  Quiet(e) \/ Begins(e) \/ Completes(e) \/ Records(e)
BY StepIs

LEMMA PhaseStep ==
  ASSUME TypeOK, UploadPhase, [Next]_vars
  PROVE  UploadPhase'
<1> SUFFICES ASSUME NEW e \in Engines, up'[e] # {}
             PROVE  pc'[e] \in {"read", "send", "record"}
  BY DEF UploadPhase
<1>1. CASE Quiet(e) \/ Begins(e) \/ Completes(e) \/ Records(e)
  BY <1>1 DEF Quiet, UploadQuiet, Begins, Completes, Records
<1>2. CASE \E f \in Engines \ {e} : StartPass(f) \/ PassStep(f)
  BY <1>2, OthersUploads DEF UploadPhase
<1> QED BY <1>1, <1>2, StepIs

\* A path comes in conflict where a pass writes the row it compared.
LEMMA MarkedBy ==
  ASSUME TypeOK, NEW f \in Engines, StartPass(f) \/ PassStep(f), NEW p \in Paths,
         rows'[p].state = "conflict", rows[p].state # "conflict"
  PROVE  pc[f] = "mark" /\ \E c \in cur[f] : c.changed /\ c.entry.path = p
<1>t. /\ rows \in Table /\ cur \in [Engines -> SUBSET Comparison]
      /\ up \in [Engines -> SUBSET Upload]
  BY DEF TypeOK
<1>1. CASE MarkConflict(f) \/ MarkPending(f)
  <2>1. PICK c \in cur[f], st \in {"conflict", "pending"} :
          /\ TryUpsert(c.entry.path, c.entry.link, c.entry.stamp, st)
          /\ st = "conflict" => c.changed
    BY <1>1 DEF MarkConflict, MarkPending
  <2>2. c.entry.path \in Paths /\ c.entry.link \in Links /\ c.entry.stamp \in Nat
    BY <1>t DEF Comparison, Entry
  <2>3. c.entry.path = p /\ st = "conflict"
    BY <1>t, <2>1, <2>2, UpsertAt DEF RowStates, TryUpsert
  <2> QED BY <1>1, <2>1, <2>3 DEF MarkConflict, MarkPending
<1>2. CASE RecordUpload(f)
  <2>1. PICK u \in up[f] : TryUpsert(u.path, u.link, u.stamp, "synced")
    BY <1>2 DEF RecordUpload
  <2>2. u.path \in Paths /\ u.link \in Links /\ u.stamp \in Nat
    BY <1>t DEF Upload
  <2>3. rows'[p] = rows[p] \/ rows'[p].state = "synced"
    <3>1. CASE p = u.path
      BY <1>t, <2>1, <2>2, <3>1, UpsertAt DEF RowStates, TryUpsert
    <3>2. CASE p # u.path
      BY <1>t, <2>1, <2>2, <3>2, UpsertAt DEF RowStates, TryUpsert
    <3> QED BY <3>1, <3>2
  <2> QED BY <2>3
<1>3. CASE rows' = rows
  BY <1>3
<1>4. MarkConflict(f) \/ MarkPending(f) \/ RecordUpload(f) \/ rows' = rows
  BY DEF PassStep, StartPass, CompareRemote, StatLocal, StartWalk, WalkFile,
     StartUploads, WalkFails, FinishPass, Stall, VisitSkipped, BeginRevision, CreateLink,
     RejectLink, ReadContent, AbandonUpload, CompleteRevision, LoseCompletion
<1> QED BY <1>1, <1>2, <1>3, <1>4

LEMMA OnlyOtherStep ==
  ASSUME TypeOK, UploadPhase, [Next]_vars, NEW e \in Engines, NEW u \in up'[e],
         ~u.blind, rows'[u.path].state = "conflict"
  PROVE  \/ rows[u.path].state = "conflict" /\ \E v \in up[e] : v.path = u.path
         \/ \E f \in Engines \ {e} :
              pc[f] = "mark" /\ \E c \in cur[f] : c.changed /\ c.entry.path = u.path
<1>1. CASE Quiet(e)
  <2>1. PICK v \in up[e] : u.path = v.path
    BY <1>1 DEF Quiet, UploadQuiet
  <2>2. u.path \in Paths
    BY <2>1 DEF TypeOK, Upload
  <2>3. rows'[u.path] = rows[u.path]
    BY <1>1, <2>1, <2>2 DEF Quiet, RowQuiet
  <2> QED BY <2>1, <2>3
<1>2. CASE Begins(e)
  BY <1>2 DEF Begins
<1>3. CASE Completes(e)
  BY <1>3 DEF Completes
<1>4. CASE Records(e)
  BY <1>4 DEF Records
<1>5. ASSUME NEW f \in Engines \ {e}, StartPass(f) \/ PassStep(f)
      PROVE  \/ rows[u.path].state = "conflict" /\ \E v \in up[e] : v.path = u.path
             \/ pc[f] = "mark" /\ \E c \in cur[f] : c.changed /\ c.entry.path = u.path
  <2>1. u \in up[e]
    BY <1>5, OthersUploads
  <2>2. u.path \in Paths
    BY <2>1 DEF TypeOK, Upload
  <2> QED BY <1>5, <2>1, <2>2, MarkedBy
<1> QED BY <1>1, <1>2, <1>3, <1>4, <1>5, StepIs

\* However many passes run, and unless the uploading one failed to read the row, a
\* path comes in conflict under an upload only where another pass writes the row of
\* a file it found changed.
THEOREM ConflictsFromOthers == Spec => OnlyOtherPassConflicts
<1>1. Init => UploadPhase
  BY DEF Init, UploadPhase
<1>2. TypeOK /\ UploadPhase /\ [Next]_vars => UploadPhase'
  BY PhaseStep
<1>3. TypeOK /\ UploadPhase /\ [Next]_vars =>
        [\A e \in Engines : \A u \in up'[e] :
           ~u.blind /\ rows'[u.path].state = "conflict" =>
           \/ rows[u.path].state = "conflict" /\ \E v \in up[e] : v.path = u.path
           \/ \E f \in Engines \ {e} :
                pc[f] = "mark" /\ \E c \in cur[f] : c.changed /\ c.entry.path = u.path]_vars
  BY OnlyOtherStep
<1> QED BY <1>1, <1>2, <1>3, TypeCorrect, PTL DEF Spec, OnlyOtherPassConflicts

LEMMA ConflictStep ==
  ASSUME TypeOK, UploadPhase, NoUploadInConflict, [Next]_vars, NEW e, Engines = {e}
  PROVE  NoUploadInConflict'
<1> SUFFICES ASSUME NEW v \in up'[e], ~v.blind PROVE rows'[v.path].state # "conflict"
  BY DEF NoUploadInConflict
<1>1. \A u \in up[e] : u.path \in Paths /\ (~u.blind => rows[u.path].state # "conflict")
  BY DEF NoUploadInConflict, TypeOK, Upload
<1>2. CASE Quiet(e)
  <2>1. PICK u \in up[e] : v.path = u.path /\ v.blind = u.blind
    BY <1>2 DEF Quiet, UploadQuiet
  <2> QED BY <1>1, <1>2, <2>1 DEF Quiet, RowQuiet
<1>3. CASE Begins(e)
  BY <1>3 DEF Begins
<1>4. CASE Completes(e)
  BY <1>1, <1>4 DEF Completes
<1>5. CASE Records(e)
  BY <1>5 DEF Records
<1> QED BY <1>2, <1>3, <1>4, <1>5, LoneStep

\* With one pass at a time nothing is sent from a path in conflict but by a pass
\* that failed to read so: the pass that marks paths is the one that sends, and a
\* resolution takes a path out of conflict only.  (Two passes break it: one marks
\* what the other sends.)
THEOREM NothingSentInConflict ==
  ASSUME NEW e, Engines = {e}
  PROVE  Spec => []NoUploadInConflict
<1> DEFINE Inv == UploadPhase /\ NoUploadInConflict
<1>1. Init => Inv
  BY DEF Init, UploadPhase, NoUploadInConflict
<1>2. TypeOK /\ Inv /\ [Next]_vars => Inv'
  BY PhaseStep, ConflictStep
<1> QED BY <1>1, <1>2, TypeCorrect, PTL DEF Spec

-----------------------------------------------------------------------------
(* OnePathPerLink *)

\* The contents of path p are, were or will be put on link l.
Fed(p, l) ==
  \/ rows[p].state = "synced" /\ rows[p].link = l
  \/ \E e \in Engines : \E u \in up[e] : u.path = p /\ u.link = l
  \/ \E x \in uploaded : x[1] = p /\ x[2] = l

\* Only the user's copy in place of a renamed file makes a row synced that no
\* upload has gone through.
NoRename ==
  "rename_local" \notin Strategies =>
    \A r \in resolver : r.strategy = "local" /\ r.at = "chosen"

FedUsed ==
  \A p \in Paths, l \in Links :
    Fed(p, l) /\ ~MayBeCopy(p) => remote[l].status # "unused"
FedOnce ==
  \A p, q \in Paths, l \in Links :
    Fed(p, l) /\ Fed(q, l) /\ ~MayBeCopy(p) /\ ~MayBeCopy(q) => p = q

LinkInv == NoRename /\ FedUsed /\ FedOnce

LEMMA InitLinks == Init => LinkInv
BY DEF Init, LinkInv, NoRename, FedUsed, FedOnce, Fed, NoRow

LEMMA NoRenameStep ==
  ASSUME NoRename, [Next]_vars
  PROVE  NoRename'
<1> SUFFICES ASSUME "rename_local" \notin Strategies PROVE NoRename'
  BY DEF NoRename
<1>1. CASE Resolve
  <2>1. ASSUME NEW p \in Paths, NEW s \in Strategies, ChooseResolution(p, s)
        PROVE  NoRename'
    <3>1. s = "local"
      BY StrategiesAssumption
    <3> QED BY <2>1, <3>1 DEF ChooseResolution, NoRename
  <2>2. ASSUME ResolveLocal \/ RenameLocal \/ RenamePending \/ RenameRecord \/ ResolveFails
        PROVE  NoRename'
    BY <2>2 DEF ResolveLocal, RenameLocal, RenamePending, RenameRecord, ResolveFails,
                NoRename
  <2> QED BY <1>1, <2>1, <2>2 DEF Resolve
<1>2. CASE Crash
  BY <1>2 DEF Crash, NoRename
<1>3. CASE Environment \/ UNCHANGED vars
  BY <1>3 DEF Environment, UserEdit, UserDelete, OtherUpload, OtherMove, OtherDelete,
              vars, NoRename
<1>4. ASSUME NEW e \in Engines, StartPass(e) \/ PassStep(e) PROVE NoRename'
  <2>1. resolver' = resolver
    BY <1>4 DEF PassStep, StartPass, CompareRemote, MarkConflict, MarkPending,
       StatLocal, StartWalk, WalkFile, StartUploads, WalkFails, FinishPass, Stall,
       VisitSkipped, BeginRevision, CreateLink, RejectLink, ReadContent,
       AbandonUpload, CompleteRevision, LoseCompletion, RecordUpload
  <2> QED BY <2>1 DEF NoRename
<1> QED BY <1>1, <1>2, <1>3, <1>4 DEF Next

\* The server keeps a link once it is given out.
LEMMA UsedStays ==
  ASSUME TypeOK, [Next]_vars, NEW l \in Links, remote[l].status # "unused"
  PROVE  remote'[l].status # "unused"
<1>t. remote \in [Links -> Remote] /\ up \in [Engines -> SUBSET Upload]
  BY DEF TypeOK
<1>1. CASE Environment
  <2>1. ASSUME NEW k \in Links, NEW p \in Paths, OtherUpload(k, p)
        PROVE  remote'[l].status # "unused"
    BY <1>t, <2>1 DEF OtherUpload
  <2>2. ASSUME NEW k \in Links, NEW p \in Paths, OtherMove(k, p)
        PROVE  remote'[l].status # "unused"
    BY <1>t, <2>2 DEF OtherMove, Remote
  <2>3. ASSUME NEW k \in Links, OtherDelete(k)
        PROVE  remote'[l].status # "unused"
    BY <1>t, <2>3 DEF OtherDelete, Remote
  <2>4. ASSUME NEW p \in Paths, UserEdit(p) \/ UserDelete(p)
        PROVE  remote'[l].status # "unused"
    BY <2>4 DEF UserEdit, UserDelete
  <2> QED BY <1>1, <2>1, <2>2, <2>3, <2>4 DEF Environment
<1>2. CASE Resolve \/ Crash \/ UNCHANGED vars
  BY <1>2 DEF Resolve, ChooseResolution, ResolveLocal, RenameLocal, RenamePending,
              RenameRecord, ResolveFails, Crash, vars
<1>3. ASSUME NEW e \in Engines, StartPass(e) \/ PassStep(e)
      PROVE  remote'[l].status # "unused"
  <2>1. ASSUME NEW p \in Paths, NEW k \in Links, NEW b \in BOOLEAN, CreateLink(e, p, k, b)
        PROVE  remote'[l].status # "unused"
    BY <1>t, <2>1 DEF CreateLink, Remote
  <2>2. CASE CompleteRevision(e) \/ LoseCompletion(e)
    <3>1. PICK u \in up[e] : \E t \in CompletionStamps(u) : Complete(e, u, t)
      BY <2>2 DEF CompleteRevision, LoseCompletion
    <3>2. PICK t \in CompletionStamps(u) : Complete(e, u, t)
      BY <3>1
    <3>3. remote' = [remote EXCEPT ![u.link] =
                       [remote[u.link] EXCEPT !.status = "active", !.stamp = t,
                          !.own = u.content]]
      BY <3>2, Zenon DEF Complete
    <3>4. l # u.link => remote'[l] = remote[l]
      BY <1>t, <3>3
    <3> DEFINE r == [remote[u.link] EXCEPT !.status = "active", !.stamp = t,
                       !.own = u.content]
    <3>5. l = u.link => remote'[l] = r
      BY <1>t, <3>3, Zenon
    <3>6. l = u.link => r.status = "active"
      <4>1. remote[l] \in Remote
        BY <1>t
      <4> QED BY <4>1 DEF Remote
    <3> HIDE DEF r
    <3> QED BY <3>4, <3>5, <3>6
  <2>3. CASE remote' = remote
    BY <2>3
  <2>4. \/ \E p \in Paths, k \in Links, b \in BOOLEAN : CreateLink(e, p, k, b)
        \/ CompleteRevision(e) \/ LoseCompletion(e)
        \/ remote' = remote
    BY <1>3 DEF PassStep, StartPass, CompareRemote, MarkConflict, MarkPending,
       StatLocal, StartWalk, WalkFile, StartUploads, WalkFails, FinishPass, Stall,
       VisitSkipped, BeginRevision, RejectLink, ReadContent, AbandonUpload, RecordUpload
  <2> QED BY <2>1, <2>2, <2>3, <2>4
<1> QED BY <1>1, <1>2, <1>3 DEF Next

Creates(e, p, l) == \E b \in BOOLEAN : CreateLink(e, p, l, b)

\* Where an upload gets its path and its link from.
LEMMA UploadFrom ==
  ASSUME TypeOK, [Next]_vars, NEW e \in Engines, NEW v \in up'[e]
  PROVE  \/ \E u \in up[e] : v.path = u.path /\ v.link = u.link
         \/ rows[v.path].state = "synced" /\ rows[v.path].link = v.link
         \/ Creates(e, v.path, v.link)
<1>t. up \in [Engines -> SUBSET Upload]
  BY DEF TypeOK
<1>1. CASE up' = up
  BY <1>1
<1>2. ASSUME NEW f \in Engines, up' = [up EXCEPT ![f] = {}]
      PROVE  v \in up[e]
  BY <1>t, <1>2
<1>3. ASSUME NEW f \in Engines, NEW p \in Paths, BeginRevision(f, p)
      PROVE  \/ v \in up[e]
             \/ rows[v.path].state = "synced" /\ rows[v.path].link = v.link
  <2>1. up' = [up EXCEPT ![f] = {[path |-> p, link |-> rows[p].link,
                                  stamp |-> seen[f][p], content |-> 0, blind |-> FALSE]}]
        /\ rows[p].state = "synced"
    BY <1>3 DEF BeginRevision, IsSynced, Reads
  <2> QED BY <1>t, <2>1
<1>4. ASSUME NEW f \in Engines, NEW p \in Paths, NEW l \in Links, NEW b \in BOOLEAN, CreateLink(f, p, l, b)
      PROVE  v \in up[e] \/ Creates(e, v.path, v.link)
  <2>1. up' = [up EXCEPT ![f] = {[path |-> p, link |-> l,
                                  stamp |-> seen[f][p], content |-> 0, blind |-> b]}]
    BY <1>4 DEF CreateLink
  <2>2. CASE e = f
    <3>1. v.path = p /\ v.link = l
      BY <1>t, <2>1, <2>2
    <3> QED BY <1>4, <2>2, <3>1 DEF Creates
  <2>3. CASE e # f
    BY <1>t, <2>1, <2>3
  <2> QED BY <2>2, <2>3
<1>5. ASSUME NEW f \in Engines, ReadContent(f)
      PROVE  \E u \in up[e] : v.path = u.path /\ v.link = u.link
  <2>1. PICK u \in up[f] : up' = [up EXCEPT ![f] = {[u EXCEPT !.content = local[u.path]]}]
    BY <1>5 DEF ReadContent
  <2> DEFINE w == [u EXCEPT !.content = local[u.path]]
  <2>2. w.path = u.path /\ w.link = u.link
    BY <1>t DEF Upload
  <2>3. up' = [up EXCEPT ![f] = {w}]
    BY <2>1
  <2> HIDE DEF w
  <2> QED BY <1>t, <2>2, <2>3
<1>6. CASE Crash
  BY <1>6 DEF Crash
<1>7. \/ up' = up
      \/ \E f \in Engines : up' = [up EXCEPT ![f] = {}]
      \/ \E f \in Engines, p \in Paths : BeginRevision(f, p)
      \/ \E f \in Engines, p \in Paths, l \in Links, b \in BOOLEAN : CreateLink(f, p, l, b)
      \/ \E f \in Engines : ReadContent(f)
      \/ Crash
  <2>1. CASE Environment \/ Resolve \/ UNCHANGED vars
    BY <2>1 DEF Environment, UserEdit, UserDelete, OtherUpload, OtherMove, OtherDelete,
       Resolve, ChooseResolution, ResolveLocal, RenameLocal, RenamePending,
       RenameRecord, ResolveFails, vars, engineVars
  <2>2. ASSUME NEW f \in Engines, StartPass(f) \/ PassStep(f)
        PROVE  \/ up' = up
               \/ up' = [up EXCEPT ![f] = {}]
               \/ \E p \in Paths : BeginRevision(f, p)
               \/ \E p \in Paths, l \in Links, b \in BOOLEAN : CreateLink(f, p, l, b)
               \/ ReadContent(f)
    BY <2>2 DEF PassStep, StartPass, CompareRemote, MarkConflict, MarkPending,
       StatLocal, StartWalk, WalkFile, StartUploads, WalkFails, FinishPass, Stall,
       LeavePass, VisitSkipped, RejectLink, AbandonUpload, CompleteRevision,
       LoseCompletion, RecordUpload
  <2> QED BY <2>1, <2>2 DEF Next
<1> QED BY <1>1, <1>2, <1>3, <1>4, <1>5, <1>6, <1>7

\* What a step completes belongs to an upload under way.
LEMMA HistoryFrom ==
  ASSUME [Next]_vars, NEW x \in uploaded'
  PROVE  x \in uploaded \/ \E e \in Engines : \E u \in up[e] : x = <<u.path, u.link, u.content>>
<1>1. CASE Environment \/ Resolve \/ Crash \/ UNCHANGED vars
  BY <1>1 DEF Environment, UserEdit, UserDelete, OtherUpload, OtherMove, OtherDelete,
     Resolve, ChooseResolution, ResolveLocal, RenameLocal, RenamePending,
     RenameRecord, ResolveFails, Crash, vars
<1>2. ASSUME NEW e \in Engines, StartPass(e) \/ PassStep(e)
      PROVE  x \in uploaded \/ \E u \in up[e] : x = <<u.path, u.link, u.content>>
  <2>1. CASE CompleteRevision(e) \/ LoseCompletion(e)
    BY <2>1 DEF CompleteRevision, LoseCompletion, Complete
  <2>2. CASE ~(CompleteRevision(e) \/ LoseCompletion(e))
    BY <1>2, <2>2 DEF PassStep, StartPass, CompareRemote, MarkConflict, MarkPending,
       StatLocal, StartWalk, WalkFile, StartUploads, WalkFails, FinishPass, Stall,
       VisitSkipped, BeginRevision, CreateLink, RejectLink, ReadContent,
       AbandonUpload, RecordUpload
  <2> QED BY <2>1, <2>2
<1> QED BY <1>1, <1>2 DEF Next

\* A link that takes a path's contents after a step took them before, or the step
\* is the one that gets it from the server.
LEMMA FedStep ==
  ASSUME TypeOK, NoRename, [Next]_vars, NEW p \in Paths, NEW l \in Links, Fed(p, l)',
         ~MayBeCopy(p)
  PROVE  Fed(p, l) \/ \E e \in Engines : Creates(e, p, l)
<1>1. CASE rows'[p].state = "synced" /\ rows'[p].link = l
  <2>1. ~(RenameRecord /\ Conflicted(p) = p)
    BY DEF NoRename, RenameRecord, MayBeCopy
  <2>2. rows'[p] = rows[p] \/ Vouched(p)
    BY <1>1, <2>1, RowStep
  <2> QED BY <1>1, <2>2 DEF Fed, Vouched
<1>2. ASSUME NEW e \in Engines, NEW v \in up'[e], v.path = p, v.link = l
      PROVE  Fed(p, l) \/ Creates(e, p, l)
  BY <1>2, UploadFrom DEF Fed
<1>3. ASSUME NEW x \in uploaded', x[1] = p, x[2] = l
      PROVE  Fed(p, l)
  BY <1>3, HistoryFrom DEF Fed
<1> QED BY <1>1, <1>2, <1>3 DEF Fed

\* The server answers one request with a link.
LEMMA CreatedFor ==
  ASSUME TypeOK, NEW e \in Engines, NEW p \in Paths, NEW l \in Links, Creates(e, p, l)
  PROVE  /\ remote[l].status = "unused"
         /\ remote'[l].status = "draft" /\ remote'[l].path = p
<1>1. remote' = [remote EXCEPT ![l] = [remote[l] EXCEPT !.status = "draft", !.path = p]]
      /\ remote[l].status = "unused"
  BY Zenon DEF Creates, CreateLink
<1> QED BY <1>1 DEF TypeOK, Remote

LEMMA LinkStep ==
  ASSUME TypeOK, LinkInv, [Next]_vars
  PROVE  LinkInv'
<1>1. NoRename'
  BY NoRenameStep DEF LinkInv
<1>2. FedUsed'
  <2> SUFFICES ASSUME NEW p \in Paths, NEW l \in Links, Fed(p, l)',
                      ~MayBeCopy(p)
               PROVE  remote'[l].status # "unused"
    BY DEF FedUsed, MayBeCopy
  <2>1. CASE Fed(p, l)
    BY <2>1, UsedStays DEF LinkInv, FedUsed
  <2>2. CASE \E e \in Engines : Creates(e, p, l)
    BY <2>2, CreatedFor
  <2> QED BY <2>1, <2>2, FedStep DEF LinkInv
<1>3. FedOnce'
  <2> SUFFICES ASSUME NEW p \in Paths, NEW q \in Paths, NEW l \in Links,
                      Fed(p, l)', Fed(q, l)', ~MayBeCopy(p), ~MayBeCopy(q)
               PROVE  p = q
    BY DEF FedOnce, MayBeCopy
  <2>1. CASE Fed(p, l) /\ Fed(q, l)
    BY <2>1 DEF LinkInv, FedOnce
  <2>2. CASE remote[l].status = "unused"
    <3>1. ~Fed(p, l) /\ ~Fed(q, l)
      BY <2>2 DEF LinkInv, FedUsed
    <3>2. remote'[l].path = p /\ remote'[l].path = q
      BY <3>1, FedStep, CreatedFor DEF LinkInv
    <3> QED BY <3>2
  <2>3. CASE remote[l].status # "unused"
    BY <2>1, <2>3, FedStep, CreatedFor DEF LinkInv
  <2> QED BY <2>2, <2>3
<1> QED BY <1>1, <1>2, <1>3 DEF LinkInv

\* However many passes run and wherever other devices move the links, a link takes
\* contents of one local path only, but for the copies of rename_local; without
\* that strategy, for all paths.
THEOREM LinkTakesOnePath == Spec => []OnePathPerLink
<1>1. TypeOK /\ LinkInv /\ [Next]_vars => LinkInv'
  BY LinkStep
<1>2. TypeOK /\ LinkInv => OnePathPerLink
  <2> SUFFICES ASSUME TypeOK, LinkInv, NEW x \in uploaded, NEW y \in uploaded,
                      x[2] = y[2], ~MayBeCopy(x[1]), ~MayBeCopy(y[1])
               PROVE  x[1] = y[1]
    BY DEF OnePathPerLink
  <2>1. x[1] \in Paths /\ y[1] \in Paths /\ x[2] \in Links
    BY DEF TypeOK
  <2>2. Fed(x[1], x[2]) /\ Fed(y[1], x[2])
    BY DEF Fed
  <2> QED BY <2>1, <2>2 DEF LinkInv, FedOnce
<1> QED BY <1>1, <1>2, InitLinks, TypeCorrect, PTL DEF Spec

-----------------------------------------------------------------------------
(* Link ids come from the server *)

Given(l) == remote[l].status # "unused"

GivenRows == \A p \in Paths : rows[p].link # NoLink => Given(rows[p].link)
GivenEntries == \A e \in Engines : \A x \in todo[e] : Given(x.link)
GivenCompared == \A e \in Engines : \A c \in cur[e] : Given(c.entry.link)
GivenUploads == \A e \in Engines : \A u \in up[e] : Given(u.link)
GivenResolved == \A r \in resolver : r.row.link # NoLink => Given(r.row.link)

GivenInv == GivenRows /\ GivenEntries /\ GivenCompared /\ GivenUploads /\ GivenResolved

\* The link a row gets is one of a comparison, an upload or a resolution.
LEMMA RowLinkFrom ==
  ASSUME TypeOK, [Next]_vars, NEW p \in Paths, rows'[p].link # NoLink
  PROVE  \/ rows'[p].link = rows[p].link
         \/ \E e \in Engines : \E c \in cur[e] : rows'[p].link = c.entry.link
         \/ \E e \in Engines : \E u \in up[e] : rows'[p].link = u.link
         \/ \E r \in resolver : rows'[p].link = r.row.link
<1>t. rows \in Table
  BY DEF TypeOK
<1>u. ASSUME NEW q, NEW l, NEW s, NEW st, rows' \in {rows, Upsert(rows, q, l, s, st)}
      PROVE  rows'[p].link = rows[p].link \/ rows'[p].link = l
  BY <1>t, <1>u DEF Upsert, Table
<1>1. ASSUME NEW e \in Engines, MarkConflict(e) \/ MarkPending(e)
      PROVE  \/ rows'[p].link = rows[p].link
             \/ \E c \in cur[e] : rows'[p].link = c.entry.link
  <2>1. PICK c \in cur[e], st \in {"conflict", "pending"} :
          TryUpsert(c.entry.path, c.entry.link, c.entry.stamp, st)
    BY <1>1 DEF MarkConflict, MarkPending
  <2> QED BY <1>u, <2>1 DEF TryUpsert
<1>2. ASSUME NEW e \in Engines, RecordUpload(e)
      PROVE  \/ rows'[p].link = rows[p].link
             \/ \E u \in up[e] : rows'[p].link = u.link
  <2>1. PICK u \in up[e] : TryUpsert(u.path, u.link, u.stamp, "synced")
    BY <1>2 DEF RecordUpload
  <2> QED BY <1>u, <2>1 DEF TryUpsert
<1>3. CASE ResolveLocal \/ RenamePending
  <2>1. PICK r \in resolver :
          rows' = Upsert(rows, r.path, r.row.link, r.row.stamp, "pending")
    BY <1>3 DEF ResolveLocal, RenamePending
  <2> QED BY <1>u, <2>1
<1>4. CASE RenameRecord
  <2>1. PICK r \in resolver : rows' = Upsert(rows, Conflicted(r.path), NoLink, 0, "synced")
    BY <1>4 DEF RenameRecord
  <2> QED BY <1>u, <2>1
<1>5. CASE rows' = rows
  BY <1>5
<1>6. CASE Environment \/ Resolve \/ Crash \/ UNCHANGED vars
  <2>1. ResolveLocal \/ RenamePending \/ RenameRecord \/ rows' = rows
    BY <1>6 DEF Environment, UserEdit, UserDelete, OtherUpload, OtherMove, OtherDelete,
       Resolve, ChooseResolution, RenameLocal, ResolveFails, Crash, vars
  <2> QED BY <1>3, <1>4, <1>5, <2>1
<1>7. ASSUME NEW e \in Engines, StartPass(e) \/ PassStep(e)
      PROVE  MarkConflict(e) \/ MarkPending(e) \/ RecordUpload(e) \/ rows' = rows
  BY <1>7 DEF PassStep, StartPass, CompareRemote, StatLocal, StartWalk, WalkFile,
     StartUploads, WalkFails, FinishPass, Stall, VisitSkipped, BeginRevision,
     CreateLink, RejectLink, ReadContent, AbandonUpload, CompleteRevision,
     LoseCompletion
<1> QED BY <1>1, <1>2, <1>5, <1>6, <1>7 DEF Next

\* Entries come from a listing, and stay what they are in a comparison.
LEMMA EntryFrom ==
  ASSUME TypeOK, [Next]_vars, NEW e \in Engines
  PROVE  /\ \/ todo'[e] \subseteq todo[e]
            \/ todo'[e] = Listing /\ remote' = remote
         /\ \A c \in cur'[e] :
              c.entry \in todo[e] \/ \E d \in cur[e] : c.entry = d.entry
<1>t. todo \in [Engines -> SUBSET Entry] /\ cur \in [Engines -> SUBSET Comparison]
  BY DEF TypeOK
<1>1. CASE Environment \/ Resolve \/ UNCHANGED vars
  BY <1>1 DEF Environment, UserEdit, UserDelete, OtherUpload, OtherMove, OtherDelete,
     Resolve, ChooseResolution, ResolveLocal, RenameLocal, RenamePending, RenameRecord,
     ResolveFails, vars, engineVars
<1>2. CASE Crash
  BY <1>2 DEF Crash
<1>3. ASSUME NEW f \in Engines, StartPass(f)
      PROVE  /\ \/ todo'[e] \subseteq todo[e]
                \/ todo'[e] = Listing /\ remote' = remote
             /\ cur' = cur
  BY <1>t, <1>3 DEF StartPass
<1>4. ASSUME NEW f \in Engines, NEW x \in todo[f], CompareRemote(f, x)
      PROVE  /\ todo'[e] \subseteq todo[e]
             /\ \A c \in cur'[e] : c.entry \in todo[e] \/ c \in cur[e]
  <2>1. todo' = [todo EXCEPT ![f] = todo[f] \ {x}]
    BY <1>4 DEF CompareRemote
  <2>2. PICK row : \/ cur' = cur
                   \/ cur' = [cur EXCEPT ![f] =
                                {[entry |-> x, row |-> row, changed |-> FALSE]}]
    BY <1>4 DEF CompareRemote
  <2> QED BY <1>t, <2>1, <2>2
<1>5. ASSUME NEW f \in Engines, StatLocal(f)
      PROVE  /\ todo' = todo
             /\ \A c \in cur'[e] : \E d \in cur[e] : c.entry = d.entry
  <2>1. PICK d \in cur[f], b \in BOOLEAN :
          cur' = [cur EXCEPT ![f] = {[d EXCEPT !.changed = b]}]
    BY <1>5 DEF StatLocal, LocalChanged
  <2> DEFINE w == [d EXCEPT !.changed = b]
  <2>2. w.entry = d.entry
    BY <1>t DEF Comparison
  <2>3. cur' = [cur EXCEPT ![f] = {w}]
    BY <2>1
  <2>4. todo' = todo
    BY <1>5 DEF StatLocal
  <2> HIDE DEF w
  <2> QED BY <1>t, <2>2, <2>3, <2>4
<1>6. ASSUME NEW f \in Engines, PassStep(f)
      PROVE  \/ \E x \in todo[f] : CompareRemote(f, x)
             \/ StatLocal(f)
             \/ todo'[e] \subseteq todo[e] /\ cur'[e] \subseteq cur[e]
  BY <1>t, <1>6 DEF PassStep, MarkConflict, MarkPending, StartWalk, WalkFile,
     StartUploads, WalkFails, FinishPass, Stall, LeavePass, VisitSkipped,
     BeginRevision, CreateLink, RejectLink, ReadContent, AbandonUpload,
     CompleteRevision, LoseCompletion, RecordUpload
<1> QED BY <1>1, <1>2, <1>3, <1>4, <1>5, <1>6 DEF Next

\* A resolution works on a row the handler read.
LEMMA ResolvedFrom ==
  ASSUME TypeOK, [Next]_vars, NEW r \in resolver'
  PROVE  (\E p \in Paths : r.row = rows[p]) \/ \E q \in resolver : r.row = q.row
<1>t. resolver \in SUBSET Resolution
  BY DEF TypeOK
<1>1. CASE resolver' \in {{}, resolver}
  BY <1>1
<1>2. ASSUME NEW p \in Paths, NEW t \in Strategies, ChooseResolution(p, t)
      PROVE  r.row = rows[p]
  BY <1>2 DEF ChooseResolution
<1>3. CASE RenameLocal \/ RenamePending
  <2>1. PICK q \in resolver, a \in {"moved", "pending"} : resolver' = {[q EXCEPT !.at = a]}
    BY <1>3 DEF RenameLocal, RenamePending
  <2>2. r.row = q.row
    BY <1>t, <2>1 DEF Resolution
  <2> QED BY <2>2
<1>4. CASE Environment \/ Resolve \/ Crash \/ UNCHANGED vars
  BY <1>1, <1>2, <1>3, <1>4 DEF Environment, UserEdit, UserDelete, OtherUpload,
     OtherMove, OtherDelete, Resolve, ResolveLocal, RenameRecord, ResolveFails, Crash,
     vars
<1>5. ASSUME NEW e \in Engines, StartPass(e) \/ PassStep(e) PROVE resolver' = resolver
  BY <1>5 DEF PassStep, StartPass, CompareRemote, MarkConflict, MarkPending, StatLocal,
     StartWalk, WalkFile, StartUploads, WalkFails, FinishPass, Stall, VisitSkipped,
     BeginRevision, CreateLink, RejectLink, ReadContent, AbandonUpload,
     CompleteRevision, LoseCompletion, RecordUpload
<1> QED BY <1>1, <1>4, <1>5 DEF Next

LEMMA InitGiven == Init => GivenInv
BY DEF Init, GivenInv, GivenRows, GivenEntries, GivenCompared, GivenUploads,
       GivenResolved, NoRow

LEMMA GivenStep ==
  ASSUME TypeOK, GivenInv, [Next]_vars
  PROVE  GivenInv'
<1>g. \A l \in Links : Given(l) => Given(l)'
  BY UsedStays DEF Given
<1>t. /\ \A p \in Paths : rows[p].link \in Links \cup {NoLink}
      /\ \A e \in Engines : \A x \in todo[e] : x.link \in Links
      /\ \A e \in Engines : \A c \in cur[e] : c.entry.link \in Links
      /\ \A e \in Engines : \A u \in up[e] : u.link \in Links
      /\ \A r \in resolver : r.row.link \in Links \cup {NoLink}
  BY DEF TypeOK, Table, Row, Entry, Comparison, Upload, Resolution
<1>h. /\ \A p \in Paths :
            rows[p].link # NoLink => remote'[rows[p].link].status # "unused"
      /\ \A e \in Engines : \A x \in todo[e] : Given(x.link)'
      /\ \A e \in Engines : \A c \in cur[e] : Given(c.entry.link)'
      /\ \A e \in Engines : \A u \in up[e] : Given(u.link)'
      /\ \A r \in resolver : r.row.link # NoLink => Given(r.row.link)'
  <2> USE <1>g, <1>t
  <2>1. ASSUME NEW p \in Paths, NEW l \in Links, rows[p].link = l
        PROVE  Given(l)'
    BY <2>1, NoLinkAssumption DEF GivenInv, GivenRows
  <2>2. ASSUME NEW e \in Engines, NEW x \in todo[e], NEW l \in Links, x.link = l
        PROVE  Given(l)'
    BY <2>2 DEF GivenInv, GivenEntries
  <2>3. ASSUME NEW e \in Engines, NEW c \in cur[e], NEW l \in Links, c.entry.link = l
        PROVE  Given(l)'
    BY <2>3 DEF GivenInv, GivenCompared
  <2>4. ASSUME NEW e \in Engines, NEW u \in up[e], NEW l \in Links, u.link = l
        PROVE  Given(l)'
    BY <2>4 DEF GivenInv, GivenUploads
  <2>5. ASSUME NEW r \in resolver, NEW l \in Links, r.row.link = l
        PROVE  Given(l)'
    BY <2>5, NoLinkAssumption DEF GivenInv, GivenResolved
  <2> QED BY <2>1, <2>2, <2>3, <2>4, <2>5 DEF Given
<1>1. GivenRows'
  <2> SUFFICES ASSUME NEW p \in Paths, rows'[p].link # NoLink
               PROVE  remote'[rows'[p].link].status # "unused"
    BY DEF GivenRows, Given
  <2> QED BY <1>h, RowLinkFrom DEF Given
<1>2. GivenEntries'
  <2> SUFFICES ASSUME NEW e \in Engines, NEW x \in todo'[e]
               PROVE  remote'[x.link].status # "unused"
    BY DEF GivenEntries, Given
  <2>1. CASE x \in todo[e]
    BY <1>h, <2>1 DEF Given
  <2>2. CASE x \in Listing /\ remote' = remote
    BY <2>2 DEF Listing, Listed
  <2> QED BY <2>1, <2>2, EntryFrom
<1>3. GivenCompared'
  <2> SUFFICES ASSUME NEW e \in Engines, NEW c \in cur'[e]
               PROVE  remote'[c.entry.link].status # "unused"
    BY DEF GivenCompared, Given
  <2> QED BY <1>h, EntryFrom DEF Given
<1>4. GivenUploads'
  <2> SUFFICES ASSUME NEW e \in Engines, NEW v \in up'[e]
               PROVE  remote'[v.link].status # "unused"
    BY DEF GivenUploads, Given
  <2>0. v \in Upload
    BY NextType DEF TypeOK
  <2>1. v.path \in Paths /\ v.link \in Links
    BY <2>0 DEF Upload
  <2>2. CASE Creates(e, v.path, v.link)
    BY <2>1, <2>2, CreatedFor
  <2>3. CASE rows[v.path].state = "synced" /\ rows[v.path].link = v.link
    BY <1>h, <2>1, <2>3, NoLinkAssumption
  <2>4. CASE \E u \in up[e] : v.path = u.path /\ v.link = u.link
    BY <1>h, <2>4 DEF Given
  <2> QED BY <2>2, <2>3, <2>4, UploadFrom
<1>5. GivenResolved'
  <2> SUFFICES ASSUME NEW r \in resolver', r.row.link # NoLink
               PROVE  remote'[r.row.link].status # "unused"
    BY DEF GivenResolved, Given
  <2> QED BY <1>h, ResolvedFrom DEF Given
<1> QED BY <1>1, <1>2, <1>3, <1>4, <1>5 DEF GivenInv

-----------------------------------------------------------------------------
(* RowMatchesLastRevision *)

\* Rows and the walk: a row has a stamp the file has or had, and when the
\* walk found another than the row's, the row's is lost.
RowsHeld == \A p \in Paths : Vouches(p) => Held(p, rows[p].stamp)
WalkOlder ==
  \A e \in Engines, p \in Paths :
    seen[e][p] # 0 /\ Vouches(p) => rows[p].stamp = seen[e][p] \/ Lost(p, rows[p].stamp)

\* A file is sent once in a pass, over a row whose stamp is lost or to another link
\* than the row's: what the upload puts on a link is not what a row that counts says
\* of it.
UploadOlder ==
  \A e \in Engines : \A u \in up[e] :
    /\ seen[e][u.path] = 0
    /\ Vouches(u.path) =>
         Lost(u.path, rows[u.path].stamp) \/ rows[u.path].link # u.link

RecordOwn ==
  \A e \in Engines : \A u \in up[e] :
    pc[e] = "record" => remote[u.link].own = u.content
RowOwn ==
  \A p \in Paths : Vouches(p) =>
    remote[rows[p].link].own = rows[p].stamp \/ Lost(p, rows[p].stamp)

RevInv ==
  UploadPhase /\ RowsHeld /\ WalkOlder /\ UploadOlder /\ RecordOwn /\ RowOwn

\* What a row that counts says is in the types.
LEMMA VouchedType ==
  ASSUME TypeOK, NEW p \in Paths, Vouches(p)
  PROVE  rows[p].link \in Links /\ rows[p].stamp \in Nat \ {0}
BY DEF TypeOK, Table, Row, Vouches

\* A step other than Records leaves a row, or it stops to count.
LEMMA RowsFrom ==
  ASSUME TypeOK, NEW e \in Engines, NEW p \in Paths,
         Quiet(e) \/ Begins(e) \/ Completes(e), Vouches(p)'
  PROVE  rows'[p] = rows[p] /\ Vouches(p)
<1>1. rows'[p] = rows[p]
  BY DEF Quiet, RowQuiet, Begins, Completes, Vouches
<1> QED BY <1>1 DEF Vouches

LEMMA RevQuiet ==
  ASSUME TypeOK, IInv, RevInv, [Next]_vars, NEW e, Engines = {e}, Quiet(e)
  PROVE  RevInv'
<1>c. /\ \A p \in Paths, s \in Nat \ {0} : Lost(p, s) => Lost(p, s)'
      /\ \A p \in Paths, s \in Nat \ {0} : Held(p, s) => Held(p, s)'
  BY HeldCarriedOver
<1>r. ASSUME NEW p \in Paths, Vouches(p)'
      PROVE  /\ rows'[p] = rows[p] /\ Vouches(p)
             /\ rows[p].link \in Links /\ rows[p].stamp \in Nat \ {0}
             /\ Lost(p, rows[p].stamp) => Lost(p, rows[p].stamp)'
             /\ Held(p, rows[p].stamp) => Held(p, rows[p].stamp)'
  <2>1. rows'[p] = rows[p] /\ Vouches(p)
    BY <1>r, RowsFrom
  <2>2. rows[p].link \in Links /\ rows[p].stamp \in Nat \ {0}
    BY <2>1, VouchedType
  <2>3. PICK s \in Nat \ {0} : s = rows[p].stamp
    BY <2>2
  <2>4. /\ Lost(p, s) => Lost(p, s)'
        /\ Held(p, s) => Held(p, s)'
    BY <1>c, <2>3
  <2> QED BY <2>1, <2>2, <2>3, <2>4 DEF Lost, Held
<1>1. UploadPhase'
  BY PhaseStep DEF RevInv
<1>2. RowsHeld'
  BY <1>r DEF RevInv, RowsHeld
<1>3. RowOwn'
  BY <1>r DEF RevInv, RowOwn, Quiet, SameOwn
<1>4. WalkOlder'
  <2> SUFFICES ASSUME NEW p \in Paths, seen'[e][p] # 0, Vouches(p)'
               PROVE  rows'[p].stamp = seen'[e][p] \/ Lost(p, rows[p].stamp)'
    BY DEF WalkOlder
  <2>1. CASE seen'[e][p] = seen[e][p]
    BY <1>r, <2>1 DEF RevInv, WalkOlder
  <2>2. CASE seen'[e][p] = local[p]
    BY <1>r, <2>2 DEF RevInv, RowsHeld, Held
  <2> QED BY <2>1, <2>2 DEF Quiet, SeenQuiet
<1>5. UploadOlder'
  <2> SUFFICES ASSUME NEW v \in up'[e]
               PROVE  /\ seen'[e][v.path] = 0
                      /\ Vouches(v.path)' =>
                           \/ Lost(v.path, rows[v.path].stamp)'
                           \/ rows'[v.path].link # v.link
    BY DEF UploadOlder, Vouches, Lost
  <2>1. PICK u \in up[e] : v.path = u.path /\ v.link = u.link
    BY DEF Quiet, UploadQuiet
  <2>2. u.path \in Paths
    BY DEF TypeOK, Upload
  <2>3. /\ seen[e][u.path] = 0
        /\ Vouches(u.path) =>
             Lost(u.path, rows[u.path].stamp) \/ rows[u.path].link # u.link
    BY DEF RevInv, UploadOlder
  <2>4. seen'[e][u.path] = 0
    BY <2>2, <2>3 DEF Quiet, SeenQuiet
  <2>5. Vouches(u.path)' =>
          Lost(u.path, rows[u.path].stamp)' \/ rows'[u.path].link # u.link
    BY <1>r, <2>2, <2>3
  <2> QED BY <2>1, <2>4, <2>5 DEF Vouches, Lost
<1>6. RecordOwn'
  <2> SUFFICES ASSUME NEW v \in up'[e], pc'[e] = "record"
               PROVE  remote'[v.link].own = v.content
    BY DEF RecordOwn
  <2>1. v \in up[e] /\ pc[e] = "record"
    BY DEF Quiet, UploadQuiet
  <2>2. v.link \in Links
    BY <2>1 DEF TypeOK, Upload
  <2> QED BY <2>1, <2>2 DEF RevInv, RecordOwn, Quiet, SameOwn
<1> QED BY <1>1, <1>2, <1>3, <1>4, <1>5, <1>6 DEF RevInv

LEMMA RevBegins ==
  ASSUME TypeOK, IInv, GivenRows, RevInv, [Next]_vars, NEW e, Engines = {e}, Begins(e)
  PROVE  RevInv'
<1>l. /\ UNCHANGED <<local, clock, rows>> /\ SameOwn /\ pc'[e] = "read"
      /\ \A p \in Paths : Vouches(p) => rows[p].link \in Links
  BY VouchedType DEF Begins
<1>p. PICK p \in Paths :
        /\ seen[e][p] # 0
        /\ seen' = [seen EXCEPT ![e][p] = 0]
        /\ \A u \in up'[e] :
             /\ u.path = p
             /\ Vouches(p) => rows[p].stamp # seen[e][p] \/ remote[u.link].status = "unused"
  BY DEF Begins
<1>s. \A q \in Paths : seen'[e][q] = IF q = p THEN 0 ELSE seen[e][q]
  BY <1>p DEF TypeOK
<1>1. UploadPhase'
  BY PhaseStep DEF RevInv
<1>2. RowsHeld'
  BY <1>l DEF RevInv, RowsHeld, Vouches, Held, Lost
<1>3. RowOwn'
  BY <1>l DEF RevInv, RowOwn, SameOwn, Vouches, Lost
<1>4. WalkOlder'
  BY <1>l, <1>s DEF RevInv, WalkOlder, Vouches, Lost
<1>5. UploadOlder'
  <2> SUFFICES ASSUME NEW u \in up'[e]
               PROVE  /\ seen'[e][u.path] = 0
                      /\ Vouches(u.path)' =>
                           \/ Lost(u.path, rows[u.path].stamp)'
                           \/ rows'[u.path].link # u.link
    BY DEF UploadOlder, Vouches, Lost
  <2>1. Vouches(p) => Lost(p, rows[p].stamp) \/ rows[p].link # u.link
    <3>1. CASE remote[u.link].status = "unused"
      BY <3>1 DEF GivenRows, Given, Vouches
    <3>2. CASE Vouches(p) /\ rows[p].stamp # seen[e][p]
      BY <1>p, <3>2 DEF RevInv, WalkOlder
    <3> QED BY <1>p, <3>1, <3>2
  <2>2. Vouches(p)' => Lost(p, rows[p].stamp)' \/ rows'[p].link # u.link
    BY <1>l, <2>1 DEF Vouches, Lost
  <2> QED BY <1>p, <1>s, <2>2
<1>6. RecordOwn'
  BY <1>l DEF RecordOwn
<1> QED BY <1>1, <1>2, <1>3, <1>4, <1>5, <1>6 DEF RevInv

LEMMA RevRecords ==
  ASSUME TypeOK, IInv, RevInv, [Next]_vars, NEW e, Engines = {e}, Records(e)
  PROVE  RevInv'
<1>l. /\ UNCHANGED <<local, clock, seen>> /\ SameOwn /\ pc[e] = "record" /\ up'[e] = {}
  BY DEF Records
<1>u. PICK u \in up[e] : rows' = Upsert(rows, u.path, u.link, u.stamp, "synced")
  BY DEF Records
<1>t. u.path \in Paths /\ u.link \in Links /\ u.link # NoLink /\ u.stamp \in Nat \ {0}
      /\ rows \in Table
  <2>1. u \in Upload /\ rows \in Table
    BY DEF TypeOK
  <2>2. u.stamp # 0
    BY DEF IInv, UploadHeld
  <2> QED BY <2>1, <2>2, NoLinkAssumption DEF Upload
<1>r. /\ rows'[u.path].link = u.link /\ rows'[u.path].stamp = u.stamp
      /\ \A q \in Paths \ {u.path} : rows'[q] = rows[q]
  BY <1>u, <1>t, UpsertAt DEF RowStates
<1>h. /\ Held(u.path, u.stamp)
      /\ u.content = u.stamp \/ Lost(u.path, u.stamp)
      /\ remote[u.link].own = u.content
      /\ seen[e][u.path] = 0
  BY <1>l DEF IInv, UploadHeld, RevInv, RecordOwn, UploadOlder
<1>v. \A q \in Paths \ {u.path} : Vouches(q)' <=> Vouches(q)
  BY <1>r DEF Vouches
<1>w. \A q \in Paths : Vouches(q) => rows[q].link \in Links
  BY VouchedType
<1>1. UploadPhase'
  BY PhaseStep DEF RevInv
<1>2. RowsHeld'
  <2> SUFFICES ASSUME NEW q \in Paths, Vouches(q)' PROVE Held(q, rows[q].stamp)'
    BY DEF RowsHeld
  <2>1. CASE q = u.path
    BY <1>l, <1>r, <1>h, <2>1 DEF Held, Lost
  <2>2. CASE q # u.path
    BY <1>l, <1>r, <1>v, <2>2 DEF RevInv, RowsHeld, Held, Lost
  <2> QED BY <2>1, <2>2
<1>3. RowOwn'
  <2> SUFFICES ASSUME NEW q \in Paths, Vouches(q)'
               PROVE  remote'[rows'[q].link].own = rows'[q].stamp \/ Lost(q, rows[q].stamp)'
    BY DEF RowOwn
  <2>1. CASE q = u.path
    BY <1>l, <1>t, <1>r, <1>h, <2>1 DEF Lost, SameOwn
  <2>2. CASE q # u.path
    BY <1>l, <1>r, <1>v, <1>w, <2>2 DEF RevInv, RowOwn, Lost, SameOwn
  <2> QED BY <2>1, <2>2
<1>4. WalkOlder'
  <2> SUFFICES ASSUME NEW q \in Paths, seen'[e][q] # 0, Vouches(q)'
               PROVE  rows'[q].stamp = seen'[e][q] \/ Lost(q, rows[q].stamp)'
    BY DEF WalkOlder
  <2>1. q # u.path
    BY <1>l, <1>h
  <2> QED BY <1>l, <1>r, <1>v, <2>1 DEF RevInv, WalkOlder, Lost
<1>5. UploadOlder' /\ RecordOwn'
  BY <1>l DEF UploadOlder, RecordOwn
<1> QED BY <1>1, <1>2, <1>3, <1>4, <1>5 DEF RevInv

\* No row vouches for what an upload of another path is about to replace.
OwnLinks ==
  \A e \in Engines : \A u \in up[e] : \A q \in Paths :
    Vouches(q) /\ rows[q].link = u.link => q = u.path

LEMMA RevCompletes ==
  ASSUME TypeOK, IInv, RevInv, OwnLinks, [Next]_vars, NEW e, Engines = {e}, Completes(e)
  PROVE  RevInv'
<1>c. /\ \A p \in Paths, s \in Nat \ {0} : Lost(p, s) => Lost(p, s)'
      /\ \A p \in Paths, s \in Nat \ {0} : Held(p, s) => Held(p, s)'
  BY HeldCarriedOver
<1>l. UNCHANGED <<local, rows, seen>>
  BY DEF Completes
<1>u. PICK u \in up[e] :
        /\ remote'[u.link].own = u.content
        /\ \A l \in Links \ {u.link} : remote'[l].own = remote[l].own
        /\ \/ up'[e] = up[e] /\ pc'[e] = "record"
           \/ up'[e] = {}
  BY DEF Completes
<1>t. u.path \in Paths /\ u.link \in Links
  BY DEF TypeOK, Upload
<1>h. /\ seen[e][u.path] = 0
      /\ Vouches(u.path) =>
           Lost(u.path, rows[u.path].stamp) \/ rows[u.path].link # u.link
      /\ \A v \in up[e] : v = u
  BY DEF RevInv, UploadOlder, IInv, OneUpload
<1>r. ASSUME NEW p \in Paths, Vouches(p)'
      PROVE  /\ rows'[p] = rows[p] /\ Vouches(p)
             /\ rows[p].link \in Links
             /\ Lost(p, rows[p].stamp) => Lost(p, rows[p].stamp)'
             /\ Held(p, rows[p].stamp) => Held(p, rows[p].stamp)'
  <2>1. rows'[p] = rows[p] /\ Vouches(p)
    BY <1>r, RowsFrom
  <2>2. rows[p].link \in Links /\ rows[p].stamp \in Nat \ {0}
    BY <2>1, VouchedType
  <2>3. PICK s \in Nat \ {0} : s = rows[p].stamp
    BY <2>2
  <2>4. /\ Lost(p, s) => Lost(p, s)'
        /\ Held(p, s) => Held(p, s)'
    BY <1>c, <2>3
  <2> QED BY <2>1, <2>2, <2>3, <2>4 DEF Lost, Held
<1>1. UploadPhase'
  BY PhaseStep DEF RevInv
<1>2. RowsHeld' /\ WalkOlder'
  BY <1>l, <1>r DEF RevInv, RowsHeld, WalkOlder
<1>3. RowOwn'
  <2> SUFFICES ASSUME NEW p \in Paths, Vouches(p)'
               PROVE  remote'[rows'[p].link].own = rows'[p].stamp \/ Lost(p, rows[p].stamp)'
    BY DEF RowOwn
  <2>1. CASE Lost(p, rows[p].stamp)
    BY <1>r, <2>1
  <2>2. CASE ~Lost(p, rows[p].stamp)
    <3>1. rows[p].link # u.link
      BY <1>h, <1>r, <2>2 DEF OwnLinks
    <3>2. remote'[rows[p].link].own = remote[rows[p].link].own
      BY <1>u, <1>r, <3>1
    <3> QED BY <1>r, <3>2 DEF RevInv, RowOwn
  <2> QED BY <2>1, <2>2
<1>4. UploadOlder'
  <2> SUFFICES ASSUME NEW v \in up'[e]
               PROVE  /\ seen'[e][v.path] = 0
                      /\ Vouches(v.path)' =>
                           \/ Lost(v.path, rows[v.path].stamp)'
                           \/ rows'[v.path].link # v.link
    BY DEF UploadOlder, Vouches, Lost
  <2>1. v = u
    BY <1>u, <1>h
  <2> QED BY <1>l, <1>t, <1>h, <1>r, <2>1
<1>5. RecordOwn'
  BY <1>u, <1>h DEF RecordOwn
<1> QED BY <1>1, <1>2, <1>3, <1>4, <1>5 DEF RevInv

LEMMA InitRev == Init => RevInv
BY DEF Init, RevInv, UploadPhase, RowsHeld, WalkOlder, UploadOlder, RecordOwn,
       RowOwn, Vouches, NoRow, NoStamps

LEMMA RevStep ==
  ASSUME TypeOK, IInv, GivenRows, RevInv, OwnLinks, [Next]_vars, NEW e, Engines = {e}
  PROVE  RevInv'
<1>1. Quiet(e) \/ Begins(e) \/ Completes(e) \/ Records(e)
  BY LoneStep DEF RevInv
<1> QED BY <1>1, RevQuiet, RevBegins, RevCompletes, RevRecords

\* A link fed from one path is not another row's.
LEMMA LinksAreOwn ==
  ASSUME TypeOK, LinkInv, "rename_local" \notin Strategies
  PROVE  OwnLinks
<1> SUFFICES ASSUME NEW e \in Engines, NEW u \in up[e], NEW q \in Paths,
                    Vouches(q), rows[q].link = u.link
             PROVE  q = u.path
  BY DEF OwnLinks
<1>1. u.path \in Paths /\ u.link \in Links
  BY DEF TypeOK, Upload
<1>2. Fed(q, u.link) /\ Fed(u.path, u.link)
  BY DEF Fed, Vouches
<1> QED BY <1>1, <1>2 DEF LinkInv, FedOnce, MayBeCopy

LEMMA RevMeans == TypeOK /\ RowOwn => RowMatchesLastRevision
BY DEF TypeOK, RowOwn, Vouches, Lost, RowMatchesLastRevision, LooksUploaded

\* With one pass at a time, and conflicts resolved otherwise than by rename_local,
\* what a row that counts says is what this device last gave to its link: no older
\* content is completed over it, nor that of another path, whatever is edited,
\* moved, lost, resolved or interrupted by a crash meanwhile.
THEOREM LastRevisionIsRecorded ==
  ASSUME NEW e, Engines = {e}, "rename_local" \notin Strategies
  PROVE  Spec => []RowMatchesLastRevision
<1> DEFINE Inv == IInv /\ GivenInv /\ RevInv /\ LinkInv
<1>1. Init => Inv
  BY InitInv, InitGiven, InitRev, InitLinks
<1>2. TypeOK /\ Inv /\ [Next]_vars => Inv'
  BY IInvStep, GivenStep, RevStep, LinkStep, LinksAreOwn DEF GivenInv
<1>3. TypeOK /\ Inv => RowMatchesLastRevision
  BY RevMeans DEF RevInv
<1> QED BY <1>1, <1>2, <1>3, TypeCorrect, PTL DEF Spec

\* The same over one path, rename_local included: its copy is the path itself.
THEOREM LastRevisionOfOnePath ==
  ASSUME NEW e, Engines = {e}, NEW p, Paths = {p}
  PROVE  Spec => []RowMatchesLastRevision
<1> DEFINE Inv == IInv /\ GivenInv /\ RevInv
<1>1. Init => Inv
  BY InitInv, InitGiven, InitRev
<1>2. TypeOK /\ Inv /\ [Next]_vars => Inv'
  <2> SUFFICES ASSUME TypeOK, Inv, [Next]_vars PROVE Inv'
    OBVIOUS
  <2>1. OwnLinks
    BY DEF OwnLinks, TypeOK, Upload
  <2> QED BY <2>1, IInvStep, GivenStep, RevStep DEF GivenInv
<1>3. TypeOK /\ Inv => RowMatchesLastRevision
  BY RevMeans DEF RevInv
<1> QED BY <1>1, <1>2, <1>3, TypeCorrect, PTL DEF Spec

-----------------------------------------------------------------------------
(* PassNearsEnd *)

\* The snapshot of a pass has no more entries than there are links.
TodoSmall ==
  \A e \in Engines : IsFiniteSet(todo[e]) /\ Cardinality(todo[e]) <= Cardinality(Links)

LEMMA Counts ==
  ASSUME IsFiniteSet(Paths), TypeOK, TodoSmall, NEW e \in Engines
  PROVE  /\ Cardinality(Paths) \in Nat
         /\ Cardinality(todo[e]) \in Nat
         /\ IsFiniteSet(visit[e]) /\ Cardinality(visit[e]) \in 0..Cardinality(Paths)
         /\ IsFiniteSet(Found(e)) /\ Cardinality(Found(e)) \in 0..Cardinality(Paths)
<1>1. Cardinality(Paths) \in Nat /\ Cardinality(todo[e]) \in Nat
  BY FS_CardinalityType DEF TodoSmall
<1>2. ASSUME NEW S \in SUBSET Paths
      PROVE  IsFiniteSet(S) /\ Cardinality(S) \in 0..Cardinality(Paths)
  <2>1. IsFiniteSet(S) /\ Cardinality(S) <= Cardinality(Paths)
    BY FS_Subset
  <2>2. Cardinality(S) \in Nat
    BY <2>1, FS_CardinalityType
  <2> QED BY <1>1, <2>1, <2>2
<1>3. visit[e] \in SUBSET Paths /\ Found(e) \in SUBSET Paths
  BY DEF TypeOK, Found
<1> QED BY <1>1, <1>2, <1>3

\* What is left in each part of a pass.
LEMMA LeftIn ==
  ASSUME NEW e
  PROVE  /\ pc[e] = "idle" => StepsLeft(e) = 0
         /\ pc[e] = "stalled" => StepsLeft(e) = 1
         /\ pc[e] = "files" => StepsLeft(e) = FilesLeft(e)
         /\ pc[e] = "mark" => StepsLeft(e) = FilesLeft(e) + 1
         /\ pc[e] = "compare" => StepsLeft(e) = FilesLeft(e) + 2
         /\ pc[e] = "walk" =>
              StepsLeft(e) = Cardinality(visit[e]) + 4 * Cardinality(Paths) + 2
         /\ pc[e] = "uploads" => StepsLeft(e) = 4 * Cardinality(Found(e)) + 1
         /\ pc[e] = "record" => StepsLeft(e) = 4 * Cardinality(Found(e)) + 2
         /\ pc[e] = "send" => StepsLeft(e) = 4 * Cardinality(Found(e)) + 3
         /\ pc[e] = "read" => StepsLeft(e) = 4 * Cardinality(Found(e)) + 4
BY DEF StepsLeft

\* What the next state has left.
LEMMA LeftNext ==
  ASSUME NEW e
  PROVE  /\ pc'[e] = "idle" => StepsLeft(e)' = 0
         /\ pc'[e] = "stalled" => StepsLeft(e)' = 1
         /\ pc'[e] = "files" => StepsLeft(e)' = FilesLeft(e)'
         /\ pc'[e] = "mark" => StepsLeft(e)' = FilesLeft(e)' + 1
         /\ pc'[e] = "compare" => StepsLeft(e)' = FilesLeft(e)' + 2
         /\ pc'[e] = "walk" =>
              StepsLeft(e)' = Cardinality(visit'[e]) + 4 * Cardinality(Paths) + 2
         /\ pc'[e] = "uploads" => StepsLeft(e)' = 4 * Cardinality(Found(e)') + 1
         /\ pc'[e] = "record" => StepsLeft(e)' = 4 * Cardinality(Found(e)') + 2
         /\ pc'[e] = "send" => StepsLeft(e)' = 4 * Cardinality(Found(e)') + 3
         /\ pc'[e] = "read" => StepsLeft(e)' = 4 * Cardinality(Found(e)') + 4
BY DEF StepsLeft, Found

\* The part of it before the walk.
LEMMA LeftOfFiles ==
  ASSUME NEW e
  PROVE  /\ FilesLeft(e) = 3 * Cardinality(todo[e]) + 5 * Cardinality(Paths) + 3
         /\ FilesLeft(e)' = 3 * Cardinality(todo'[e]) + 5 * Cardinality(Paths) + 3
BY DEF FilesLeft

LEMMA OwnStepShortens ==
  ASSUME IsFiniteSet(Paths), TypeOK, TodoSmall, NEW e \in Engines, PassStep(e)
  PROVE  StepsLeft(e)' < StepsLeft(e)
<1>t. /\ pc \in [Engines -> Places]
      /\ todo \in [Engines -> SUBSET Entry]
      /\ seen \in [Engines -> [Paths -> Nat]]
      /\ visit \in [Engines -> SUBSET Paths]
  BY DEF TypeOK
<1>n. /\ Cardinality(Paths) \in Nat /\ Cardinality(todo[e]) \in Nat
      /\ IsFiniteSet(visit[e]) /\ Cardinality(visit[e]) \in 0..Cardinality(Paths)
      /\ IsFiniteSet(Found(e)) /\ Cardinality(Found(e)) \in 0..Cardinality(Paths)
  BY Counts
<1>k. seen' = seen => Found(e)' = Found(e)
  BY DEF Found
<1>1. ASSUME NEW x \in todo[e], CompareRemote(e, x) PROVE StepsLeft(e)' < StepsLeft(e)
  <2>1. /\ pc[e] = "files" /\ pc'[e] \in {"files", "mark", "compare"}
        /\ todo'[e] = todo[e] \ {x}
    BY <1>t, <1>1 DEF CompareRemote
  <2>2. Cardinality(todo'[e]) = Cardinality(todo[e]) - 1
    BY <2>1, FS_RemoveElement DEF TodoSmall
  <2>3. StepsLeft(e) = FilesLeft(e)
    BY <2>1, LeftIn
  <2>4. StepsLeft(e)' \in {FilesLeft(e)', FilesLeft(e)' + 1, FilesLeft(e)' + 2}
    BY <2>1, LeftNext
  <2> DEFINE c == Cardinality(todo[e])
             d == Cardinality(todo'[e])
             n == Cardinality(Paths)
  <2>5. c \in Nat /\ n \in Nat /\ d = c - 1
    BY <1>n, <2>2
  <2>6. FilesLeft(e) = 3 * c + 5 * n + 3 /\ FilesLeft(e)' = 3 * d + 5 * n + 3
    BY LeftOfFiles
  <2> HIDE DEF c, d, n
  <2> QED BY <2>3, <2>4, <2>5, <2>6
<1>2. CASE MarkConflict(e) \/ MarkPending(e) \/ StatLocal(e)
  <2>1. todo' = todo
    BY <1>2 DEF MarkConflict, MarkPending, StatLocal
  <2>2. \/ pc[e] = "compare" /\ pc'[e] = "mark"
        \/ pc[e] = "mark" /\ pc'[e] = "files"
    BY <1>t, <1>2 DEF MarkConflict, MarkPending, StatLocal
  <2> QED BY <1>n, <2>1, <2>2, LeftIn, LeftNext, LeftOfFiles
<1>3. CASE StartWalk(e)
  <2>1. pc[e] = "files" /\ pc'[e] = "walk" /\ visit'[e] = Paths
    BY <1>t, <1>3 DEF StartWalk
  <2> QED BY <1>n, <2>1, LeftIn, LeftNext, LeftOfFiles
<1>4. ASSUME NEW p \in Paths, WalkFile(e, p) PROVE StepsLeft(e)' < StepsLeft(e)
  <2>1. /\ pc[e] = "walk" /\ pc'[e] = "walk"
        /\ p \in visit[e] /\ visit'[e] = visit[e] \ {p}
    BY <1>t, <1>4 DEF WalkFile
  <2>2. Cardinality(visit'[e]) = Cardinality(visit[e]) - 1
    BY <1>n, <2>1, FS_RemoveElement
  <2>3. StepsLeft(e) = Cardinality(visit[e]) + 4 * Cardinality(Paths) + 2
    BY <2>1, LeftIn
  <2>4. StepsLeft(e)' = Cardinality(visit'[e]) + 4 * Cardinality(Paths) + 2
    BY <2>1, LeftNext
  <2> DEFINE c == Cardinality(visit[e])
             d == Cardinality(visit'[e])
             n == Cardinality(Paths)
  <2>5. c \in Nat /\ n \in Nat /\ d = c - 1
    BY <1>n, <2>2
  <2>6. StepsLeft(e) = c + 4 * n + 2 /\ StepsLeft(e)' = d + 4 * n + 2
    BY <2>3, <2>4
  <2> HIDE DEF c, d, n
  <2> QED BY <2>5, <2>6
<1>5. CASE StartUploads(e)
  <2>1. pc[e] = "walk" /\ pc'[e] = "uploads" /\ seen' = seen
    BY <1>t, <1>5 DEF StartUploads
  <2> QED BY <1>n, <1>k, <2>1, LeftIn, LeftNext
<1>6. CASE WalkFails(e) \/ FinishPass(e) \/ Stall(e)
  <2>1. \/ pc[e] \in {"walk", "uploads"} /\ pc'[e] = "idle"
        \/ pc[e] \in {"files", "walk", "read", "send", "record"} /\ pc'[e] = "stalled"
    BY <1>t, <1>6 DEF WalkFails, FinishPass, Stall, LeavePass
  <2> QED BY <1>n, <2>1, LeftIn, LeftNext, LeftOfFiles
<1>7. ASSUME NEW p \in Paths, seen[e][p] # 0, seen' = [seen EXCEPT ![e][p] = 0],
             pc[e] = "uploads", pc'[e] \in {"uploads", "read"}
      PROVE  StepsLeft(e)' < StepsLeft(e)
  <2>1. Found(e)' = Found(e) \ {p} /\ p \in Found(e)
    BY <1>t, <1>7 DEF Found
  <2>2. Cardinality(Found(e)') = Cardinality(Found(e)) - 1
    BY <1>n, <2>1, FS_RemoveElement
  <2> QED BY <1>n, <1>7, <2>2, LeftIn, LeftNext
<1>8. ASSUME NEW p \in Paths, VisitSkipped(e, p) \/ BeginRevision(e, p) \/ RejectLink(e, p)
      PROVE  StepsLeft(e)' < StepsLeft(e)
  <2>1. /\ seen[e][p] # 0 /\ seen' = [seen EXCEPT ![e][p] = 0]
        /\ pc[e] = "uploads" /\ pc'[e] \in {"uploads", "read"}
    BY <1>t, <1>8 DEF VisitSkipped, BeginRevision, RejectLink
  <2> QED BY <1>7, <2>1
<1>9. ASSUME NEW p \in Paths, NEW l \in Links, NEW b \in BOOLEAN, CreateLink(e, p, l, b)
      PROVE  StepsLeft(e)' < StepsLeft(e)
  <2>1. /\ seen[e][p] # 0 /\ seen' = [seen EXCEPT ![e][p] = 0]
        /\ pc[e] = "uploads" /\ pc'[e] = "read"
    BY <1>t, <1>9 DEF CreateLink
  <2> QED BY <1>7, <2>1
<1>10. CASE \/ ReadContent(e) \/ AbandonUpload(e) \/ CompleteRevision(e)
            \/ LoseCompletion(e) \/ RecordUpload(e)
  <2>1. seen' = seen
    BY <1>10 DEF ReadContent, AbandonUpload, CompleteRevision, LoseCompletion, RecordUpload
  <2>2. \/ pc[e] = "read" /\ pc'[e] \in {"send", "uploads"}
        \/ pc[e] = "send" /\ pc'[e] \in {"record", "uploads"}
        \/ pc[e] = "record" /\ pc'[e] = "uploads"
    BY <1>t, <1>10 DEF ReadContent, AbandonUpload, CompleteRevision, LoseCompletion,
       RecordUpload
  <2> QED BY <1>n, <1>k, <2>1, <2>2, LeftIn, LeftNext
<1> QED
  BY <1>1, <1>2, <1>3, <1>4, <1>5, <1>6, <1>8, <1>9, <1>10 DEF PassStep

\* Nobody else gives a pass anything to do.
LEMMA OthersPass ==
  ASSUME TypeOK, NEW e \in Engines, NEW f \in Engines \ {e}, StartPass(f) \/ PassStep(f)
  PROVE  PassOf(e)' = PassOf(e)
<1>t. /\ todo \in [Engines -> SUBSET Entry] /\ cur \in [Engines -> SUBSET Comparison]
      /\ seen \in [Engines -> [Paths -> Nat]] /\ visit \in [Engines -> SUBSET Paths]
      /\ byPath \in [Engines -> [Paths -> Links \cup {NoLink}]]
  BY DEF TypeOK
<1>1. CASE \/ StartPass(f) \/ \E x \in todo[f] : CompareRemote(f, x)
           \/ MarkConflict(f) \/ MarkPending(f) \/ StatLocal(f)
           \/ StartWalk(f) \/ StartUploads(f)
           \/ \E p \in Paths : WalkFile(f, p)
  <2>1. /\ todo'[e] = todo[e] /\ cur'[e] = cur[e] /\ seen'[e] = seen[e]
        /\ visit'[e] = visit[e] /\ byPath'[e] = byPath[e]
    BY <1>t, <1>1 DEF StartPass, CompareRemote, MarkConflict, MarkPending, StatLocal,
       StartWalk, WalkFile, StartUploads
  <2> QED BY <2>1, OthersUploads DEF PassOf
<1>2. CASE \/ WalkFails(f) \/ FinishPass(f) \/ Stall(f) \/ AbandonUpload(f)
           \/ LoseCompletion(f) \/ RecordUpload(f) \/ CompleteRevision(f)
  <2>1. /\ todo'[e] = todo[e] /\ cur'[e] = cur[e] /\ seen'[e] = seen[e]
        /\ visit'[e] = visit[e] /\ byPath'[e] = byPath[e]
    BY <1>t, <1>2 DEF WalkFails, FinishPass, Stall, LeavePass, AbandonUpload, LoseCompletion,
       RecordUpload, CompleteRevision
  <2> QED BY <2>1, OthersUploads DEF PassOf
<1>3. CASE \/ \E p \in Paths : VisitSkipped(f, p)
           \/ \E p \in Paths : BeginRevision(f, p)
           \/ \E p \in Paths : RejectLink(f, p)
           \/ \E p \in Paths, l \in Links, b \in BOOLEAN : CreateLink(f, p, l, b)
           \/ ReadContent(f)
  <2>1. /\ todo'[e] = todo[e] /\ cur'[e] = cur[e] /\ seen'[e] = seen[e]
        /\ visit'[e] = visit[e] /\ byPath'[e] = byPath[e]
    BY <1>t, <1>3 DEF VisitSkipped, RejectLink, BeginRevision, CreateLink, ReadContent
  <2> QED BY <2>1, OthersUploads DEF PassOf
<1> QED BY <1>1, <1>2, <1>3 DEF PassStep

LEMMA PassShortens ==
  ASSUME IsFiniteSet(Paths), TypeOK, TodoSmall, [Next]_vars, NEW e \in Engines,
         pc[e] # "idle"
  PROVE  PassOf(e)' = PassOf(e) \/ StepsLeft(e)' < StepsLeft(e)
<1>1. CASE Environment \/ Resolve \/ UNCHANGED vars
  BY <1>1 DEF Environment, UserEdit, UserDelete, OtherUpload, OtherMove, OtherDelete,
     Resolve, ChooseResolution, ResolveLocal, RenameLocal, RenamePending, RenameRecord,
     ResolveFails, vars, engineVars, PassOf
<1>2. CASE Crash
  <2>1. pc'[e] = "idle"
    BY <1>2 DEF Crash
  <2>2. pc[e] \in Places \ {"idle"}
    BY DEF TypeOK
  <2> QED BY <2>1, <2>2, Counts, LeftIn, LeftNext, LeftOfFiles DEF Places
<1>3. CASE \E f \in Engines \ {e} : StartPass(f) \/ PassStep(f)
  BY <1>3, OthersPass
<1>4. CASE StartPass(e) \/ PassStep(e)
  BY <1>4, OwnStepShortens DEF StartPass
<1> QED BY <1>1, <1>2, <1>3, <1>4 DEF Next

LEMMA ListingSmall ==
  ASSUME IsFiniteSet(Links)
  PROVE  IsFiniteSet(Listing) /\ Cardinality(Listing) <= Cardinality(Links)
<1> DEFINE S == {k \in Links : Listed(k)}
           f == [l \in S |->
                   [link |-> l, path |-> remote[l].path, stamp |-> remote[l].stamp]]
<1>1. S \in SUBSET Links
  OBVIOUS
<1>2. f \in Surjection(S, Listing)
  BY DEF Listing, Surjection
<1> HIDE DEF S, f
<1>3. IsFiniteSet(S) /\ Cardinality(S) <= Cardinality(Links)
  BY <1>1, FS_Subset
<1>4. IsFiniteSet(Listing) /\ Cardinality(Listing) <= Cardinality(S)
  BY <1>2, <1>3, FS_Surjection
<1>5. Cardinality(S) \in Nat /\ Cardinality(Links) \in Nat /\ Cardinality(Listing) \in Nat
  BY <1>3, <1>4, FS_CardinalityType
<1> QED BY <1>3, <1>4, <1>5

LEMMA TodoSmallStep ==
  ASSUME IsFiniteSet(Links), TypeOK, TodoSmall, [Next]_vars
  PROVE  TodoSmall'
<1> SUFFICES ASSUME NEW e \in Engines
             PROVE  IsFiniteSet(todo'[e]) /\ Cardinality(todo'[e]) <= Cardinality(Links)
  BY DEF TodoSmall
<1>n. IsFiniteSet(todo[e]) /\ Cardinality(todo[e]) <= Cardinality(Links)
      /\ Cardinality(todo[e]) \in Nat /\ Cardinality(Links) \in Nat
  BY FS_CardinalityType DEF TodoSmall
<1>t. todo \in [Engines -> SUBSET Entry]
  BY DEF TypeOK
<1>1. CASE todo'[e] = todo[e]
  BY <1>n, <1>1
<1>2. CASE todo'[e] = {}
  BY <1>n, <1>2, FS_EmptySet
<1>3. CASE StartPass(e)
  BY <1>t, <1>3, ListingSmall DEF StartPass
<1>4. ASSUME NEW x \in todo[e], CompareRemote(e, x)
      PROVE  IsFiniteSet(todo'[e]) /\ Cardinality(todo'[e]) <= Cardinality(Links)
  <2>1. todo'[e] = todo[e] \ {x}
    BY <1>t, <1>4 DEF CompareRemote
  <2>2. IsFiniteSet(todo'[e]) /\ Cardinality(todo'[e]) = Cardinality(todo[e]) - 1
    BY <1>n, <2>1, FS_RemoveElement
  <2> DEFINE c == Cardinality(todo[e])
             d == Cardinality(todo'[e])
             n == Cardinality(Links)
  <2>3. c \in Nat /\ n \in Nat /\ d = c - 1 /\ c <= n
    BY <1>n, <2>2
  <2>4. d <= n
    <3> HIDE DEF c, d, n
    <3> QED BY <2>3
  <2> QED BY <2>2, <2>4
<1>5. CASE PassStep(e)
  <2>1. \/ \E x \in todo[e] : CompareRemote(e, x)
        \/ todo'[e] = todo[e]
        \/ todo'[e] = {}
    BY <1>t, <1>5 DEF PassStep, MarkConflict, MarkPending, StatLocal, StartWalk,
       WalkFile, StartUploads, WalkFails, FinishPass, Stall, LeavePass, VisitSkipped,
       BeginRevision, CreateLink, RejectLink, ReadContent, AbandonUpload,
       CompleteRevision, LoseCompletion, RecordUpload
  <2> QED BY <1>1, <1>2, <1>4, <2>1
<1>6. CASE \E f \in Engines \ {e} : StartPass(f) \/ PassStep(f)
  BY <1>1, <1>6, OthersPass DEF PassOf
<1>7. CASE Environment \/ Resolve \/ UNCHANGED vars \/ Crash
  <2>1. todo' = todo \/ todo'[e] = {}
    BY <1>7 DEF Environment, UserEdit, UserDelete, OtherUpload, OtherMove, OtherDelete,
       Resolve, ChooseResolution, ResolveLocal, RenameLocal, RenamePending, RenameRecord,
       ResolveFails, Crash, vars, engineVars
  <2> QED BY <1>1, <1>2, <2>1
<1> QED BY <1>3, <1>5, <1>6, <1>7 DEF Next

LEMMA InitTodo == IsFiniteSet(Links) /\ Init => TodoSmall
BY FS_EmptySet, FS_CardinalityType DEF Init, TodoSmall

\* With finitely many paths and links, each step of a pass brings it nearer its end,
\* and no one else's takes it farther away.
THEOREM PassesNearEnd ==
  ASSUME IsFiniteSet(Paths), IsFiniteSet(Links)
  PROVE  Spec => PassNearsEnd
<1>1. Init => TodoSmall
  BY InitTodo
<1>2. TypeOK /\ TodoSmall /\ [Next]_vars => TodoSmall'
  BY TodoSmallStep
<1>3. TypeOK /\ TodoSmall /\ [Next]_vars =>
        [\A e \in Engines : pc[e] # "idle" =>
           PassOf(e)' = PassOf(e) \/ StepsLeft(e)' < StepsLeft(e)]_vars
  BY PassShortens
<1> QED BY <1>1, <1>2, <1>3, TypeCorrect, PTL DEF Spec, PassNearsEnd

\* A pass that starts has this many steps before it at most, and so takes no more:
\* the loops over the snapshot, the disk and the files found (sync/mod.rs, lines
\* 237-327 and 740-1290).
PassBound == 3 * Cardinality(Links) + 5 * Cardinality(Paths) + 5
PassFitsBound == \A e \in Engines : StepsLeft(e) <= PassBound

THEOREM PassesAreBounded ==
  ASSUME IsFiniteSet(Paths), IsFiniteSet(Links)
  PROVE  Spec => []PassFitsBound
<1>1. Init => TodoSmall
  BY InitTodo
<1>2. TypeOK /\ TodoSmall /\ [Next]_vars => TodoSmall'
  BY TodoSmallStep
<1>3. TypeOK /\ TodoSmall => PassFitsBound
  <2> SUFFICES ASSUME TypeOK, TodoSmall, NEW e \in Engines PROVE StepsLeft(e) <= PassBound
    BY DEF PassFitsBound
  <2>1. pc[e] \in Places
    BY DEF TypeOK
  <2>2. /\ Cardinality(Paths) \in Nat /\ Cardinality(Links) \in Nat
        /\ Cardinality(todo[e]) \in 0..Cardinality(Links)
        /\ Cardinality(visit[e]) \in 0..Cardinality(Paths)
        /\ Cardinality(Found(e)) \in 0..Cardinality(Paths)
    BY Counts, FS_CardinalityType DEF TodoSmall
  <2> QED BY <2>1, <2>2, LeftIn, LeftOfFiles DEF PassBound, Places
<1> QED BY <1>1, <1>2, <1>3, TypeCorrect, PTL DEF Spec
=============================================================================
