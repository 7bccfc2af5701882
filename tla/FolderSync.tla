------------------------------- MODULE FolderSync -------------------------------
(***************************************************************************)
(* Folders on both sides: the part of a pass that makes local directories  *)
(* of remote folders and remote folders of local directories               *)
(* (crates/proton-core/src/sync/mod.rs), next to other passes, to          *)
(* drive.create_folder and drive.rename (crates/protond/src/handler.rs),   *)
(* to the user and to other devices.                                       *)
(*                                                                         *)
(* A path is the sequence of its names.  The root is no entry of the walk, *)
(* so the folders directly below it have the empty path, and those below   *)
(* them the paths of the first level.  The walk is taken as a snapshot     *)
(* here; DriveWalk has what happens while it runs.                         *)
(*                                                                         *)
(* The server keeps a hash of a link's name and refuses a second active    *)
(* link with the same one in a folder; drive.rename leaves the old hash.   *)
(***************************************************************************)
EXTENDS Naturals, FiniteSets, Functions, SequencesExt

CONSTANTS
  Engines,    \* passes that may run at the same time
  Links,      \* link ids, in the order the server issues them
  Root,
  Paths,      \* bound: paths the user may make a directory at
  Names,
  None,
  Tree,       \* the folders there are at the start
  MaxChanges  \* bound: changes by the user, requests and other devices

ASSUME LinksAssumption ==
  Links \subseteq Nat \ {Root} /\ None \notin Names \cup Links \cup {Root}
ASSUME PathsAssumption ==
  \A p \in Paths : p \in Seq(Names) /\ p # <<>> /\ (Len(p) = 1 \/ Front(p) \in Paths)
\* A folder's trail: the folders it is in from the first level down, and itself.
Folder == [trail : Seq(Links), name : Names \cup {None}, hash : Names \cup {None},
           state : {"unused", "active", "trashed"}]
IsForest(links) ==
  \A l \in Links : links[l].state # "unused" =>
    /\ links[l].name \in Names
    /\ links[l].trail # <<>> /\ Last(links[l].trail) = l
    /\ \A i \in DOMAIN links[l].trail :
         LET above == links[links[l].trail[i]]
         IN  /\ above.state # "unused" /\ Len(above.trail) = i
             /\ \A j \in 1..i : above.trail[j] = links[l].trail[j]
ASSUME TreeAssumption == Tree \in [Links -> Folder] /\ IsForest(Tree)

VARIABLES
  link,     \* the folders on the server
  dirs,     \* the local directories
  pass,     \* where each pass is, and its snapshot
  changes,
  asked     \* history: names somebody gave a folder or a directory, with the depth

vars == <<link, dirs, pass, changes, asked>>

-----------------------------------------------------------------------------
(* The server *)

InState(state) == {l \in Links : link[l].state = state}
Active == InState("active")

\* Nobody moves a folder here, so the folders a link is in stay the same.
Parent(l) == IF Len(link[l].trail) = 1 THEN Root ELSE Last(Front(link[l].trail))
Siblings(f) == {l \in Active : Parent(l) = f}

\* Reached by the walk: trashed folders are listed, and not entered.
Entered == {Root} \cup {l \in Active : Range(link[l].trail) \subseteq Active}
Listed == {l \in Active \cup InState("trashed") : Parent(l) \in Entered}

PathIn(links, l) ==
  [i \in 1..(Len(links[l].trail) - 1) |-> links[links[l].trail[i + 1]].name]
PathOf(l) == PathIn(link, l)
LinksAt(p) == {l \in Listed : PathOf(l) = p}
RemotePaths == {PathOf(l) : l \in Listed}
Spot(p) == <<Len(p), Last(p)>>

Fresh == CHOOSE l \in InState("unused") : \A k \in InState("unused") : l <= k

\* POST links: the name is not compared, its hash is.
Accepts(f, name) ==
  /\ InState("unused") # {}
  /\ f \in Entered
  /\ \A l \in Siblings(f) : link[l].hash # name
AddFolder(f, name) ==
  link' = [link EXCEPT ![Fresh] =
             [trail |-> (IF f = Root THEN <<>> ELSE link[f].trail) \o <<Fresh>>,
              name |-> name, hash |-> name, state |-> "active"]]

-----------------------------------------------------------------------------
(* The user, other devices, and requests of the daemon *)

NoPass == [at |-> "idle", known |-> <<>>, kr |-> {}, todo |-> {}]
Stalled == [at |-> "stalled", known |-> <<>>, kr |-> {}, todo |-> {}]

Init ==
  /\ link = Tree
  /\ dirs = {}
  /\ pass = [e \in Engines |-> NoPass]
  /\ changes = 0
  /\ asked = {Spot(p) : p \in RemotePaths \ {<<>>}}

Change == changes < MaxChanges /\ changes' = changes + 1

UserMakesDir(p) ==
  /\ Change
  /\ p \notin dirs /\ (Len(p) = 1 \/ Front(p) \in dirs)
  /\ dirs' = dirs \cup {p}
  /\ asked' = asked \cup {Spot(p)}
  /\ UNCHANGED <<link, pass>>

UserRemovesDir(p) ==
  /\ Change
  /\ p \in dirs
  /\ dirs' = {d \in dirs : ~IsPrefix(p, d)}
  /\ UNCHANGED <<link, pass, asked>>

OtherFolder(f, name) ==
  /\ Change
  /\ Accepts(f, name) /\ AddFolder(f, name)
  /\ asked' = asked \cup {Spot(p) : p \in {PathIn(link', Fresh)} \ {<<>>}}
  /\ UNCHANGED <<dirs, pass>>

OtherTrash(l) ==
  /\ Change
  /\ l \in Active
  /\ link' = [link EXCEPT ![l].state = "trashed"]
  /\ UNCHANGED <<dirs, pass, asked>>

\* The keyring of a request has the root's key, and unlocks one folder more
\* with the key of that folder's parent.
KeyAtHand(f) == f \in {Root} \cup {l \in Active \cup InState("trashed") : Parent(l) = Root}

\* drive.create_folder
CreateFolder(f, name) == KeyAtHand(f) /\ OtherFolder(f, name)

\* drive.rename: the request has a new name and no hash of it.
Rename(l, name) ==
  /\ Change
  /\ l \in Listed /\ link[l].name # name
  /\ KeyAtHand(Parent(l))
  /\ link' = [link EXCEPT ![l].name = name]
  /\ asked' = asked \cup {Spot(p) : p \in {PathIn(link', l)} \ {<<>>}}
  /\ UNCHANGED <<dirs, pass>>

-----------------------------------------------------------------------------
(* A pass *)

Go(e, from, to) == pass[e].at = from /\ pass' = [pass EXCEPT ![e] = to]

\* The map from paths to folders keeps the last of those at a path, in an
\* order that is the server's.
Walk(e) ==
  /\ pass[e].at = "idle"
  /\ \E last \in SUBSET Listed :
       /\ Cardinality(last) = Cardinality(RemotePaths)
       /\ {PathOf(l) : l \in last} = RemotePaths
       /\ LET known == [p \in RemotePaths |-> CHOOSE l \in last : PathOf(l) = p]
          IN  Go(e, "idle", [at |-> "dirs", known |-> known, kr |-> Entered, todo |-> {}])
  /\ UNCHANGED <<link, dirs, changes, asked>>

\* (mistake: create_dir in place of create_dir_all)
MakeDirs_Shallow(e) ==
  /\ Go(e, "dirs", [pass[e] EXCEPT !.at = "scan"])
  /\ \E made \in SUBSET (DOMAIN pass[e].known \ (dirs \cup {<<>>})) :
       dirs' = dirs \cup made
  /\ UNCHANGED <<link, changes, asked>>

\* create_dir_all for every folder of the walk that has a path; any may fail.
MakeDirs(e) ==
  /\ Go(e, "dirs", [pass[e] EXCEPT !.at = "scan"])
  /\ \E made \in SUBSET (DOMAIN pass[e].known \ (dirs \cup {<<>>})) :
       dirs' = dirs \cup UNION {{SubSeq(p, 1, n) : n \in 1..Len(p)} : p \in made}
  /\ UNCHANGED <<link, changes, asked>>

\* The directories the walk has no folder for.
Scan(e) ==
  /\ Go(e, "scan", [pass[e] EXCEPT !.at = "create",
                                   !.todo = dirs \ DOMAIN pass[e].known])
  /\ UNCHANGED <<link, dirs, changes, asked>>

\* Sorted by depth.
Shallowest(e) == {p \in pass[e].todo : \A q \in pass[e].todo : Len(p) <= Len(q)}

\* (mistake: the nearest folder above that is known)
Target_Nearest(e, p) ==
  LET above == {n \in 1..(Len(p) - 1) : SubSeq(p, 1, n) \in DOMAIN pass[e].known}
  IN  IF above = {} THEN None
      ELSE pass[e].known[SubSeq(p, 1, CHOOSE n \in above : \A k \in above : k <= n)]

\* The folder a new one goes to: never the one at the empty path.
Target(e, p) ==
  IF Len(p) > 1 /\ Front(p) \in DOMAIN pass[e].known
  THEN pass[e].known[Front(p)] ELSE None

\* A folder made in this pass is known, but its key is not in the keyring.
Ready(e, p) == Target(e, p) \in pass[e].kr

\* The rest of the list, and what is known after p.
Rest(e, p, known) == [pass[e] EXCEPT !.todo = @ \ {p}, !.known = known]

\* (mistake: the first error ends the list)
SkipDir_Ends(e, p) ==
  /\ p \in Shallowest(e)
  /\ Go(e, "create", [pass[e] EXCEPT !.todo = {}])
  /\ UNCHANGED <<link, dirs, changes, asked>>

\* An error of any kind: no parent, no key, the server's refusal.
SkipDir(e, p) ==
  /\ p \in Shallowest(e)
  /\ Go(e, "create", Rest(e, p, pass[e].known))
  /\ UNCHANGED <<link, dirs, changes, asked>>

MakeFolder(e, p) ==
  /\ p \in Shallowest(e)
  /\ Ready(e, p)
  /\ Accepts(Target(e, p), Last(p))
  /\ AddFolder(Target(e, p), Last(p))
  /\ Go(e, "create",
        Rest(e, p, [q \in DOMAIN pass[e].known \cup {p} |->
                      IF q = p THEN Fresh ELSE pass[e].known[q]]))
  /\ UNCHANGED <<dirs, changes, asked>>

\* The server has made the folder, and its answer is lost.
LoseAnswer(e, p) ==
  /\ p \in Shallowest(e)
  /\ Ready(e, p)
  /\ Accepts(Target(e, p), Last(p))
  /\ AddFolder(Target(e, p), Last(p))
  /\ Go(e, "create", Rest(e, p, pass[e].known))
  /\ UNCHANGED <<dirs, changes, asked>>

FinishPass(e) ==
  /\ pass[e].todo = {}
  /\ Go(e, "create", NoPass)
  /\ UNCHANGED <<link, dirs, changes, asked>>

\* The pass ends early: a request of the walk fails, or the local walk does, for
\* which one entry that cannot be read is enough; or the daemon dies.
Abandon(e) ==
  /\ pass[e].at # "idle"
  /\ pass' = [pass EXCEPT ![e] = NoPass]
  /\ UNCHANGED <<link, dirs, changes, asked>>

\* A request of the walk, or one that makes a folder, is never answered.
Stall(e) ==
  /\ pass[e].at \in {"idle", "create"}
  /\ pass' = [pass EXCEPT ![e] = Stalled]
  /\ UNCHANGED <<link, dirs, changes, asked>>

-----------------------------------------------------------------------------
Next ==
  \/ \E p \in Paths : UserMakesDir(p) \/ UserRemovesDir(p)
  \/ \E f \in Links \cup {Root}, n \in Names : OtherFolder(f, n) \/ CreateFolder(f, n)
  \/ \E l \in Links : OtherTrash(l) \/ (\E n \in Names : Rename(l, n))
  \/ \E e \in Engines :
       \/ Walk(e) \/ MakeDirs(e) \/ Scan(e) \/ FinishPass(e) \/ Abandon(e) \/ Stall(e)
       \/ \E p \in pass[e].todo : SkipDir(e, p) \/ MakeFolder(e, p) \/ LoseAnswer(e, p)

Spec == Init /\ [][Next]_vars

-----------------------------------------------------------------------------
(* Properties *)

\* Types; and a directory's parent is a directory, which removals by the user
\* and create_dir_all keep between them.
TypeOK ==
  /\ DOMAIN link = Links
  /\ \A l \in Links :
       /\ link[l].trail \in Seq(Links)
       /\ {link[l].name, link[l].hash} \subseteq Names \cup {None}
       /\ link[l].state \in {"unused", "active", "trashed"}
  /\ \A d \in dirs : d # <<>> /\ d \in Seq(Names)
                     /\ (Len(d) > 1 => Front(d) \in dirs)
  /\ \A e \in Engines :
       /\ pass[e].at \in {"idle", "dirs", "scan", "create", "stalled"}
       /\ pass[e].todo \subseteq Seq(Names) \ {<<>>}
       /\ Range(pass[e].known) \subseteq Links
       /\ pass[e].kr \subseteq Links \cup {Root}

\* Passes copy names down and up and never put one anywhere new: every folder
\* of the drive and every local directory has a name that a user, a request
\* or another device gave at that depth.  A folder that cannot be made must
\* not let those below it be made further up.
EveryNameAsked ==
  /\ \A p \in RemotePaths \ {<<>>} : Spot(p) \in asked
  /\ \A d \in dirs : Spot(d) \in asked

\* A folder can be made at p: whichever folder the walk keeps for the parent
\* takes it.
Creatable(p) ==
  /\ LinksAt(Front(p)) # {} /\ LinksAt(Front(p)) \subseteq Entered
  /\ \A f \in LinksAt(Front(p)) : Accepts(f, Last(p))

\* Where passes of one engine are run to their end again and again, however many
\* others are abandoned or stall, and their requests for p's folder are not
\* refused or lost for ever: a local directory that stays, below a folder that
\* takes it, is on the drive in the end, however many other directories fail.
\* An error for one of them does not end the list, and what one pass cannot make
\* because the parent's key is missing the next one makes (lines 342-353, 519-710).
DirsArrive ==
  \A e \in Engines, p \in {q \in Paths : Len(q) > 1} :
    /\ []<><<FinishPass(e)>>_vars
    /\ SF_vars(MakeFolder(e, p))
    /\ <>[](p \in dirs /\ (p \in RemotePaths \/ Creatable(p)))
    => <>[](p \in RemotePaths)

=============================================================================
