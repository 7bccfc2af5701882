------------------------------ MODULE DriveWalk ------------------------------
(***************************************************************************)
(* The walk of the remote tree (crates/proton-core/src/drive) and the      *)
(* resolution of local paths from what it returns (sync/mod.rs), while     *)
(* other devices change the tree.                                          *)
(*                                                                         *)
(* The walk is depth first, one request per page of a folder's children;   *)
(* a folder's key is unlocked with its parent's before it is entered.      *)
(* Between two requests anything may move, so the list of entries is not   *)
(* a snapshot: a link can be in it twice, or not at all, and the parent    *)
(* links of the entries can form a cycle.                                  *)
(*                                                                         *)
(* Link ids are numbers.  A name stands for itself: it is the link that    *)
(* bears it, and BadNames are those sanitize_name refuses.  A path is the  *)
(* sequence of its names.                                                  *)
(***************************************************************************)
EXTENDS Integers, FiniteSets, Functions, SequencesExt

CONSTANTS
  Folders, Files,  \* link ids of the tree, its root not among them
  Root,            \* link id of the root folder
  ListOrder,       \* the order in which the server lists a set of children
  BadNames,        \* links whose name is no valid path component
  PageSize,        \* PAGE_SIZE of list_children
  DepthCap,        \* the 1000 of the depth loop
  MaxChanges       \* bound: changes other devices make

ASSUME LinkAssumption ==
  /\ Folders \cup Files \subseteq Nat \ {0}
  /\ Folders \cap Files = {}
  /\ Root = 0
ASSUME PageAssumption == PageSize \in Nat \ {0}
ASSUME CapAssumption == DepthCap \in Nat

Nodes == Folders \cup Files
ASSUME OrderAssumption ==
  \A S \in SUBSET Nodes : /\ ListOrder[S] \in Seq(Nodes) /\ Range(ListOrder[S]) = S
                          /\ IsInjective(ListOrder[S])

None == -1

VARIABLES
  parent,   \* parent[n]: the folder n is in, on the server
  trashed,  \* links in the trash; the server lists them all the same
  changes,  \* changes made by other devices
  pc,
  stack,    \* folders being walked, innermost first, with the children left
  page,     \* next page of the innermost folder
  items,    \* what the visitor collected
  kr,       \* ids whose key is in the keyring
  paths,    \* local_paths, by entry
  stayed    \* history: links that were in reach throughout the walk

server == <<parent, trashed, changes>>
walk == <<pc, stack, page, items, kr, paths>>
vars == <<server, walk, stayed>>

-----------------------------------------------------------------------------
(* The tree on the server *)

\* Every folder above n, n included, up to the root.
UpwardClosed(up, S) == \A m \in S \ {Root} : up[m] \in S
Above(up, n) ==
  {m \in (Folders \cup {n}) \ {Root} :
     \A S \in SUBSET (Folders \cup {n, Root}) :
       n \in S /\ UpwardClosed(up, S) => m \in S}

\* No folders are only in each other.
IsTree(up) == \A S \in SUBSET Folders \ {{}} : \E n \in S : up[n] \notin S

Reachable(up, trash) ==
  {n \in Nodes : (Above(up, n) \ {n}) \cap trash = {}}

Init ==
  /\ parent \in {up \in [Nodes -> Folders \cup {Root}] : IsTree(up)}
  /\ trashed = {}
  /\ changes = 0
  /\ pc = "idle"
  /\ stack = <<>>
  /\ page = 0
  /\ items = <<>>
  /\ kr = {}
  /\ paths = <<>>
  /\ stayed = {}

Walking == pc \in {"list", "visit"}

\* drive.rename, or another device: the link is re-encrypted to the new
\* parent's key.
Move(n, f) ==
  /\ changes < MaxChanges
  /\ f # parent[n]
  /\ n \notin Above(parent, f)
  /\ parent' = [parent EXCEPT ![n] = f]
  /\ changes' = changes + 1
  /\ stayed' = stayed \cap Reachable(parent', trashed)
  /\ UNCHANGED <<trashed, walk>>

Trash(n) ==
  /\ changes < MaxChanges
  /\ n \notin trashed
  /\ trashed' = trashed \cup {n}
  /\ changes' = changes + 1
  /\ stayed' = stayed \cap Reachable(parent, trashed')
  /\ UNCHANGED <<parent, walk>>

-----------------------------------------------------------------------------
(* The walk *)

\* build_keyring leaves the share key and the root's; a failure of it, or of
\* any request of the walk, ends the pass (see ListFails).
StartWalk ==
  /\ pc = "idle"
  /\ pc' = "list"
  /\ stack' = <<[folder |-> Root, left |-> <<>>]>>
  /\ kr' = {Root}
  /\ stayed' = Reachable(parent, trashed)
  /\ UNCHANGED <<server, page, items, paths>>

Children(f) == ListOrder[{n \in Nodes : parent[n] = f}]

\* One page of a folder's children; a short one is the last.
PageOf(f, k) ==
  LET kids == Children(f)
      upto == IF (k + 1) * PageSize < Len(kids) THEN (k + 1) * PageSize
                                                ELSE Len(kids)
  IN  [i \in 1..(upto - k * PageSize) |->
         [node |-> kids[k * PageSize + i], parent |-> f,
          active |-> kids[k * PageSize + i] \notin trashed]]

\* (mistake: stop at a page that is full but for the last element)
ListPage_Short ==
  /\ pc = "list"
  /\ LET got == PageOf(Head(stack).folder, page)
     IN  /\ stack' = [stack EXCEPT ![1].left = @ \o got]
         /\ IF Len(got) <= PageSize
            THEN pc' = "visit" /\ page' = 0
            ELSE pc' = "list" /\ page' = page + 1
  /\ UNCHANGED <<server, items, kr, paths, stayed>>

ListPage ==
  /\ pc = "list"
  /\ LET got == PageOf(Head(stack).folder, page)
     IN  /\ stack' = [stack EXCEPT ![1].left = @ \o got]
         /\ IF Len(got) < PageSize
            THEN pc' = "visit" /\ page' = 0
            ELSE pc' = "list" /\ page' = page + 1
  /\ UNCHANGED <<server, items, kr, paths, stayed>>

\* The future of the walk is dropped with all it holds, or is never polled again.
LeavePass(at) ==
  /\ pc' = at
  /\ stack' = <<>>
  /\ page' = 0
  /\ items' = <<>>
  /\ kr' = {}
  /\ paths' = <<>>
  /\ stayed' = {}

\* (mistake: the folder is listed again from its first page)
ListFails_Retried ==
  /\ pc = "list"
  /\ stack' = [stack EXCEPT ![1].left = <<>>]
  /\ page' = 0
  /\ UNCHANGED <<server, pc, items, kr, paths, stayed>>

ListFails ==
  /\ pc = "list"
  /\ LeavePass("idle")
  /\ UNCHANGED server

\* The client sets no timeout: a page that is never sent holds the pass for good.
Stall ==
  /\ pc = "list"
  /\ LeavePass("stalled")
  /\ UNCHANGED server

\* (mistake: a file's key is unlocked, and the file entered, like a folder's)
Visit_Files(unlocked) ==
  /\ pc = "visit"
  /\ Head(stack).left # <<>>
  /\ LET x == Head(Head(stack).left)
         rest == [stack EXCEPT ![1].left = Tail(@)]
     IN  /\ items' = Append(items, x)
         /\ unlocked = x.active
         /\ kr' = IF unlocked THEN kr \cup {x.node} ELSE kr
         /\ stack' = IF unlocked
                     THEN <<[folder |-> x.node, left |-> <<>>]>> \o rest
                     ELSE rest
         /\ pc' = IF unlocked THEN "list" ELSE "visit"
  /\ UNCHANGED <<server, page, paths, stayed>>

\* visitor(node, name); then the folder's key is unlocked and it is entered.
\* An unlock that fails skips what is below the folder.
Visit(unlocked) ==
  /\ pc = "visit"
  /\ Head(stack).left # <<>>
  /\ LET x == Head(Head(stack).left)
         rest == [stack EXCEPT ![1].left = Tail(@)]
         enter == x.node \in Folders /\ x.active
     IN  /\ items' = Append(items, x)
         /\ unlocked => enter
         /\ IF unlocked
            THEN /\ kr' = kr \cup {x.node}
                 /\ stack' = <<[folder |-> x.node, left |-> <<>>]>> \o rest
                 /\ pc' = "list"
                 /\ UNCHANGED stayed
            ELSE /\ stack' = rest
                 /\ stayed' = IF enter
                              THEN {n \in stayed :
                                   x.node \notin Above(parent, parent[n])}
                              ELSE stayed
                 /\ UNCHANGED <<kr, pc>>
  /\ UNCHANGED <<server, page, paths>>

Return ==
  /\ pc = "visit"
  /\ Head(stack).left = <<>>
  /\ stack' = Tail(stack)
  /\ pc' = IF Len(stack) = 1 THEN "resolve" ELSE "visit"
  /\ UNCHANGED <<server, page, items, kr, paths, stayed>>

-----------------------------------------------------------------------------
(* Paths from entries *)

\* by_link: HashMap::insert keeps the last entry of a link; 0 for no entry.
ByLink(its) ==
  [n \in Nodes \cup {Root} |->
     LET at == {i \in DOMAIN its : its[i].node = n}
     IN  IF at = {} THEN 0 ELSE CHOOSE i \in at : \A j \in at : j <= i]

\* The loop over parent_link_id, given up after DepthCap steps.
Depth(its, i) ==
  LET by == ByLink(its)
      loop[k \in 0..DepthCap + 1] ==
        IF k = 0 THEN [pid |-> its[i].parent, depth |-> 0]
        ELSE LET at == loop[k - 1]
             IN  IF at.pid = None THEN at
                 ELSE [pid   |-> IF by[at.pid] = 0 THEN None
                                 ELSE its[by[at.pid]].parent,
                       depth |-> at.depth + 1]
  IN  loop[DepthCap + 1].depth

\* (mistake: entries taken as the walk found them)
Order_AsFound(its) == [i \in DOMAIN its |-> i]

\* sort_by_key is stable: an entry comes after those of less depth, and those
\* of the same depth that the walk found before it.
Order(its) ==
  LET depth == [i \in DOMAIN its |-> Depth(its, i)]
      Before(i) == {j \in DOMAIN its : \/ depth[j] < depth[i]
                                       \/ depth[j] = depth[i] /\ j < i}
  IN  [k \in DOMAIN its |->
         CHOOSE i \in DOMAIN its : Cardinality(Before(i)) = k - 1]

\* An invalid name, or a parent that is no entry, leaves the path empty; the
\* root is never an entry, so that is every link directly below it.
LocalPaths(its) ==
  LET by == ByLink(its)
      order == Order(its)
      Place(got, i) ==
        IF its[i].node \in BadNames \/ by[its[i].parent] = 0
        THEN got
        ELSE [got EXCEPT ![i] = Append(got[by[its[i].parent]], its[i].node)]
      placed[k \in 0..Len(its)] ==
        IF k = 0 THEN [i \in DOMAIN its |-> <<>>]
                 ELSE Place(placed[k - 1], order[k])
  IN  placed[Len(its)]

Resolve ==
  /\ pc = "resolve"
  /\ paths' = LocalPaths(items)
  /\ pc' = "done"
  /\ UNCHANGED <<server, stack, page, items, kr, stayed>>

\* The rest of the pass uses the entries; the next pass starts afresh.
FinishPass ==
  /\ pc = "done"
  /\ LeavePass("idle")
  /\ UNCHANGED server

\* The daemon is killed, which is the only way out of a stalled walk.
Crash ==
  /\ pc # "idle"
  /\ LeavePass("idle")
  /\ UNCHANGED server

-----------------------------------------------------------------------------
WalkStep ==
  \/ ListPage
  \/ ListFails
  \/ Stall
  \/ \E unlocked \in BOOLEAN : Visit(unlocked)
  \/ Return
  \/ Resolve

Next ==
  \/ \E n \in Nodes, f \in Folders \cup {Root} : Move(n, f)
  \/ \E n \in Nodes : Trash(n)
  \/ StartWalk
  \/ WalkStep
  \/ FinishPass
  \/ Crash

Spec == Init /\ [][Next]_vars

\* The runtime polls the walk once a page has come, and its own steps wait for
\* nothing.  That a page may never come is Stall.
FairSpec == Spec /\ WF_vars(Walking /\ WalkStep)

TypeOK ==
  /\ parent \in [Nodes -> Folders \cup {Root}]
  /\ trashed \subseteq Nodes
  /\ changes \in Nat
  /\ pc \in {"idle", "list", "visit", "resolve", "done", "stalled"}
  /\ page \in Nat
  /\ \A i \in DOMAIN stack : stack[i].folder \in Folders \cup {Root}
  /\ \A i \in DOMAIN items : items[i].node \in Nodes
  /\ kr \subseteq Folders \cup {Root}
  /\ stayed \subseteq Nodes

-----------------------------------------------------------------------------
(* Properties *)

Found == {items[i].node : i \in DOMAIN items}

\* Undisturbed, the walk is a snapshot: whatever the page size, it collects
\* each link in reach exactly once, under its parent (lines 144-168, 313-355).
\* Links below a folder whose key does not unlock are out of reach.
SnapshotWhenQuiet ==
  pc \in {"resolve", "done"} /\ changes = 0 =>
    /\ stayed \subseteq Found
    /\ \A i, j \in DOMAIN items : items[i].node = items[j].node => i = j
    /\ \A i \in DOMAIN items : items[i].parent = parent[items[i].node]

\* No entries have their parents' entries only among each other.
ParentsAcyclic ==
  \A S \in SUBSET DOMAIN items \ {{}} :
    \E i \in S : ByLink(items)[items[i].parent] \notin S

PathsFollowParents ==
  \A i \in DOMAIN items :
    LET p == ByLink(items)[items[i].parent]
    IN  items[i].node \notin BadNames /\ p # 0 =>
          paths[i] = Append(paths[p], items[i].node)

\* Unless the parent links form a cycle, a path extends the path of its parent's
\* entry, whatever moved during the walk and however often a link was found:
\* by_link is the last entry of a link, and the order by depth puts that entry
\* before those below it even where the walk found it after them (134-178).
PathsFollowParentsUnlessCyclic ==
  pc = "done" /\ ParentsAcyclic => PathsFollowParents

\* The walk ends or waits for a page that never comes, as long as the other
\* devices stop moving folders into its way at some point: nothing in its own
\* loops over pages and folders keeps it going (lines 144-168, 313-355).
WalkEnds == Walking ~> ~Walking

-----------------------------------------------------------------------------
(* What the source says of itself and its steps do not keep *)

\* "so callers can later decrypt file content key packets" (drive/mod.rs lines
\* 285-286): the keyring the walk returns has the key of every file it found.
FileKeysInKeyring ==
  pc = "done" => \A i \in DOMAIN items : items[i].node \in Files =>
                                           items[i].node \in kr
=============================================================================
