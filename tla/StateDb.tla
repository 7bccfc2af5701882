------------------------------- MODULE StateDb -------------------------------
(***************************************************************************)
(* The `nodes` table of the state database (crates/proton-core/src/db).    *)
(* Every call of `StateDb` holds the one connection mutex from its first   *)
(* statement to its last, so a call is atomic: it is an operator on the    *)
(* whole table here, and a single step where a module uses it.             *)
(*                                                                         *)
(* A size together with a modification time in whole seconds is one        *)
(* "stamp", a natural number; 0 is the (0, 0) the code writes when it has  *)
(* nothing to record.  Names, shares and hashes are left out: no decision  *)
(* of the engine reads them back from the table.                           *)
(***************************************************************************)
EXTENDS Naturals

CONSTANTS
  Paths,      \* relative local paths, the UNIQUE key of the table
  Links,      \* link ids the server can issue
  NoLink      \* the NULL of the link_id column

ASSUME NoLinkAssumption == NoLink \notin Links

\* "none" is the absence of a row; the others are the `state` strings the
\* engine and the handler write.
RowStates == {"none", "pending", "synced", "conflict"}

Row == [link : Links \cup {NoLink}, stamp : Nat, state : RowStates]

NoRow == [link |-> NoLink, stamp |-> 0, state |-> "none"]

Table == [Paths -> Row]

\* INSERT .. ON CONFLICT(local_path) DO UPDATE: link_id is COALESCEd with the
\* old one, so that a NULL never erases a known link; the rest is replaced.
Upsert(tab, p, lnk, stm, st) ==
  [tab EXCEPT ![p] = [link  |-> IF lnk = NoLink THEN tab[p].link ELSE lnk,
                      stamp |-> stm,
                      state |-> st]]

\* SELECT .. WHERE link_id = ? returns the first row found.  link_id is not
\* unique, so with several matches any of them may be that row.
RowsOfLink(tab, l) ==
  LET hits == {tab[p] : p \in {q \in Paths : tab[q].state # "none"
                                              /\ tab[q].link = l}}
  IN  IF hits = {} THEN {NoRow} ELSE hits

\* list_nodes("synced") filtered by path.
IsSynced(tab, p) == tab[p].state = "synced"
=============================================================================
