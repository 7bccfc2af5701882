------------------------------ MODULE MCFolderSync ------------------------------
(* FolderSync for TLC: a folder of the first level, and one below it. *)
EXTENDS FolderSync

MCPaths == {<<1>>, <<2>>, <<1, 2>>, <<1, 2, 1>>}

At(trail, name) == [trail |-> trail, name |-> name, hash |-> name, state |-> "active"]
Unused == [trail |-> <<>>, name |-> None, hash |-> None, state |-> "unused"]
MCTree ==
  [l \in Links |->
     CASE l = 1 -> At(<<1>>, 1) [] l = 2 -> At(<<1, 2>>, 1) [] OTHER -> Unused]
=============================================================================
