------------------------------ MODULE MCDriveWalk ------------------------------
(* DriveWalk for TLC: children are listed by their ids; the other bounds are *)
(* those of the cfg.                                                         *)
EXTENDS DriveWalk

MCListOrder == [S \in SUBSET Nodes |-> SetToSortSeq(S, <)]
=============================================================================
