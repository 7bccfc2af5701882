----------------------------- MODULE MCSyncEngine -----------------------------
(* SyncEngine for TLC: every path but one is renamed by rename_local to the  *)
(* one that ends in ".conflicted".                                           *)
EXTENDS SyncEngine, TLC

CONSTANT ConflictCopy

MCConflicted(p) == ConflictCopy

\* No definition tells one link or one engine from another.
Symmetry == Permutations(Links) \cup Permutations(Engines)
=============================================================================
