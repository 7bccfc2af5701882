---------------------------- MODULE MCAuthSession ----------------------------
(* AuthSession for TLC: requests are alike, and so are sessions. *)
EXTENDS AuthSession, TLC

Symmetry == Permutations(Tasks) \cup Permutations(Uids)
=============================================================================
