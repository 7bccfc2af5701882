----------------------------- MODULE MCTransferGate -----------------------------
(* TransferGate for TLC: a week of three days of four minutes. *)
EXTENDS TransferGate, TLC

MCSymmetry == Permutations(Clients)

DayShift == [days |-> {1}, start |-> 1, end |-> 3]
NightShift == [days |-> {2}, start |-> 3, end |-> 1]

MCSchedules == {<<>>, <<DayShift>>}

\* Every single window, and the two above in both orders.
MCProbes ==
  {<<w>> : w \in Window}
  \cup {<<DayShift, NightShift>>, <<NightShift, DayShift>>}
=============================================================================
