-------------------------------- MODULE Setting --------------------------------
(***************************************************************************)
(* What a client may expect of a setting of the daemon: a value in force   *)
(* that changes to nothing but a value somebody asked for, whether by a    *)
(* request that takes effect or by a restart, and the values that may      *)
(* still come into force.  While requests overlap any of theirs may win;   *)
(* a value stops being expected when it can no longer come back.           *)
(***************************************************************************)
EXTENDS Naturals

CONSTANTS
  Values,
  Default   \* what a read of the database that fails is taken for

VARIABLES
  value,    \* the value in force
  asked,    \* values that may be in force without another request
  losses    \* reads of the database that failed

vars == <<value, asked, losses>>

Init ==
  /\ value \in Values
  /\ asked = {value}
  /\ losses = 0

\* A request for v has been stored.
Ask(v) ==
  /\ value' = value
  /\ {value, v} \subseteq asked' /\ asked' \subseteq asked \cup {v}
  /\ UNCHANGED losses

\* One of the values asked for comes into force; others may be given up.
Take ==
  /\ value' \in asked /\ value' \in asked'
  /\ asked' \subseteq asked
  /\ UNCHANGED losses

\* A read failed: the default may now come into force.
Lose ==
  /\ losses' > losses
  /\ value' \in asked \cup {Default} /\ value' \in asked'
  /\ asked' \subseteq asked \cup {Default}

Next ==
  \/ \E v \in Values : Ask(v)
  \/ Take
  \/ Lose

Spec == Init /\ [][Next]_vars
=============================================================================
