---------------------------- MODULE TransferSchedule ----------------------------
(***************************************************************************)
(* The weekly windows in which transfers are allowed                       *)
(* (crates/proton-core/src/transfer.rs): whether a minute lies in one, and *)
(* how long the status message says one has to wait for the next.          *)
(*                                                                         *)
(* The code has 7 days of 1440 minutes; both are parameters here.  A time  *)
(* of day is the number of its minute: "HH:MM" is read, and a string that  *)
(* is no time counts as 00:00, before anything else looks at it.           *)
(***************************************************************************)
EXTENDS Naturals, Sequences

CONSTANTS DayLength, WeekLength

ASSUME CalendarAssumption ==
  /\ DayLength \in Nat \ {0}
  /\ WeekLength \in Nat \ {0}

Days == 0..(WeekLength - 1)
Minutes == 0..(DayLength - 1)

\* No days means every day; the end may be 24:00.  (Bound: the code also reads
\* hours beyond 24.)
Window == [days : SUBSET Days, start : Minutes, end : 0..DayLength]

\* The list's order decides which window is announced.
Config == Seq(Window)

Unrestricted(c) == c = <<>>

AppliesTo(w, day) == w.days = {} \/ day \in w.days

After(day, n) == (day + n) % WeekLength

Overnight(w) == w.start > w.end

\* On a day of its own an overnight window is open at both ends of the day;
\* on another day it is open early if the day before is one of its own.
Contains(w, day, minute) ==
  IF AppliesTo(w, day)
  THEN \/ w.start < w.end /\ w.start <= minute /\ minute < w.end
       \/ Overnight(w) /\ (minute >= w.start \/ minute < w.end)
       \/ w.start = w.end /\ minute = w.start
  ELSE /\ Overnight(w)
       /\ minute < w.end
       /\ After(day, WeekLength - 1) \in w.days

IsInWindowAt(c, day, minute) ==
  \/ Unrestricted(c)
  \/ \E i \in DOMAIN c : Contains(c[i], day, minute)

-----------------------------------------------------------------------------
(* The minutes until the next window *)

\* (mistake: also a window that has closed again today)
OpeningIn_Past(c, day, minute, k) == {i \in DOMAIN c : AppliesTo(c[i], After(day, k))}

\* Windows that open k days on; one that has opened today is passed over.
OpeningIn(c, day, minute, k) ==
  {i \in DOMAIN c : /\ AppliesTo(c[i], After(day, k))
                    /\ ~(k = 0 /\ minute >= c[i].start)}

\* The first of the list on the first such day.
IsNextOpening(c, day, minute, k, i) ==
  /\ i \in OpeningIn(c, day, minute, k)
  /\ \A h \in OpeningIn(c, day, minute, k) : i <= h
  /\ \A j \in 0..(k - 1) : OpeningIn(c, day, minute, j) = {}

\* The subtraction saturates on every day, not only today.
MinutesTo(start, minute, k) ==
  k * DayLength + (IF start >= minute THEN start - minute ELSE 0)

\* Asked of a restricted schedule only: an unrestricted one answers None.
MinutesUntilNextWindow(c, day, minute) ==
  IF IsInWindowAt(c, day, minute) THEN 0
  ELSE IF \A k \in Days : OpeningIn(c, day, minute, k) = {}
  THEN WeekLength * DayLength
  ELSE LET next == CHOOSE n \in Days \X DOMAIN c :
                     IsNextOpening(c, day, minute, n[1], n[2])
       IN  MinutesTo(c[next[2]].start, minute, next[1])

-----------------------------------------------------------------------------
(* What the answer should mean *)

\* The schedule admits transfers wait minutes after the given time.
OpenAfter(c, day, minute, wait) ==
  IsInWindowAt(c, After(day, (minute + wait) \div DayLength),
                  (minute + wait) % DayLength)

\* By the end of the wait a window has been open, if only on the way.
OpensWithin(c, day, minute, wait) ==
  \E k \in 0..WeekLength, m \in Minutes :
    /\ minute <= k * DayLength + m
    /\ k * DayLength + m <= minute + wait
    /\ IsInWindowAt(c, After(day, k), m)
=============================================================================
