-------------------------- MODULE TransferGateProofs --------------------------
(***************************************************************************)
(* Proofs about TransferSchedule and TransferGate, for any length of the   *)
(* day and of the week, any schedules and any number of connections: the   *)
(* announced wait is never too short; types; that memory and database      *)
(* agree on a setting nobody contests; that a pause holds; that "syncing"  *)
(* means a pass; and that both settings implement Setting.                 *)
(***************************************************************************)
EXTENDS TransferGate, FiniteSetTheorems, LeastNatural

-----------------------------------------------------------------------------
(* The calendar *)

LEMMA AfterDay ==
  ASSUME NEW day \in Days, NEW n \in Nat
  PROVE  After(day, n) \in Days
  BY CalendarAssumption, Remainder DEF Days, After

LEMMA SameDay ==
  ASSUME NEW day \in Days
  PROVE  After(day, 0) = day /\ After(day, WeekLength) = day
  BY CalendarAssumption, Remainder DEF Days, After

\* Every day comes within a week.
LEMMA DayComes ==
  ASSUME NEW day \in Days, NEW d \in Days
  PROVE  \E k \in Days : After(day, k) = d
<1>0. day \in Nat /\ d \in Nat /\ day < WeekLength /\ d < WeekLength
  BY CalendarAssumption DEF Days
<1>1. CASE day <= d
  <2>1. d - day \in Days /\ day + (d - day) = d
    BY <1>0, <1>1, CalendarAssumption DEF Days
  <2>2. d % WeekLength = d
    BY <1>0, CalendarAssumption, Remainder
  <2>3. After(day, d - day) = d
    BY <2>1, <2>2 DEF After
  <2> QED BY <2>1, <2>3
<1>2. CASE d < day
  <2>1. d + WeekLength - day \in Days
        /\ day + (d + WeekLength - day) = d + WeekLength
    BY <1>0, <1>2, CalendarAssumption DEF Days
  <2>2. (d + WeekLength) % WeekLength = d
    BY <1>0, CalendarAssumption, Remainder
  <2>3. After(day, d + WeekLength - day) = d
    BY <2>1, <2>2 DEF After
  <2> QED BY <2>1, <2>3
<1> QED BY <1>0, <1>1, <1>2

LEMMA MinuteOf ==
  ASSUME NEW w \in Window
  PROVE  w.start \in Minutes /\ w.start \in Nat /\ w.start < DayLength
  BY CalendarAssumption DEF Window, Minutes

-----------------------------------------------------------------------------
(* The announced wait *)

\* A window is open at its start, on every day it applies to.
LEMMA OpenAtStart ==
  ASSUME NEW w \in Window, NEW day \in Days, AppliesTo(w, day)
  PROVE  Contains(w, day, w.start)
  BY MinuteOf, CalendarAssumption DEF Contains, Overnight, Window, Minutes

\* Without an opening on the days of a week ahead, every window of the
\* schedule applies today, only, and has opened already.
LEMMA OpenedToday ==
  ASSUME NEW c \in Config, NEW day \in Days, NEW minute \in Minutes,
         NEW i \in DOMAIN c,
         \A k \in Days : OpeningIn(c, day, minute, k) = {}
  PROVE  AppliesTo(c[i], day) /\ c[i].start <= minute
<1>1. c[i] \in Window
  BY DEF Config
<1>2. PICK d \in Days : AppliesTo(c[i], d)
  <2>1. CASE c[i].days = {}
    BY <2>1 DEF AppliesTo
  <2>2. CASE c[i].days # {}
    BY <2>2, <1>1 DEF AppliesTo, Window
  <2> QED BY <2>1, <2>2
<1>3. PICK k \in Days : After(day, k) = d
  BY DayComes
<1>4. k = 0 /\ minute >= c[i].start
  BY <1>2, <1>3 DEF OpeningIn
<1> QED BY <1>1, <1>2, <1>3, <1>4, SameDay, MinuteOf DEF Minutes

\* If some window opens in the week ahead, there is a first to do so.
LEMMA NextOpeningExists ==
  ASSUME NEW c \in Config, NEW day \in Days, NEW minute \in Minutes,
         ~ \A k \in Days : OpeningIn(c, day, minute, k) = {}
  PROVE  \E n \in Days \X DOMAIN c : IsNextOpening(c, day, minute, n[1], n[2])
<1> DEFINE Openings(k) == OpeningIn(c, day, minute, k)
           Ahead == {k \in Days : Openings(k) # {}}
<1>1. Ahead \in SUBSET Nat /\ Ahead # {}
  BY DEF Days
<1>2. PICK k \in Ahead : \A j \in Ahead : k <= j
  <2> HIDE DEF Ahead
  <2> QED BY <1>1, LeastElement
<1>3. k \in Days /\ \A j \in 0..(k - 1) : Openings(j) = {}
  BY <1>2, CalendarAssumption DEF Days
<1>4. Openings(k) \in SUBSET Nat /\ Openings(k) # {} /\ Openings(k) \subseteq DOMAIN c
  BY <1>2 DEF OpeningIn, Config
<1>5. PICK i \in Openings(k) : \A h \in Openings(k) : i <= h
  <2> HIDE DEF Openings
  <2> QED BY <1>4, LeastElement
<1>6. IsNextOpening(c, day, minute, k, i)
  BY <1>3, <1>5 DEF IsNextOpening
<1>7. <<k, i>> \in Days \X DOMAIN c
  BY <1>3, <1>4, <1>5
<1> QED BY <1>6, <1>7

\* By the start of the window that opens next, and so by the end of the
\* wait, which is never shorter than the time to it, a window is open.
LEMMA OpensAtNext ==
  ASSUME NEW c \in Config, NEW day \in Days, NEW minute \in Minutes,
         NEW k \in Days, NEW i \in DOMAIN c, IsNextOpening(c, day, minute, k, i)
  PROVE  OpensWithin(c, day, minute, MinutesTo(c[i].start, minute, k))
<1> DEFINE m == c[i].start
<1>1. c[i] \in Window /\ m \in Minutes /\ m \in Nat /\ m < DayLength
  BY MinuteOf DEF Config
<1>2. AppliesTo(c[i], After(day, k)) /\ ~(k = 0 /\ minute >= m)
  BY DEF IsNextOpening, OpeningIn
<1>3. IsInWindowAt(c, After(day, k), m)
  BY <1>1, <1>2, OpenAtStart, AfterDay DEF IsInWindowAt, Days
<1>4. k \in Nat /\ minute \in Nat /\ minute < DayLength /\ DayLength \in Nat
  BY CalendarAssumption DEF Days, Minutes
<1>5. k * DayLength \in Nat /\ (k # 0 => k * DayLength >= DayLength)
  BY <1>4, Multiple
<1>6. minute <= k * DayLength + m
  <2>1. CASE k = 0
    BY <2>1, <1>1, <1>2, <1>4
  <2>2. CASE k # 0
    BY <2>2, <1>1, <1>4, <1>5
  <2> QED BY <2>1, <2>2
<1>7. k * DayLength + m <= minute + MinutesTo(m, minute, k)
  <2> DEFINE far == k * DayLength
  <2>1. far \in Nat
    BY <1>5
  <2> HIDE DEF far
  <2>2. far + m <= minute + (far + (IF m >= minute THEN m - minute ELSE 0))
    BY <2>1, <1>1, <1>4
  <2> QED BY <2>2 DEF far, MinutesTo
<1>8. k \in 0..WeekLength
  BY CalendarAssumption DEF Days
<1> HIDE DEF m
<1> QED BY <1>1, <1>3, <1>6, <1>7, <1>8 DEF OpensWithin, m

\* Whenever it is asked, and whatever the schedule: a window has been open by
\* the end of the announced wait.
LEMMA WaitIsEnough ==
  ASSUME NEW c \in Config, c # <<>>, NEW day \in Days, NEW minute \in Minutes
  PROVE  OpensWithin(c, day, minute, MinutesUntilNextWindow(c, day, minute))
<1> DEFINE wait == MinutesUntilNextWindow(c, day, minute)
<1>0. minute \in Nat /\ minute < DayLength /\ WeekLength \in Nat \ {0} /\ DayLength \in Nat
  BY CalendarAssumption DEF Minutes
<1>1. CASE IsInWindowAt(c, day, minute)
  <2>1. wait = 0
    BY <1>1 DEF MinutesUntilNextWindow
  <2>2. 0 * DayLength + minute = minute /\ 0 \in 0..WeekLength
    BY <1>0
  <2>3. IsInWindowAt(c, After(day, 0), minute)
    BY <1>1, SameDay
  <2>4. minute <= 0 * DayLength + minute /\ 0 * DayLength + minute <= minute + wait
    BY <1>0, <2>1, <2>2
  <2> QED BY <2>2, <2>3, <2>4 DEF OpensWithin
<1>2. CASE ~IsInWindowAt(c, day, minute) /\ \A k \in Days : OpeningIn(c, day, minute, k) = {}
  <2> DEFINE w == c[1]
             week == WeekLength * DayLength
  <2>1. 1 \in DOMAIN c /\ w \in Window
    BY DEF Config
  <2>2. AppliesTo(w, day) /\ w.start <= minute
    BY <1>2, <2>1, OpenedToday
  <2>3. w.start \in Minutes /\ w.start \in Nat
    BY <2>1, MinuteOf
  <2>4. IsInWindowAt(c, After(day, WeekLength), w.start)
    BY <2>1, <2>2, SameDay, OpenAtStart DEF IsInWindowAt
  <2>5. wait = week
    BY <1>2 DEF MinutesUntilNextWindow
  <2>6. week \in Nat /\ week >= DayLength
    BY <1>0, Multiple
  <2> HIDE DEF week, w, wait
  <2>7. minute <= week + w.start /\ week + w.start <= minute + wait
    BY <1>0, <2>2, <2>3, <2>5, <2>6
  <2>8. WeekLength \in 0..WeekLength
    BY <1>0
  <2> QED BY <2>3, <2>4, <2>7, <2>8 DEF OpensWithin, week, wait
<1>3. CASE ~IsInWindowAt(c, day, minute) /\ ~ \A k \in Days : OpeningIn(c, day, minute, k) = {}
  <2> DEFINE next == CHOOSE n \in Days \X DOMAIN c :
                       IsNextOpening(c, day, minute, n[1], n[2])
  <2>1. next \in Days \X DOMAIN c /\ IsNextOpening(c, day, minute, next[1], next[2])
    BY <1>3, NextOpeningExists
  <2>2. wait = MinutesTo(c[next[2]].start, minute, next[1])
    BY <1>3 DEF MinutesUntilNextWindow
  <2> HIDE DEF next, wait
  <2>3. next[1] \in Days /\ next[2] \in DOMAIN c
    BY <2>1
  <2>4. OpensWithin(c, day, minute, MinutesTo(c[next[2]].start, minute, next[1]))
    BY <2>1, <2>3, OpensAtNext
  <2> QED BY <2>2, <2>4 DEF wait
<1> QED BY <1>1, <1>2, <1>3

-----------------------------------------------------------------------------
(* Types *)

DiskSide == [paused : BOOLEAN, config : Schedules]
MemSide == [paused : BOOLEAN, config : Schedules \cup {NoSchedule}]
TaskSide == [at : Places, config : Schedules \cup {NoSchedule}, alone : BOOLEAN]

SettingsOK == disk \in DiskSide /\ mem \in MemSide
TasksOK == task \in [Tasks -> TaskSide]
RestOK ==
  /\ syncState \in {"idle", "syncing"}
  /\ now \in [day : Days, minute : Minutes]
  /\ faults \in 0..MaxFaults
  /\ contested \subseteq DOMAIN Working
  /\ held \in BOOLEAN

LEMMA TypeParts ==
  /\ TypeOK <=> SettingsOK /\ TasksOK /\ RestOK
  /\ TypeOK' <=> SettingsOK' /\ TasksOK' /\ RestOK'
  BY DEF TypeOK, SettingsOK, TasksOK, RestOK, DiskSide, MemSide, TaskSide

LEMMA Settings ==
  /\ DOMAIN Working = {"paused", "config"}
  /\ Working["paused"] = {"pause", "resume"}
  /\ Working["config"] = {"set", "get"}
  BY DEF Working

LEMMA PlacesAre ==
  Places = {"idle", "cleared", "pass", "upload", "pause", "resume", "set", "get"}
  BY DEF Places, Working

LEMMA IdleType == Idle \in TaskSide /\ Idle.at = "idle"
<1>1. Idle.at = "idle" /\ Idle.config = NoSchedule /\ Idle.alone = TRUE
  BY Zenon DEF Idle
<1> QED BY PlacesAre DEF Idle, TaskSide

\* A request under way: where it is, what it holds, and who is not alone now.
LEMMA BeginTask ==
  ASSUME TasksOK, NEW t \in Tasks, NEW setting, NEW place, NEW config, NEW unread,
         Begin(t, setting, place, config, unread)
  PROVE  /\ task[t].at = "idle"
         /\ task'[t] = [at |-> place, config |-> config,
                        alone |-> Busy(setting) = {} /\ ~unread]
         /\ \A u \in Tasks \ {t} :
              task'[u] = IF u \in Busy(setting)
                         THEN [task[u] EXCEPT !.alone = FALSE] ELSE task[u]
  BY DEF Begin, At, TasksOK

LEMMA OtherTask ==
  ASSUME TasksOK, NEW t \in Tasks, NEW setting, NEW place, NEW config, NEW unread,
         Begin(t, setting, place, config, unread), NEW u \in Tasks \ {t}
  PROVE  /\ task'[u].at = task[u].at
         /\ task'[u].config = task[u].config
         /\ task'[u].alone => task[u].alone
         /\ u \in Busy(setting) => ~task'[u].alone
         /\ task'[u] \in TaskSide
<1>1. task[u] \in TaskSide
  BY DEF TasksOK
<1>2. CASE u \in Busy(setting)
  <2>1. task'[u] = [task[u] EXCEPT !.alone = FALSE]
    BY <1>2, BeginTask
  <2> QED BY <1>1, <2>1 DEF TaskSide
<1>3. CASE u \notin Busy(setting)
  <2>1. task'[u] = task[u]
    BY <1>3, BeginTask
  <2> QED BY <1>1, <1>3, <2>1
<1> QED BY <1>2, <1>3

LEMMA BeginType ==
  ASSUME TasksOK, NEW t \in Tasks, NEW setting,
         NEW place \in Places, NEW config \in Schedules \cup {NoSchedule},
         NEW unread \in BOOLEAN, Begin(t, setting, place, config, unread)
  PROVE  TasksOK'
<1> DEFINE alone == Busy(setting) = {} /\ ~unread
<1>0. task'[t] = [at |-> place, config |-> config, alone |-> alone]
  BY BeginTask
<1>3. alone \in BOOLEAN
  BY Zenon
<1>1. task'[t] \in TaskSide
  <2> HIDE DEF alone
  <2> QED BY <1>0, <1>3 DEF TaskSide
<1>2. \A u \in Tasks : task'[u] \in TaskSide
  BY <1>1, OtherTask
<1>4. task' = [u \in Tasks |-> task'[u]]
  BY DEF Begin
<1> QED BY <1>2, <1>4 DEF TasksOK

LEMMA MoveType ==
  ASSUME TasksOK, NEW t \in Tasks, NEW from, NEW to \in Places, Move(t, from, to)
  PROVE  TasksOK'
<1>1. [Idle EXCEPT !.at = to] \in TaskSide
  BY IdleType DEF TaskSide
<1> QED BY <1>1 DEF TasksOK, Move

LEMMA EndType ==
  ASSUME TypeOK, NEW t \in Tasks, NEW setting \in DOMAIN Working, End(t, setting)
  PROVE  TasksOK' /\ contested' \subseteq DOMAIN Working
  BY IdleType, TypeParts DEF TasksOK, RestOK, End

LEMMA InitType == Init => TypeOK
<1> SUFFICES ASSUME Init PROVE TypeOK
  OBVIOUS
<1>1. SettingsOK
  <2>1. disk \in DiskSide /\ mem = disk
    BY DEF Init, DiskSide
  <2> QED BY <2>1 DEF SettingsOK, DiskSide, MemSide
<1>2. TasksOK
  BY IdleType DEF Init, TasksOK
<1>3. now \in [day : Days, minute : Minutes]
  BY CalendarAssumption DEF Init, Days, Minutes
<1>4. faults \in 0..MaxFaults
  BY FaultsAssumption DEF Init
<1>5. held \in BOOLEAN /\ contested \subseteq DOMAIN Working
  BY Zenon DEF Init
<1>6. syncState \in {"idle", "syncing"}
  BY DEF Init
<1> QED BY <1>1, <1>2, <1>3, <1>4, <1>5, <1>6, TypeParts, Zenon DEF RestOK

\* Requests for the pause.
LEMMA PauseType ==
  ASSUME TypeOK, NEW t \in Tasks,
         BeginPause(t) \/ EndPause(t) \/ BeginResume(t) \/ EndResume(t)
  PROVE  TypeOK'
<1> USE TypeParts, Settings, PlacesAre
<1>1. TasksOK' /\ contested' \subseteq DOMAIN Working
  <2>1. CASE BeginPause(t) \/ BeginResume(t)
    <3>1. FALSE \in BOOLEAN /\ NoSchedule \in Schedules \cup {NoSchedule}
      OBVIOUS
    <3>2. CASE BeginPause(t)
      BY <3>1, <3>2, BeginType DEF BeginPause, RestOK
    <3>3. CASE BeginResume(t)
      BY <3>1, <3>3, BeginType DEF BeginResume, RestOK
    <3> QED BY <2>1, <3>2, <3>3
  <2>2. CASE EndPause(t) \/ EndResume(t)
    BY <2>2, EndType DEF EndPause, EndResume
  <2> QED BY <2>1, <2>2
<1>2. SettingsOK'
  BY DEF BeginPause, EndPause, BeginResume, EndResume, SettingsOK, DiskSide, MemSide
<1>3. held' \in BOOLEAN
  <2>1. held \in BOOLEAN
    BY DEF RestOK
  <2> QED BY <2>1, Zenon DEF BeginPause, EndPause, BeginResume, EndResume
<1>4. /\ syncState' = syncState /\ now' = now /\ faults' = faults
  BY DEF BeginPause, EndPause, BeginResume, EndResume
<1> QED BY <1>1, <1>2, <1>3, <1>4 DEF RestOK

\* Requests for the schedule.
LEMMA ConfigType ==
  ASSUME TypeOK, NEW t \in Tasks,
         \/ \E c \in Schedules : BeginSet(t, c)
         \/ BeginGet(t) \/ EndConfig(t)
  PROVE  TypeOK'
<1> USE TypeParts, Settings, PlacesAre
<1>1. ASSUME NEW c \in Schedules, BeginSet(t, c)
      PROVE  TypeOK'
  <2>1. TasksOK'
    BY <1>1, BeginType DEF BeginSet
  <2>2. SettingsOK'
    BY <1>1 DEF BeginSet, SettingsOK, DiskSide, MemSide
  <2> QED BY <1>1, <2>1, <2>2 DEF BeginSet, RestOK
<1>2. ASSUME BeginGet(t)
      PROVE  TypeOK'
  <2>1. disk.config \in Schedules /\ Defaults.config = NoSchedule
    BY DEF SettingsOK, DiskSide, Defaults
  <2>2. TasksOK'
    BY <1>2, <2>1, BeginType DEF BeginGet
  <2>3. faults' \in 0..MaxFaults
    <3>1. faults' = faults \/ (faults < MaxFaults /\ faults' = faults + 1)
      BY <1>2, Zenon DEF BeginGet
    <3> QED BY <3>1, FaultsAssumption DEF RestOK
  <2> QED BY <1>2, <2>2, <2>3 DEF BeginGet, settings, SettingsOK, RestOK
<1>3. ASSUME EndConfig(t)
      PROVE  TypeOK'
  <2>1. TasksOK' /\ contested' \subseteq DOMAIN Working
    BY <1>3, EndType DEF EndConfig
  <2>2. SettingsOK'
    BY <1>3 DEF EndConfig, SettingsOK, TasksOK, DiskSide, MemSide, TaskSide
  <2> QED BY <1>3, <2>1, <2>2 DEF EndConfig, RestOK
<1> QED BY <1>1, <1>2, <1>3

\* What a task does with transfers.
Transfer(t) ==
  \/ Clear(t) \/ GiveUp(t) \/ BeginPass(t) \/ EndPass(t)
  \/ BeginUpload(t) \/ EndUpload(t)

LEMMA TransferType ==
  ASSUME TypeOK, NEW t \in Tasks, Transfer(t)
  PROVE  TypeOK'
<1> USE TypeParts, PlacesAre
<1>1. TasksOK'
  BY MoveType
  DEF Transfer, Clear, GiveUp, BeginPass, EndPass, BeginUpload, EndUpload
<1>2. UNCHANGED <<settings, now, faults, contested, held>>
      /\ syncState' \in {"idle", "syncing"}
  BY DEF Transfer, Clear, GiveUp, BeginPass, EndPass, BeginUpload, EndUpload, RestOK
<1> QED BY <1>1, <1>2 DEF settings, SettingsOK, RestOK

LEMMA TickType ==
  ASSUME TypeOK, Tick
  PROVE  TypeOK'
<1>1. now.day \in Days /\ now.minute \in Minutes
  BY TypeParts DEF RestOK
<1>2. now' \in [day : Days, minute : Minutes]
  <2>1. After(now.day, 1) \in Days /\ 0 \in Minutes
    BY <1>1, AfterDay, CalendarAssumption DEF Minutes
  <2>2. CASE now.minute + 1 < DayLength
    <3>1. now.minute + 1 \in Minutes
      BY <1>1, <2>2, CalendarAssumption DEF Minutes
    <3>2. now' = [now EXCEPT !.minute = now.minute + 1]
      BY <2>2 DEF Tick, NextMinute
    <3> QED BY <3>1, <3>2, TypeParts DEF RestOK
  <2>3. CASE ~(now.minute + 1 < DayLength)
    BY <2>1, <2>3 DEF Tick, NextMinute
  <2> QED BY <2>2, <2>3
<1> QED BY <1>2, TypeParts DEF Tick, settings, SettingsOK, TasksOK, RestOK

LEMMA RestartType ==
  ASSUME TypeOK, Restart
  PROVE  TypeOK'
<1> USE TypeParts, Settings
<1>1. DOMAIN disk = {"paused", "config"}
  BY DEF SettingsOK, DiskSide
<1>2. PICK unread \in SUBSET DOMAIN disk :
        /\ faults + Cardinality(unread) <= MaxFaults
        /\ faults' = faults + Cardinality(unread)
        /\ mem' = Reload(unread)
        /\ contested' = unread
        /\ held' = (held /\ "paused" \notin unread)
        /\ syncState' = "idle"
        /\ task' = [t \in Tasks |-> Idle]
        /\ UNCHANGED <<disk, now>>
  BY Zenon DEF Restart
<1>3. Cardinality(unread) \in Nat
  <2>1. IsFiniteSet({"paused"} \cup {"config"})
    BY FS_Singleton, FS_AddElement
  <2> QED BY <1>1, <2>1, FS_Subset, FS_CardinalityType
<1>4. mem' \in MemSide
  <2>1. /\ disk.paused \in BOOLEAN /\ disk.config \in Schedules
        /\ Defaults.paused \in BOOLEAN /\ Defaults.config = NoSchedule
    BY DEF SettingsOK, DiskSide, Defaults
  <2> QED BY <1>1, <1>2, <2>1 DEF Reload, MemSide
<1>5. faults' \in 0..MaxFaults
  BY <1>2, <1>3, FaultsAssumption DEF RestOK
<1>6. TasksOK'
  BY <1>2, IdleType DEF TasksOK
<1>7. held' \in BOOLEAN
  BY <1>2, Zenon
<1> QED BY <1>1, <1>2, <1>4, <1>5, <1>6, <1>7 DEF SettingsOK, RestOK

LEMMA NextType == TypeOK /\ [Next]_vars => TypeOK'
<1>1. TypeOK /\ UNCHANGED vars => TypeOK'
  BY DEF TypeOK, vars, settings
<1>2. Clients \subseteq Tasks
  BY DEF Tasks
<1> QED BY <1>1, <1>2, PauseType, ConfigType, TransferType, TickType, RestartType
        DEF Next, Transfer

\* Every variable keeps to its type; in memory the schedule may also be the
\* one a failed read stands for, on disk it may not.
THEOREM TypeCorrect == Spec => []TypeOK
  BY InitType, NextType, PTL DEF Spec

-----------------------------------------------------------------------------
(* The announced wait *)

\* By the end of the wait the status announces a window has been open, for
\* any schedule and at any time of any week.
THEOREM WaitsLongEnough == Spec => []WaitLongEnough
<1>1. TypeOK => WaitLongEnough
  <2> SUFFICES ASSUME TypeOK, NEW c \in Probes \ {NoSchedule}
               PROVE  OpensWithin(c, now.day, now.minute,
                                  MinutesUntilNextWindow(c, now.day, now.minute))
    BY DEF WaitLongEnough
  <2>1. now.day \in Days /\ now.minute \in Minutes
    BY TypeParts DEF RestOK
  <2>2. c \in Config /\ c # <<>>
    BY SchedulesAssumption DEF NoSchedule
  <2> QED BY <2>1, <2>2, WaitIsEnough
<1> QED BY <1>1, TypeCorrect, PTL

-----------------------------------------------------------------------------
(* Passes *)

\* A task is in a pass afterwards if it was, unless it has ended the pass.
LEMMA PassKept ==
  ASSUME TypeOK, NEW t \in Tasks, NEW u \in Tasks, At(u, "pass"),
         \/ BeginPause(t) \/ EndPause(t) \/ BeginResume(t) \/ EndResume(t)
         \/ \E c \in Schedules : BeginSet(t, c)
         \/ BeginGet(t) \/ EndConfig(t)
         \/ Clear(t) \/ GiveUp(t) \/ BeginPass(t) \/ BeginUpload(t) \/ EndUpload(t)
  PROVE  At(u, "pass")' /\ (syncState' = syncState \/ BeginPass(t))
<1> USE TypeParts
<1>1. CASE \/ BeginPause(t) \/ BeginResume(t) \/ BeginGet(t)
           \/ \E c \in Schedules : BeginSet(t, c)
  <2>1. PICK setting, place, config, unread : Begin(t, setting, place, config, unread)
    BY <1>1 DEF BeginPause, BeginResume, BeginGet, BeginSet
  <2>2. u # t
    BY <2>1, BeginTask DEF At
  <2> QED BY <1>1, <2>1, <2>2, OtherTask DEF At, BeginPause, BeginResume, BeginGet, BeginSet
<1>2. CASE EndPause(t) \/ EndResume(t) \/ EndConfig(t)
  BY <1>2 DEF EndPause, EndResume, EndConfig, End, At, TasksOK
<1>3. CASE Clear(t) \/ GiveUp(t) \/ BeginPass(t) \/ BeginUpload(t) \/ EndUpload(t)
  BY <1>3 DEF Clear, GiveUp, BeginPass, BeginUpload, EndUpload, Move, At, TasksOK
<1> QED BY <1>1, <1>2, <1>3

LEMMA NextSyncing ==
  ASSUME TypeOK, SyncingMeansPass, [Next]_vars
  PROVE  SyncingMeansPass'
<1> USE TypeParts
<1>1. ASSUME NEW t \in Tasks, BeginPass(t)
      PROVE  SyncingMeansPass'
  <2>1. task'[t].at = "pass"
    <3>1. task'[t] = [Idle EXCEPT !.at = "pass"]
      BY <1>1 DEF BeginPass, Move, TasksOK
    <3> QED BY <3>1, IdleType DEF TaskSide
  <2> QED BY <2>1 DEF SyncingMeansPass, At
<1>2. ASSUME NEW t \in Tasks, EndPass(t)
      PROVE  SyncingMeansPass'
  BY <1>2 DEF EndPass, SyncingMeansPass
<1>3. ASSUME NEW t \in Tasks,
         \/ BeginPause(t) \/ EndPause(t) \/ BeginResume(t) \/ EndResume(t)
         \/ \E c \in Schedules : BeginSet(t, c)
         \/ BeginGet(t) \/ EndConfig(t)
         \/ Clear(t) \/ GiveUp(t) \/ BeginUpload(t) \/ EndUpload(t)
      PROVE  SyncingMeansPass'
  <2>1. syncState' = syncState
    BY <1>3 DEF BeginPause, EndPause, BeginResume, EndResume, BeginSet, BeginGet,
       EndConfig, Clear, GiveUp, BeginUpload, EndUpload
  <2>2. \A u \in Tasks : At(u, "pass") => At(u, "pass")'
    BY <1>3, PassKept
  <2> QED BY <2>1, <2>2 DEF SyncingMeansPass
<1>4. CASE Tick \/ UNCHANGED vars
  BY <1>4 DEF Tick, vars, SyncingMeansPass, At
<1>5. CASE Restart
  BY <1>5 DEF Restart, SyncingMeansPass
<1>6. Clients \subseteq Tasks
  BY DEF Tasks
<1> QED BY <1>1, <1>2, <1>3, <1>4, <1>5, <1>6 DEF Next

\* The status says "syncing" only while some task is inside a pass, whichever
\* of the overlapping passes began or ended last.
THEOREM SyncingNeedsPass == Spec => []SyncingMeansPass
<1>1. Init => SyncingMeansPass
  BY DEF Init, SyncingMeansPass
<1>2. TypeOK /\ SyncingMeansPass /\ [Next]_vars => SyncingMeansPass'
  BY NextSyncing
<1> QED BY <1>1, <1>2, TypeCorrect, PTL DEF Spec

-----------------------------------------------------------------------------
(* Requests for a setting *)

\* A request that is alone is the only one for its setting.
Alone ==
  \A s \in DOMAIN Working : \A t \in Busy(s) : task[t].alone => Busy(s) = {t}

\* What a request that is alone has written, or read, is what is stored.
Wrote ==
  \A t \in Tasks : task[t].alone =>
    /\ At(t, "pause") => disk.paused = TRUE
    /\ At(t, "resume") => disk.paused = FALSE
    /\ At(t, "set") \/ At(t, "get") => disk.config = task[t].config

\* A pause that holds is stored and in force, and no resume is under way.
HeldFast ==
  held =>
    /\ mem.paused = TRUE /\ disk.paused = TRUE
    /\ \A t \in Tasks : ~At(t, "resume")

SettingsInv == Alone /\ Wrote /\ HeldFast /\ CopiesAgree

\* The request that begins is alone if nobody is about, and knows its value.
LEMMA BeginAlone ==
  ASSUME TasksOK, NEW t \in Tasks, NEW setting, NEW place, NEW config, NEW unread,
         Begin(t, setting, place, config, unread)
  PROVE  /\ task[t].at = "idle"
         /\ task'[t].at = place
         /\ task'[t].config = config
         /\ task'[t].alone => Busy(setting) = {} /\ ~unread
<1> DEFINE alone == Busy(setting) = {} /\ ~unread
<1>1. task[t].at = "idle"
  BY DEF Begin, At
<1>2. task'[t] = [at |-> place, config |-> config, alone |-> alone]
  BY DEF Begin, TasksOK
<1>3. task'[t].at = place /\ task'[t].config = config /\ task'[t].alone = alone
  <2> HIDE DEF alone
  <2> QED BY <1>2
<1> QED BY <1>1, <1>3

LEMMA BeginPlace ==
  ASSUME TasksOK, NEW t \in Tasks, NEW setting, NEW place, NEW config,
         \E unread : Begin(t, setting, place, config, unread)
  PROVE  task'[t].at = place /\ task'[t].config = config
  BY BeginAlone, Zenon

\* Which tasks work on a setting depends on where they are only.
LEMMA BeginBusy ==
  ASSUME TasksOK, NEW t \in Tasks, NEW setting \in DOMAIN Working,
         NEW place \in Working[setting], NEW config, NEW unread,
         Begin(t, setting, place, config, unread), NEW s \in DOMAIN Working
  PROVE  Busy(s)' = IF s = setting THEN Busy(s) \cup {t} ELSE Busy(s)
<1>1. task[t].at = "idle" /\ task'[t].at = place
  BY BeginAlone
<1>2. \A u \in Tasks \ {t} : task'[u].at = task[u].at
  BY OtherTask
<1>3. "idle" \notin Working[s] /\ (place \in Working[s] <=> s = setting)
  BY Settings
<1> QED BY <1>1, <1>2, <1>3 DEF Busy

\* A task that goes from one place outside the settings to another.
LEMMA MoveBusy ==
  ASSUME TasksOK, NEW t \in Tasks, NEW from, NEW to, Move(t, from, to),
         from \notin {"pause", "resume", "set", "get"},
         to \notin {"pause", "resume", "set", "get"}
  PROVE  /\ \A u \in Tasks \ {t} : task'[u] = task[u]
         /\ task'[t].at \notin {"pause", "resume", "set", "get"}
         /\ \A s \in DOMAIN Working : Busy(s)' = Busy(s)
<1>1. task'[t] = [Idle EXCEPT !.at = to] /\ \A u \in Tasks \ {t} : task'[u] = task[u]
  BY DEF Move, TasksOK
<1>2. task'[t].at = to
  BY <1>1, IdleType DEF TaskSide
<1>3. task[t].at = from
  BY DEF Move, At
<1> QED BY <1>1, <1>2, <1>3, Settings DEF Busy

\* A request that ends.
LEMMA EndBusy ==
  ASSUME TasksOK, NEW t \in Tasks, NEW setting \in DOMAIN Working,
         task[t].at \in Working[setting], End(t, setting)
  PROVE  /\ \A u \in Tasks \ {t} : task'[u] = task[u]
         /\ task'[t].at = "idle"
         /\ \A s \in DOMAIN Working :
              Busy(s)' = IF s = setting THEN Busy(s) \ {t} ELSE Busy(s)
<1>1. task'[t].at = "idle" /\ \A u \in Tasks \ {t} : task'[u] = task[u]
  BY IdleType DEF End, TasksOK
<1> QED BY <1>1, Settings DEF Busy

LEMMA AloneKept ==
  ASSUME TypeOK, Alone, [Next]_vars
  PROVE  Alone'
<1> USE TypeParts
<1>1. ASSUME NEW t \in Tasks, NEW setting \in DOMAIN Working,
             NEW place \in Working[setting], NEW config, NEW unread,
             Begin(t, setting, place, config, unread)
      PROVE  Alone'
  <2> SUFFICES ASSUME NEW s \in DOMAIN Working, NEW u \in Busy(s)', task'[u].alone
               PROVE  Busy(s)' = {u}
    BY Settings DEF Alone
  <2>1. Busy(s)' = IF s = setting THEN Busy(s) \cup {t} ELSE Busy(s)
    BY <1>1, BeginBusy
  <2>2. u \in Tasks
    BY DEF Busy
  <2>3. CASE u = t
    <3>1. task'[t].at = place /\ (task'[t].alone => Busy(setting) = {})
      BY <1>1, BeginAlone
    <3>2. s = setting
      BY <2>3, <3>1, Settings DEF Busy
    <3> QED BY <2>1, <2>3, <3>1, <3>2
  <2>4. CASE u # t
    <3>1. task[u].alone /\ u \notin Busy(setting)
      BY <1>1, <2>2, <2>4, OtherTask
    <3> QED BY <2>1, <2>4, <3>1 DEF Alone
  <2> QED BY <2>3, <2>4
<1>2. ASSUME NEW t \in Tasks, NEW setting \in DOMAIN Working,
             task[t].at \in Working[setting], End(t, setting)
      PROVE  Alone'
  <2> SUFFICES ASSUME NEW s \in DOMAIN Working, NEW u \in Busy(s)', task'[u].alone
               PROVE  Busy(s)' = {u}
    BY Settings DEF Alone
  <2>1. /\ \A v \in Tasks \ {t} : task'[v] = task[v]
        /\ task'[t].at = "idle"
        /\ Busy(s)' = IF s = setting THEN Busy(s) \ {t} ELSE Busy(s)
    BY <1>2, EndBusy
  <2>2. u # t /\ u \in Busy(s)
    BY <2>1, Settings DEF Busy
  <2>3. task[u].alone
    BY <2>1, <2>2 DEF Busy
  <2> QED BY <2>1, <2>2, <2>3 DEF Alone
<1>3. ASSUME NEW t \in Tasks, Transfer(t)
      PROVE  Alone'
  <2>1. PICK from, to : /\ Move(t, from, to)
                        /\ from \notin {"pause", "resume", "set", "get"}
                        /\ to \notin {"pause", "resume", "set", "get"}
    BY <1>3
    DEF Transfer, Clear, GiveUp, BeginPass, EndPass, BeginUpload, EndUpload
  <2>2. /\ \A u \in Tasks \ {t} : task'[u] = task[u]
        /\ task'[t].at \notin {"pause", "resume", "set", "get"}
        /\ \A s \in DOMAIN Working : Busy(s)' = Busy(s)
    BY <2>1, MoveBusy
  <2> SUFFICES ASSUME NEW s \in DOMAIN Working, NEW u \in Busy(s)', task'[u].alone
               PROVE  Busy(s)' = {u}
    BY Settings DEF Alone
  <2>3. u # t /\ u \in Tasks
    BY <2>2, Settings DEF Busy
  <2> QED BY <2>2, <2>3 DEF Alone
<1>4. CASE Tick \/ UNCHANGED vars
  BY <1>4 DEF Tick, vars, Alone, Busy
<1>5. CASE Restart
  BY <1>5, IdleType, Settings DEF Restart, Alone, Busy
<1>6. CASE \E t \in Clients :
             \/ BeginPause(t) \/ BeginResume(t) \/ BeginGet(t)
             \/ \E c \in Schedules : BeginSet(t, c)
  <2>1. \E t \in Tasks, setting \in DOMAIN Working : \E place \in Working[setting] :
          \E config, unread : Begin(t, setting, place, config, unread)
    BY <1>6, Settings DEF Tasks, BeginPause, BeginResume, BeginGet, BeginSet
  <2> QED BY <1>1, <2>1
<1>7. CASE \E t \in Clients : EndPause(t) \/ EndResume(t) \/ EndConfig(t)
  BY <1>2, <1>7, Settings DEF Tasks, EndPause, EndResume, EndConfig, At
<1> QED BY <1>3, <1>4, <1>5, <1>6, <1>7 DEF Next, Transfer, Tasks

\* What the beginning of a request does to the tasks, for each setting.
LEMMA BeginOthers ==
  ASSUME TasksOK, NEW t \in Tasks, NEW setting \in DOMAIN Working, NEW place, NEW config,
         NEW unread, Begin(t, setting, place, config, unread),
         NEW u \in Tasks \ {t}, task'[u].alone
  PROVE  /\ task[u].alone /\ task'[u].at = task[u].at
         /\ task'[u].config = task[u].config
         /\ task'[u].at \notin Working[setting]
  BY OtherTask DEF Busy

\* A request that begins is alone only with what it has stored, and then no
\* other that is alone has stored the same setting.
LEMMA BeginWrote ==
  ASSUME TypeOK, Wrote, NEW t \in Tasks,
         \/ BeginPause(t) \/ BeginResume(t) \/ BeginGet(t)
         \/ \E c \in Schedules : BeginSet(t, c)
  PROVE  Wrote'
<1> USE TypeParts, Settings
<1> SUFFICES ASSUME NEW u \in Tasks, task'[u].alone
             PROVE  /\ task'[u].at = "pause" => disk'.paused = TRUE
                    /\ task'[u].at = "resume" => disk'.paused = FALSE
                    /\ task'[u].at \in {"set", "get"} => disk'.config = task'[u].config
  BY DEF Wrote, At
<1>0. disk \in DiskSide /\ TasksOK
  BY DEF SettingsOK
<1>1. CASE BeginPause(t)
  <2>1. Begin(t, "paused", "pause", NoSchedule, FALSE)
        /\ disk'.paused = TRUE /\ disk'.config = disk.config
    BY <1>0, <1>1 DEF BeginPause, DiskSide
  <2>2. CASE u = t
    <3>1. \E unread : Begin(t, "paused", "pause", NoSchedule, unread)
      BY <2>1, Zenon
    <3>2. task'[t].at = "pause" /\ task'[t].config = NoSchedule
      BY <1>0, <3>1, BeginPlace
    <3> QED BY <2>1, <2>2, <3>1, <3>2
  <2>3. CASE u # t
    <3>1. /\ task[u].alone /\ task'[u].at = task[u].at
          /\ task'[u].config = task[u].config
          /\ task'[u].at \notin Working["paused"]
      BY <2>1, <2>3, BeginOthers
    <3> QED BY <2>1, <3>1 DEF Wrote, At
  <2> QED BY <2>2, <2>3
<1>2. CASE BeginResume(t)
  <2>1. Begin(t, "paused", "resume", NoSchedule, FALSE)
        /\ disk'.paused = FALSE /\ disk'.config = disk.config
    BY <1>0, <1>2 DEF BeginResume, DiskSide
  <2>2. CASE u = t
    <3>1. \E unread : Begin(t, "paused", "resume", NoSchedule, unread)
      BY <2>1, Zenon
    <3>2. task'[t].at = "resume" /\ task'[t].config = NoSchedule
      BY <1>0, <3>1, BeginPlace
    <3> QED BY <2>1, <2>2, <3>1, <3>2
  <2>3. CASE u # t
    <3>1. /\ task[u].alone /\ task'[u].at = task[u].at
          /\ task'[u].config = task[u].config
          /\ task'[u].at \notin Working["paused"]
      BY <2>1, <2>3, BeginOthers
    <3> QED BY <2>1, <3>1 DEF Wrote, At
  <2> QED BY <2>2, <2>3
<1>3. ASSUME NEW c \in Schedules, BeginSet(t, c)
      PROVE  /\ task'[u].at = "pause" => disk'.paused = TRUE
             /\ task'[u].at = "resume" => disk'.paused = FALSE
             /\ task'[u].at \in {"set", "get"} => disk'.config = task'[u].config
  <2>1. Begin(t, "config", "set", c, FALSE)
        /\ disk'.config = c /\ disk'.paused = disk.paused
    BY <1>0, <1>3 DEF BeginSet, DiskSide
  <2>2. CASE u = t
    <3>1. \E unread : Begin(t, "config", "set", c, unread)
      BY <2>1, Zenon
    <3>2. task'[t].at = "set" /\ task'[t].config = c
      BY <1>0, <3>1, BeginPlace
    <3> QED BY <2>1, <2>2, <3>1, <3>2
  <2>3. CASE u # t
    <3>1. /\ task[u].alone /\ task'[u].at = task[u].at
          /\ task'[u].config = task[u].config
          /\ task'[u].at \notin Working["config"]
      BY <2>1, <2>3, BeginOthers
    <3> QED BY <2>1, <3>1 DEF Wrote, At
  <2> QED BY <2>2, <2>3
<1>4. CASE BeginGet(t)
  <2>1. disk' = disk
    BY <1>4 DEF BeginGet, settings
  <2>2. CASE u = t
    <3>1. CASE Begin(t, "config", "get", disk.config, FALSE)
      <4>1. \E unread : Begin(t, "config", "get", disk.config, unread)
        BY <3>1, Zenon
      <4>2. task'[t].at = "get" /\ task'[t].config = disk.config
        BY <1>0, <4>1, BeginPlace
      <4> QED BY <2>1, <2>2, <4>1, <4>2
    <3>2. CASE Begin(t, "config", "get", Defaults.config, TRUE)
      <4>1. ~task'[t].alone
        BY <3>2, BeginAlone, Zenon
      <4> QED BY <2>2, <4>1
    <3> QED BY <1>4, <3>1, <3>2 DEF BeginGet
  <2>3. CASE u # t
    <3>1. \E config, unread : Begin(t, "config", "get", config, unread)
      BY <1>4, Zenon DEF BeginGet
    <3>2. /\ task[u].alone /\ task'[u].at = task[u].at
          /\ task'[u].config = task[u].config
      BY <2>3, <3>1, BeginOthers
    <3> QED BY <2>1, <3>2 DEF Wrote, At
  <2> QED BY <2>2, <2>3
<1> QED BY <1>1, <1>2, <1>3, <1>4

\* A task that neither begins nor ends a request.
LEMMA TransferMoves ==
  ASSUME TypeOK, NEW t \in Tasks, Transfer(t)
  PROVE  /\ \A u \in Tasks \ {t} : task'[u] = task[u]
         /\ task'[t].at \notin {"pause", "resume", "set", "get"}
         /\ \A s \in DOMAIN Working : Busy(s)' = Busy(s)
         /\ UNCHANGED <<disk, mem, faults, contested, held>>
<1>1. PICK from, to : /\ Move(t, from, to)
                      /\ from \notin {"pause", "resume", "set", "get"}
                      /\ to \notin {"pause", "resume", "set", "get"}
  BY DEF Transfer, Clear, GiveUp, BeginPass, EndPass, BeginUpload, EndUpload
<1>2. UNCHANGED <<disk, mem, faults, contested, held>>
  BY DEF Transfer, Clear, GiveUp, BeginPass, EndPass, BeginUpload, EndUpload, settings
<1> QED BY <1>1, <1>2, MoveBusy, TypeParts

\* What a request's end does to the tasks.
LEMMA RequestEnds ==
  ASSUME TypeOK, NEW t \in Tasks, EndPause(t) \/ EndResume(t) \/ EndConfig(t)
  PROVE  /\ \A u \in Tasks \ {t} : task'[u] = task[u]
         /\ task'[t].at = "idle" /\ UNCHANGED <<disk, faults>>
  BY EndBusy, Settings, TypeParts DEF EndPause, EndResume, EndConfig, At

LEMMA WroteKept ==
  ASSUME TypeOK, Wrote, [Next]_vars
  PROVE  Wrote'
<1>1. CASE \E t \in Clients : \/ BeginPause(t) \/ BeginResume(t) \/ BeginGet(t)
                             \/ \E c \in Schedules : BeginSet(t, c)
  BY <1>1, BeginWrote DEF Tasks
<1>2. CASE \E t \in Tasks : EndPause(t) \/ EndResume(t) \/ EndConfig(t)
  BY <1>2, RequestEnds DEF Wrote, At
<1>3. CASE \E t \in Tasks : Transfer(t)
  BY <1>3, TransferMoves DEF Wrote, At
<1>4. CASE Tick \/ UNCHANGED vars
  BY <1>4 DEF Tick, vars, settings, Wrote, At
<1>5. CASE Restart
  BY <1>5, IdleType DEF Restart, Wrote, At
<1> QED BY <1>1, <1>2, <1>3, <1>4, <1>5 DEF Next, Transfer, Tasks

LEMMA HeldKept ==
  ASSUME TypeOK, Alone, Wrote, HeldFast, [Next]_vars
  PROVE  HeldFast'
<1> USE TypeParts, Settings
<1>0. disk \in DiskSide /\ mem \in MemSide
  BY DEF SettingsOK
<1> SUFFICES ASSUME held'
             PROVE  /\ mem'.paused = TRUE /\ disk'.paused = TRUE
                    /\ \A u \in Tasks : task'[u].at # "resume"
  BY DEF HeldFast, At
<1>1. ASSUME NEW t \in Tasks, BeginPause(t)
      PROVE  /\ mem'.paused = TRUE /\ disk'.paused = TRUE
             /\ \A u \in Tasks : task'[u].at # "resume"
  <2>1. /\ Begin(t, "paused", "pause", NoSchedule, FALSE)
        /\ disk'.paused = TRUE /\ mem' = mem /\ held
    BY <1>0, <1>1 DEF BeginPause, DiskSide
  <2>2. \E unread : Begin(t, "paused", "pause", NoSchedule, unread)
    BY <2>1, Zenon
  <2>3. task'[t].at = "pause"
    BY <2>2, BeginPlace
  <2>4. \A u \in Tasks \ {t} : task'[u].at = task[u].at
    BY <2>2, OtherTask
  <2> QED BY <2>1, <2>3, <2>4 DEF HeldFast, At
<1>2. ASSUME NEW t \in Tasks, BeginResume(t)
      PROVE  FALSE
  BY <1>2 DEF BeginResume
<1>3. ASSUME NEW t \in Tasks, BeginGet(t) \/ \E c \in Schedules : BeginSet(t, c)
      PROVE  /\ mem'.paused = TRUE /\ disk'.paused = TRUE
             /\ \A u \in Tasks : task'[u].at # "resume"
  <2>1. disk'.paused = disk.paused /\ mem' = mem /\ held
    BY <1>0, <1>3 DEF BeginGet, BeginSet, settings, DiskSide
  <2>2. \E place \in {"set", "get"} : \E config, unread :
          Begin(t, "config", place, config, unread)
    BY <1>3 DEF BeginGet, BeginSet
  <2> QED BY <2>1, <2>2, BeginAlone, OtherTask DEF HeldFast, At
<1>4. ASSUME NEW t \in Tasks, EndPause(t)
      PROVE  /\ mem'.paused = TRUE /\ disk'.paused = TRUE
             /\ \A u \in Tasks : task'[u].at # "resume"
  <2>1. mem'.paused = TRUE /\ disk' = disk /\ (held \/ task[t].alone)
    BY <1>0, <1>4 DEF EndPause, MemSide
  <2>2. CASE held
    BY <1>4, <2>1, <2>2, RequestEnds DEF HeldFast, At
  <2>3. CASE task[t].alone
    <3>1. task[t].at = "pause" /\ Busy("paused") = {t}
      BY <1>4, <2>3 DEF EndPause, At, Alone, Busy
    <3>2. \A u \in Tasks \ {t} : task[u].at # "resume"
      BY <3>1 DEF Busy
    <3> QED BY <1>4, <2>1, <2>3, <3>1, <3>2, RequestEnds DEF Wrote, At
  <2> QED BY <2>1, <2>2, <2>3
<1>5. ASSUME NEW t \in Tasks, EndResume(t)
      PROVE  FALSE
  BY <1>5 DEF EndResume, HeldFast
<1>6. ASSUME NEW t \in Tasks, EndConfig(t)
      PROVE  /\ mem'.paused = TRUE /\ disk'.paused = TRUE
             /\ \A u \in Tasks : task'[u].at # "resume"
  <2>1. mem'.paused = mem.paused /\ disk' = disk /\ held
    BY <1>0, <1>6 DEF EndConfig, MemSide
  <2> QED BY <1>6, <2>1, RequestEnds DEF HeldFast, At
<1>7. ASSUME NEW t \in Tasks, Transfer(t)
      PROVE  /\ mem'.paused = TRUE /\ disk'.paused = TRUE
             /\ \A u \in Tasks : task'[u].at # "resume"
  BY <1>7, TransferMoves DEF HeldFast, At
<1>8. CASE Tick \/ UNCHANGED vars
  BY <1>8 DEF Tick, vars, settings, HeldFast, At
<1>9. CASE Restart
  <2>1. PICK unread \in SUBSET DOMAIN disk :
          /\ mem' = Reload(unread)
          /\ held' = (held /\ "paused" \notin unread)
          /\ task' = [u \in Tasks |-> Idle]
          /\ disk' = disk
    BY <1>9, Zenon DEF Restart
  <2>2. held /\ "paused" \notin unread
    BY <2>1, Zenon
  <2>3. mem'["paused"] = disk["paused"]
    BY <1>0, <2>1, <2>2 DEF Reload, DiskSide
  <2> QED BY <2>1, <2>2, <2>3, IdleType DEF HeldFast
<1> QED BY <1>1, <1>2, <1>3, <1>4, <1>5, <1>6, <1>7, <1>8, <1>9
        DEF Next, Transfer, Tasks

-----------------------------------------------------------------------------
(* Memory and database *)

\* A request that begins leaves the other setting alone.
LEMMA BeginAgree ==
  ASSUME TypeOK, CopiesAgree, NEW t \in Tasks,
         \/ BeginPause(t) \/ BeginResume(t) \/ BeginGet(t)
         \/ \E c \in Schedules : BeginSet(t, c)
  PROVE  CopiesAgree'
<1> USE TypeParts, Settings
<1>0. disk \in DiskSide /\ TasksOK
  BY DEF SettingsOK
<1>1. /\ contested' = contested /\ mem' = mem
      /\ \E setting \in DOMAIN Working :
           /\ \E place \in Working[setting] : \E config, unread :
                Begin(t, setting, place, config, unread)
           /\ \A s \in DOMAIN Working \ {setting} : disk'[s] = disk[s]
  <2>1. CASE BeginPause(t) \/ BeginResume(t)
    <3>1. \A s \in DOMAIN Working \ {"paused"} : disk'[s] = disk[s]
      BY <1>0, <2>1 DEF BeginPause, BeginResume, DiskSide
    <3>2. \E place \in Working["paused"] : \E config, unread :
            Begin(t, "paused", place, config, unread)
      BY <2>1 DEF BeginPause, BeginResume
    <3>3. "paused" \in DOMAIN Working
      OBVIOUS
    <3>4. contested' = contested /\ mem' = mem
      BY <2>1 DEF BeginPause, BeginResume
    <3> QED BY <3>1, <3>2, <3>3, <3>4, Zenon
  <2>2. CASE BeginGet(t) \/ \E c \in Schedules : BeginSet(t, c)
    <3>1. \A s \in DOMAIN Working \ {"config"} : disk'[s] = disk[s]
      BY <1>0, <2>2 DEF BeginGet, BeginSet, settings, DiskSide
    <3>2. \E place \in Working["config"] : \E config, unread :
            Begin(t, "config", place, config, unread)
      BY <2>2 DEF BeginGet, BeginSet
    <3>3. "config" \in DOMAIN Working
      OBVIOUS
    <3>4. contested' = contested /\ mem' = mem
      BY <2>2 DEF BeginGet, BeginSet, settings
    <3> QED BY <3>1, <3>2, <3>3, <3>4, Zenon
  <2> QED BY <2>1, <2>2
<1>2. PICK setting \in DOMAIN Working :
        /\ \E place \in Working[setting] : \E config, unread :
             Begin(t, setting, place, config, unread)
        /\ \A s \in DOMAIN Working \ {setting} : disk'[s] = disk[s]
  BY <1>1, Zenon
<1>3. \A s \in DOMAIN Working :
        Busy(s)' = IF s = setting THEN Busy(s) \cup {t} ELSE Busy(s)
  BY <1>0, <1>2, BeginBusy
<1> QED BY <1>1, <1>2, <1>3 DEF CopiesAgree

\* A request that ends alone puts in force what is stored; one that does not
\* leaves its setting contested.
LEMMA EndAgree ==
  ASSUME TypeOK, Wrote, CopiesAgree, NEW t \in Tasks,
         NEW setting \in DOMAIN Working, task[t].at \in Working[setting],
         End(t, setting), task[t].alone => mem'[setting] = disk[setting],
         \A s \in DOMAIN Working \ {setting} : mem'[s] = mem[s],
         disk' = disk
  PROVE  CopiesAgree'
<1>1. \A s \in DOMAIN Working :
        Busy(s)' = IF s = setting THEN Busy(s) \ {t} ELSE Busy(s)
  BY EndBusy, TypeParts
<1>2. \A s \in DOMAIN Working \ {setting} : s \in contested' <=> s \in contested
  BY DEF End
<1>3. setting \notin contested' => task[t].alone
  BY DEF End
<1> QED BY <1>1, <1>2, <1>3, Settings DEF CopiesAgree

LEMMA AgreeKept ==
  ASSUME TypeOK, Wrote, CopiesAgree, [Next]_vars
  PROVE  CopiesAgree'
<1> USE TypeParts, Settings
<1>0. disk \in DiskSide /\ mem \in MemSide
  BY DEF SettingsOK
<1>1. CASE \E t \in Clients : \/ BeginPause(t) \/ BeginResume(t) \/ BeginGet(t)
                             \/ \E c \in Schedules : BeginSet(t, c)
  BY <1>1, BeginAgree DEF Tasks
<1>2. ASSUME NEW t \in Tasks, EndPause(t)
      PROVE  CopiesAgree'
  <2>1. /\ task[t].at = "pause" /\ End(t, "paused") /\ disk' = disk
        /\ mem'["paused"] = TRUE /\ mem'["config"] = mem["config"]
    BY <1>0, <1>2 DEF EndPause, At, MemSide
  <2>2. task[t].alone => mem'["paused"] = disk["paused"]
    BY <2>1 DEF Wrote, At
  <2> QED BY <2>1, <2>2, EndAgree
<1>3. ASSUME NEW t \in Tasks, EndResume(t)
      PROVE  CopiesAgree'
  <2>1. /\ task[t].at = "resume" /\ End(t, "paused") /\ disk' = disk
        /\ mem'["paused"] = FALSE /\ mem'["config"] = mem["config"]
    BY <1>0, <1>3 DEF EndResume, At, MemSide
  <2>2. task[t].alone => mem'["paused"] = disk["paused"]
    BY <2>1 DEF Wrote, At
  <2> QED BY <2>1, <2>2, EndAgree
<1>4. ASSUME NEW t \in Tasks, EndConfig(t)
      PROVE  CopiesAgree'
  <2>1. /\ task[t].at \in {"set", "get"} /\ End(t, "config") /\ disk' = disk
        /\ mem'["config"] = task[t].config /\ mem'["paused"] = mem["paused"]
    BY <1>0, <1>4 DEF EndConfig, At, MemSide
  <2>2. task[t].alone => mem'["config"] = disk["config"]
    BY <2>1 DEF Wrote, At
  <2> QED BY <2>1, <2>2, EndAgree
<1>5. CASE \E t \in Tasks : Transfer(t)
  BY <1>5, TransferMoves DEF CopiesAgree
<1>6. CASE Tick \/ UNCHANGED vars
  BY <1>6 DEF Tick, vars, settings, CopiesAgree, Busy
<1>7. CASE Restart
  <2>1. PICK unread \in SUBSET DOMAIN disk :
          /\ mem' = Reload(unread) /\ contested' = unread /\ disk' = disk
    BY <1>7, Zenon DEF Restart
  <2>2. \A s \in DOMAIN Working : s \notin unread => mem'[s] = disk[s]
    BY <1>0, <2>1 DEF Reload, DiskSide
  <2> QED BY <2>1, <2>2 DEF CopiesAgree
<1> QED BY <1>1, <1>2, <1>3, <1>4, <1>5, <1>6, <1>7 DEF Next, Transfer, Tasks

LEMMA InitSettings == Init => SettingsInv
<1> SUFFICES ASSUME Init PROVE SettingsInv
  OBVIOUS
<1>1. \A t \in Tasks : task[t] = Idle
  BY DEF Init
<1>2. \A s \in DOMAIN Working : Busy(s) = {}
  BY <1>1, IdleType, Settings DEF Busy
<1>3. Alone /\ Wrote
  BY <1>1, <1>2, IdleType DEF Alone, Wrote, At
<1>4. HeldFast
  BY DEF Init, HeldFast
<1>5. CopiesAgree
  BY DEF Init, CopiesAgree
<1> QED BY <1>3, <1>4, <1>5 DEF SettingsInv

LEMMA SettingsHold == Spec => []SettingsInv
<1>1. TypeOK /\ SettingsInv /\ [Next]_vars => SettingsInv'
  BY AloneKept, WroteKept, HeldKept, AgreeKept DEF SettingsInv
<1> QED BY <1>1, InitSettings, TypeCorrect, PTL DEF Spec

\* What a restart would bring back is what is in force, for every setting
\* whose last requests did not overlap and which was read without a fault.
THEOREM CopiesStayTogether == Spec => []CopiesAgree
<1>1. SettingsInv => CopiesAgree
  BY DEF SettingsInv
<1> QED BY <1>1, SettingsHold, PTL

\* While an answered pause holds no task is cleared for transfers.
THEOREM PauseIsKept == Spec => PauseHolds
<1>1. TypeOK /\ SettingsInv /\ [Next]_vars
        => [\A t \in Tasks : At(t, "idle") /\ At(t, "cleared")' => ~held]_vars
  <2> SUFFICES ASSUME TypeOK, HeldFast, Next, NEW u \in Tasks,
                      task[u].at = "idle", task'[u].at = "cleared"
               PROVE  ~held
    BY DEF SettingsInv, At
  <2> USE TypeParts
  <2>1. ASSUME NEW t \in Tasks, Clear(t)
        PROVE  ~held
    BY <2>1 DEF Clear, CheckTransfer, HeldFast
  <2>2. ASSUME NEW t \in Tasks,
               \/ GiveUp(t) \/ BeginPass(t) \/ EndPass(t) \/ BeginUpload(t) \/ EndUpload(t)
        PROVE  FALSE
    <3>1. PICK from, to : Move(t, from, to) /\ to # "cleared"
      BY <2>2 DEF GiveUp, BeginPass, EndPass, BeginUpload, EndUpload
    <3>2. CASE u = t
      <4>1. task'[t] = [Idle EXCEPT !.at = to]
        BY <3>1 DEF Move, TasksOK
      <4>2. task'[t].at = to
        BY <4>1, IdleType DEF TaskSide
      <4> QED BY <3>1, <3>2, <4>2
    <3>3. CASE u # t
      BY <3>1, <3>3 DEF Move, TasksOK
    <3> QED BY <3>2, <3>3
  <2>3. ASSUME NEW t \in Tasks,
               \/ BeginPause(t) \/ BeginResume(t) \/ BeginGet(t)
               \/ \E c \in Schedules : BeginSet(t, c)
        PROVE  FALSE
    <3>1. \E setting, place, config, unread :
            Begin(t, setting, place, config, unread) /\ place # "cleared"
      <4>1. /\ "pause" # "cleared" /\ "resume" # "cleared"
            /\ "get" # "cleared" /\ "set" # "cleared"
        OBVIOUS
      <4> QED BY <2>3, <4>1, Zenon DEF BeginPause, BeginResume, BeginGet, BeginSet
    <3> QED BY <3>1, BeginPlace, OtherTask
  <2>4. ASSUME NEW t \in Tasks, EndPause(t) \/ EndResume(t) \/ EndConfig(t)
        PROVE  FALSE
    BY <2>4, RequestEnds
  <2>5. CASE Tick \/ Restart
    BY <2>5, IdleType DEF Tick, Restart
  <2> QED BY <2>1, <2>2, <2>3, <2>4, <2>5 DEF Next, Tasks
<1> QED BY <1>1, SettingsHold, TypeCorrect, PTL DEF Spec, PauseHolds

-----------------------------------------------------------------------------
(* Both settings implement Setting *)

\* A step of another kind changes nothing a client of the schedule sees.
LEMMA ConfigUnseen ==
  ASSUME TypeOK, mem'["config"] = mem["config"], disk'["config"] = disk["config"],
         Busy("config")' = Busy("config"),
         \A t \in Busy("config") : task'[t].config = task[t].config
  PROVE  ConfigInPlay' = ConfigInPlay
  BY DEF ConfigInPlay

LEMMA ConfigStutter ==
  ASSUME TypeOK, NEW t \in Tasks,
         \/ BeginPause(t) \/ EndPause(t) \/ BeginResume(t) \/ EndResume(t)
         \/ Transfer(t)
  PROVE  UNCHANGED <<mem["config"], ConfigInPlay, faults>>
<1> USE TypeParts, Settings
<1>0. disk \in DiskSide /\ mem \in MemSide /\ TasksOK
  BY DEF SettingsOK
<1>1. CASE BeginPause(t) \/ BeginResume(t)
  <2>1. \E place \in Working["paused"] : \E config, unread :
          Begin(t, "paused", place, config, unread)
    BY <1>1 DEF BeginPause, BeginResume
  <2>2. Busy("config")' = Busy("config")
    BY <1>0, <2>1, BeginBusy
  <2>3. \A u \in Busy("config") : task'[u].config = task[u].config
    <3> SUFFICES ASSUME NEW u \in Busy("config") PROVE task'[u].config = task[u].config
      OBVIOUS
    <3>1. u \in Tasks \ {t}
      BY <2>1, BeginAlone DEF Busy
    <3> QED BY <1>0, <2>1, <3>1, OtherTask
  <2>4. /\ mem'["config"] = mem["config"] /\ disk'["config"] = disk["config"]
        /\ faults' = faults
    BY <1>0, <1>1 DEF BeginPause, BeginResume, DiskSide
  <2> QED BY <2>2, <2>3, <2>4, ConfigUnseen
<1>2. CASE EndPause(t) \/ EndResume(t)
  <2>1. task[t].at \in Working["paused"] /\ End(t, "paused")
    BY <1>2 DEF EndPause, EndResume, At
  <2>2. Busy("config")' = Busy("config")
    BY <1>0, <2>1, EndBusy
  <2>3. \A u \in Busy("config") : task'[u].config = task[u].config
    BY <1>0, <2>1, EndBusy DEF Busy
  <2>4. /\ mem'["config"] = mem["config"] /\ disk'["config"] = disk["config"]
        /\ faults' = faults
    BY <1>0, <1>2 DEF EndPause, EndResume, MemSide
  <2> QED BY <2>2, <2>3, <2>4, ConfigUnseen
<1>3. CASE Transfer(t)
  <2>1. \A u \in Busy("config") : task'[u].config = task[u].config
    BY <1>3, TransferMoves DEF Busy
  <2> QED BY <1>3, <2>1, TransferMoves, ConfigUnseen
<1> QED BY <1>1, <1>2, <1>3

\* A schedule that is asked for, whether the request gives or reads it.
LEMMA ConfigAsked ==
  ASSUME TypeOK, NEW t \in Tasks, NEW place \in {"set", "get"}, NEW c,
         \E unread : Begin(t, "config", place, c, unread),
         mem' = mem, disk'.config \in {disk.config, c}
  PROVE  ConfigInPlay' \subseteq ConfigInPlay \cup {c}
         /\ c \in ConfigInPlay' /\ mem.config \in ConfigInPlay'
<1> USE TypeParts, Settings
<1>1. Busy("config")' = Busy("config") \cup {t}
  BY BeginBusy
<1>2. task'[t].config = c /\ \A u \in Tasks \ {t} : task'[u].config = task[u].config
  BY BeginPlace, OtherTask
<1> QED BY <1>1, <1>2 DEF ConfigInPlay, Busy

\* What a restart does to the settings.
LEMMA RestartSettings ==
  ASSUME TypeOK, Restart
  PROVE  /\ mem'["paused"] \in {disk["paused"], Defaults.paused}
         /\ mem'["config"] \in {disk["config"], Defaults.config}
         /\ \A s \in DOMAIN Working : Busy(s)' = {}
         /\ disk' = disk
         /\ faults' > faults \/ (faults' = faults /\ mem'["paused"] = disk["paused"]
                                             /\ mem'["config"] = disk["config"])
<1> USE TypeParts, Settings
<1>1. DOMAIN disk = {"paused", "config"}
  BY DEF SettingsOK, DiskSide
<1>2. PICK unread \in SUBSET DOMAIN disk :
        /\ faults' = faults + Cardinality(unread)
        /\ mem' = Reload(unread)
        /\ task' = [t \in Tasks |-> Idle]
        /\ disk' = disk
  BY Zenon DEF Restart
<1>3. IsFiniteSet(unread)
  <2>1. IsFiniteSet({"paused"} \cup {"config"})
    BY FS_Singleton, FS_AddElement
  <2> QED BY <1>1, <2>1, FS_Subset
<1>4. CASE unread = {}
  BY <1>1, <1>2, <1>4, FS_EmptySet, IdleType DEF Reload, Busy, RestOK
<1>5. CASE unread # {}
  <2>1. Cardinality(unread) \in Nat /\ Cardinality(unread) # 0
    BY <1>3, <1>5, FS_CardinalityType, FS_EmptySet
  <2>2. faults' > faults
    BY <1>2, <2>1, FaultsAssumption DEF RestOK
  <2>3. /\ mem'["paused"] \in {disk["paused"], Defaults["paused"]}
        /\ mem'["config"] \in {disk["config"], Defaults["config"]}
    BY <1>1, <1>2 DEF Reload
  <2> QED BY <1>2, <2>2, <2>3, IdleType DEF Busy
<1> QED BY <1>4, <1>5

LEMMA ConfigStep ==
  ASSUME TypeOK, [Next]_vars
  PROVE  [ConfigSetting!Next]_(ConfigSetting!vars)
<1> USE TypeParts, Settings
<1>0. disk \in DiskSide /\ mem \in MemSide /\ TasksOK /\ faults \in Nat
  BY FaultsAssumption DEF SettingsOK, RestOK
<1>1. ASSUME NEW t \in Tasks,
             \/ BeginPause(t) \/ EndPause(t) \/ BeginResume(t) \/ EndResume(t)
             \/ Transfer(t)
      PROVE  UNCHANGED ConfigSetting!vars
  BY <1>1, ConfigStutter DEF ConfigSetting!vars
<1>2. ASSUME NEW t \in Tasks, NEW c \in Schedules, BeginSet(t, c)
      PROVE  ConfigSetting!Next
  <2>1. \E unread : Begin(t, "config", "set", c, unread)
    BY <1>2, Zenon DEF BeginSet
  <2>2. mem' = mem /\ disk'.config = c /\ faults' = faults
    BY <1>0, <1>2 DEF BeginSet, DiskSide
  <2>3. ConfigSetting!Ask(c)
    BY <2>1, <2>2, ConfigAsked DEF ConfigSetting!Ask
  <2> QED BY <2>3 DEF ConfigSetting!Next
<1>3. ASSUME NEW t \in Tasks, BeginGet(t)
      PROVE  ConfigSetting!Next
  <2>1. mem' = mem /\ disk' = disk
    BY <1>3 DEF BeginGet, settings
  <2>2. mem.config \in ConfigInPlay /\ disk.config \in ConfigInPlay
    BY DEF ConfigInPlay
  <2>3. CASE Begin(t, "config", "get", disk.config, FALSE) /\ UNCHANGED faults
    <3>1. \E unread : Begin(t, "config", "get", disk.config, unread)
      BY <2>3, Zenon
    <3>2. ConfigSetting!Take
      BY <2>1, <2>2, <2>3, <3>1, ConfigAsked DEF ConfigSetting!Take
    <3> QED BY <3>2 DEF ConfigSetting!Next
  <2>4. CASE faults' = faults + 1 /\ Begin(t, "config", "get", Defaults.config, TRUE)
    <3>1. \E unread : Begin(t, "config", "get", Defaults.config, unread)
      BY <2>4, Zenon
    <3>2. /\ ConfigInPlay' \subseteq ConfigInPlay \cup {Defaults.config}
          /\ mem.config \in ConfigInPlay'
      BY <2>1, <3>1, ConfigAsked
    <3>3. faults' > faults
      BY <1>0, <2>4
    <3>4. ConfigSetting!Lose
      BY <2>1, <2>2, <3>2, <3>3 DEF ConfigSetting!Lose
    <3> QED BY <3>4 DEF ConfigSetting!Next
  <2> QED BY <1>3, <2>3, <2>4 DEF BeginGet
<1>4. ASSUME NEW t \in Tasks, EndConfig(t)
      PROVE  ConfigSetting!Next
  <2>1. /\ t \in Busy("config") /\ End(t, "config") /\ disk' = disk
        /\ mem'.config = task[t].config /\ faults' = faults
    BY <1>0, <1>4 DEF EndConfig, At, Busy, MemSide
  <2>2. /\ Busy("config")' = Busy("config") \ {t}
        /\ \A u \in Tasks \ {t} : task'[u] = task[u]
    BY <1>0, <2>1, EndBusy DEF Busy
  <2>3. ConfigSetting!Take
    BY <2>1, <2>2 DEF ConfigSetting!Take, ConfigInPlay, Busy
  <2> QED BY <2>3 DEF ConfigSetting!Next
<1>5. CASE Tick \/ UNCHANGED vars
  BY <1>5 DEF Tick, vars, settings, ConfigSetting!vars, ConfigInPlay, Busy
<1>6. CASE Restart
  <2>1. mem'["config"] \in ConfigInPlay' /\ ConfigInPlay' \subseteq {disk["config"], mem'["config"]}
    BY <1>6, RestartSettings DEF ConfigInPlay
  <2>2. disk["config"] \in ConfigInPlay
    BY DEF ConfigInPlay
  <2>3. ConfigSetting!Take \/ ConfigSetting!Lose
    BY <1>6, <2>1, <2>2, RestartSettings DEF ConfigSetting!Take, ConfigSetting!Lose
  <2> QED BY <2>3 DEF ConfigSetting!Next
<1> QED BY <1>1, <1>2, <1>3, <1>4, <1>5, <1>6 DEF Next, Transfer, Tasks

\* Which values of the flag may still come into force.
OnInPlay ==
  mem.paused = TRUE \/ disk.paused = TRUE \/ \E t \in Tasks : At(t, "pause")
OffInPlay ==
  mem.paused = FALSE \/ disk.paused = FALSE \/ \E t \in Tasks : At(t, "resume")

LEMMA PauseInPlayIs ==
  ASSUME TypeOK
  PROVE  /\ PauseInPlay \subseteq BOOLEAN
         /\ TRUE \in PauseInPlay <=> OnInPlay
         /\ FALSE \in PauseInPlay <=> OffInPlay
<1> USE TypeParts, Settings
<1> DEFINE requests == {At(t, "pause") : t \in Busy("paused")}
<1>1. mem.paused \in BOOLEAN /\ disk.paused \in BOOLEAN
  BY DEF SettingsOK, DiskSide, MemSide
<1>2. \A t \in Busy("paused") : t \in Tasks /\ At(t, "pause") \in BOOLEAN
                              /\ (~At(t, "pause") <=> At(t, "resume"))
  BY DEF Busy, At
<1>3. \A t \in Tasks : At(t, "pause") \/ At(t, "resume") => t \in Busy("paused")
  BY DEF Busy, At
<1>4. requests \subseteq BOOLEAN
  BY <1>2, Zenon
<1>5. TRUE \in requests <=> \E t \in Tasks : At(t, "pause")
  BY <1>2, <1>3, Zenon
<1>6. FALSE \in requests <=> \E t \in Tasks : At(t, "resume")
  BY <1>2, <1>3, Zenon
<1>7. PauseInPlay = {mem.paused, disk.paused} \cup requests
  BY Zenon DEF PauseInPlay
<1> HIDE DEF requests
<1> QED BY <1>1, <1>4, <1>5, <1>6, <1>7 DEF OnInPlay, OffInPlay

InPlayOK ==
  /\ PauseInPlay \subseteq BOOLEAN
  /\ TRUE \in PauseInPlay <=> OnInPlay
  /\ FALSE \in PauseInPlay <=> OffInPlay

LEMMA InPlayNowAndNext == (TypeOK => InPlayOK) /\ (TypeOK' => InPlayOK')
<1>1. TypeOK => InPlayOK
  BY PauseInPlayIs DEF InPlayOK
<1> QED BY <1>1, PTL

LEMMA TwoValues ==
  ASSUME NEW S \in SUBSET BOOLEAN, NEW T,
         TRUE \in S => TRUE \in T, FALSE \in S => FALSE \in T
  PROVE  S \subseteq T
  OBVIOUS

\* Where the requests for the pause are after a step.
PauseMoves(t, from, to) ==
  \A u \in Tasks :
    /\ u # t => (At(u, "pause")' <=> At(u, "pause")) /\ (At(u, "resume")' <=> At(u, "resume"))
    /\ u = t => /\ At(u, "pause") <=> from = "pause"
                /\ At(u, "resume") <=> from = "resume"
                /\ At(u, "pause")' <=> to = "pause"
                /\ At(u, "resume")' <=> to = "resume"

LEMMA PauseMovesTo ==
  ASSUME TypeOK, NEW t \in Tasks
  PROVE  /\ BeginPause(t) => PauseMoves(t, "idle", "pause")
         /\ BeginResume(t) => PauseMoves(t, "idle", "resume")
         /\ EndPause(t) => PauseMoves(t, "pause", "idle")
         /\ EndResume(t) => PauseMoves(t, "resume", "idle")
         /\ BeginGet(t) \/ (\E c \in Schedules : BeginSet(t, c)) \/ EndConfig(t) \/ Transfer(t)
              => PauseMoves(t, "idle", "idle")
<1> USE TypeParts
<1>1. ASSUME NEW place,
             \E setting, config, unread : Begin(t, setting, place, config, unread)
      PROVE  PauseMoves(t, "idle", place)
  <2>1. task[t].at = "idle" /\ task'[t].at = place
    BY <1>1, BeginPlace, BeginAlone, Zenon
  <2>2. \A u \in Tasks \ {t} : task'[u].at = task[u].at
    BY <1>1, OtherTask
  <2> QED BY <2>1, <2>2 DEF PauseMoves, At
<1>2. BeginPause(t) => PauseMoves(t, "idle", "pause")
  BY <1>1, Zenon DEF BeginPause
<1>3. BeginResume(t) => PauseMoves(t, "idle", "resume")
  BY <1>1, Zenon DEF BeginResume
<1>4. BeginGet(t) \/ (\E c \in Schedules : BeginSet(t, c)) => PauseMoves(t, "idle", "idle")
  <2>1. BeginGet(t) => PauseMoves(t, "idle", "get")
    BY <1>1, Zenon DEF BeginGet
  <2>2. (\E c \in Schedules : BeginSet(t, c)) => PauseMoves(t, "idle", "set")
    BY <1>1, Zenon DEF BeginSet
  <2> QED BY <2>1, <2>2 DEF PauseMoves
<1>5. EndPause(t) => PauseMoves(t, "pause", "idle")
  BY RequestEnds DEF EndPause, PauseMoves, At
<1>6. EndResume(t) => PauseMoves(t, "resume", "idle")
  BY RequestEnds DEF EndResume, PauseMoves, At
<1>7. EndConfig(t) => PauseMoves(t, "idle", "idle")
  BY RequestEnds DEF EndConfig, PauseMoves, At
<1>8. Transfer(t) => PauseMoves(t, "idle", "idle")
  <2>1. Transfer(t) => task[t].at \notin {"pause", "resume"}
    BY DEF Transfer, Clear, GiveUp, BeginPass, EndPass, BeginUpload, EndUpload, Move, At
  <2> QED BY <2>1, TransferMoves DEF PauseMoves, At
<1> QED BY <1>2, <1>3, <1>4, <1>5, <1>6, <1>7, <1>8

LEMMA PauseStep ==
  ASSUME TypeOK, TypeOK', [Next]_vars
  PROVE  [PauseSetting!Next]_(PauseSetting!vars)
<1> USE TypeParts, Settings
<1>0. disk \in DiskSide /\ mem \in MemSide /\ mem' \in MemSide /\ faults \in Nat
  BY FaultsAssumption DEF SettingsOK, RestOK, DiskSide, MemSide
<1>1. InPlayOK /\ InPlayOK'
  BY InPlayNowAndNext
<1>2. mem.paused \in PauseInPlay /\ mem'.paused \in PauseInPlay'
      /\ disk.paused \in PauseInPlay
  BY DEF PauseInPlay
<1>3. ASSUME OnInPlay' => OnInPlay, OffInPlay' => OffInPlay
      PROVE  PauseInPlay' \subseteq PauseInPlay
  BY <1>1, <1>3, TwoValues DEF InPlayOK
<1>4. ASSUME NEW t \in Tasks, BeginPause(t)
      PROVE  PauseSetting!Next
  <2>1. disk'.paused = TRUE /\ mem' = mem /\ faults' = faults
    BY <1>0, <1>4 DEF BeginPause, DiskSide
  <2>2. PauseMoves(t, "idle", "pause")
    BY <1>4, PauseMovesTo
  <2>3. OnInPlay' /\ (OffInPlay' => OffInPlay)
    BY <2>1, <2>2 DEF OnInPlay, OffInPlay, PauseMoves
  <2>4. TRUE \in PauseInPlay' /\ PauseInPlay' \subseteq PauseInPlay \cup {TRUE}
    BY <1>1, <2>3, TwoValues DEF InPlayOK
  <2>5. PauseSetting!Ask(TRUE)
    BY <1>2, <2>1, <2>4 DEF PauseSetting!Ask
  <2> QED BY <2>5 DEF PauseSetting!Next
<1>5. ASSUME NEW t \in Tasks, BeginResume(t)
      PROVE  PauseSetting!Next
  <2>1. disk'.paused = FALSE /\ mem' = mem /\ faults' = faults
    BY <1>0, <1>5 DEF BeginResume, DiskSide
  <2>2. PauseMoves(t, "idle", "resume")
    BY <1>5, PauseMovesTo
  <2>3. OffInPlay' /\ (OnInPlay' => OnInPlay)
    BY <2>1, <2>2 DEF OnInPlay, OffInPlay, PauseMoves
  <2>4. FALSE \in PauseInPlay' /\ PauseInPlay' \subseteq PauseInPlay \cup {FALSE}
    BY <1>1, <2>3, TwoValues DEF InPlayOK
  <2>5. PauseSetting!Ask(FALSE)
    BY <1>2, <2>1, <2>4 DEF PauseSetting!Ask
  <2> QED BY <2>5 DEF PauseSetting!Next
<1>6. ASSUME NEW t \in Tasks, EndPause(t)
      PROVE  PauseSetting!Next
  <2>1. mem'.paused = TRUE /\ disk' = disk /\ faults' = faults
    BY <1>0, <1>6 DEF EndPause, MemSide
  <2>2. PauseMoves(t, "pause", "idle")
    BY <1>6, PauseMovesTo
  <2>3. OnInPlay /\ (OffInPlay' => OffInPlay)
    BY <2>1, <2>2 DEF OnInPlay, OffInPlay, PauseMoves
  <2>4. TRUE \in PauseInPlay /\ PauseInPlay' \subseteq PauseInPlay
    BY <1>1, <1>3, <2>3 DEF InPlayOK
  <2>5. PauseSetting!Take
    BY <1>2, <2>1, <2>4 DEF PauseSetting!Take
  <2> QED BY <2>5 DEF PauseSetting!Next
<1>7. ASSUME NEW t \in Tasks, EndResume(t)
      PROVE  PauseSetting!Next
  <2>1. mem'.paused = FALSE /\ disk' = disk /\ faults' = faults
    BY <1>0, <1>7 DEF EndResume, MemSide
  <2>2. PauseMoves(t, "resume", "idle")
    BY <1>7, PauseMovesTo
  <2>3. OffInPlay /\ (OnInPlay' => OnInPlay)
    BY <2>1, <2>2 DEF OnInPlay, OffInPlay, PauseMoves
  <2>4. FALSE \in PauseInPlay /\ PauseInPlay' \subseteq PauseInPlay
    BY <1>1, <1>3, <2>3 DEF InPlayOK
  <2>5. PauseSetting!Take
    BY <1>2, <2>1, <2>4 DEF PauseSetting!Take
  <2> QED BY <2>5 DEF PauseSetting!Next
<1>8. ASSUME NEW t \in Tasks,
             \/ BeginGet(t) \/ (\E c \in Schedules : BeginSet(t, c))
             \/ EndConfig(t) \/ Transfer(t)
      PROVE  \/ PauseSetting!Take
             \/ PauseSetting!Lose
  <2>1. mem'.paused = mem.paused /\ disk'.paused = disk.paused
    BY <1>0, <1>8, TransferMoves
       DEF BeginGet, BeginSet, EndConfig, settings, DiskSide, MemSide
  <2>2. faults' = faults \/ faults' > faults
    <3>1. faults' = faults \/ faults' = faults + 1
      BY <1>8, TransferMoves, Zenon DEF BeginGet, BeginSet, EndConfig
    <3> QED BY <1>0, <3>1
  <2>3. PauseMoves(t, "idle", "idle")
    BY <1>8, PauseMovesTo
  <2>4. (OnInPlay' => OnInPlay) /\ (OffInPlay' => OffInPlay)
    BY <2>1, <2>3 DEF OnInPlay, OffInPlay, PauseMoves
  <2> QED BY <1>2, <1>3, <2>1, <2>2, <2>4 DEF PauseSetting!Take, PauseSetting!Lose
<1>9. CASE Tick \/ UNCHANGED vars
  BY <1>9 DEF Tick, vars, settings, PauseSetting!vars, PauseInPlay, Busy, At
<1>10. CASE Restart
  <2>1. /\ mem'["paused"] \in {disk["paused"], Defaults.paused} /\ disk' = disk
        /\ faults' > faults \/ (faults' = faults /\ mem'["paused"] = disk["paused"])
        /\ Busy("paused")' = {}
    BY <1>10, RestartSettings
  <2>2. PauseInPlay' = {mem'["paused"], disk["paused"]}
    BY <2>1, Zenon DEF PauseInPlay
  <2>3. PauseSetting!Take \/ PauseSetting!Lose
    BY <1>2, <2>1, <2>2 DEF PauseSetting!Take, PauseSetting!Lose
  <2> QED BY <2>3 DEF PauseSetting!Next
<1> QED BY <1>4, <1>5, <1>6, <1>7, <1>8, <1>9, <1>10
        DEF Next, Transfer, Tasks, PauseSetting!Next

\* The flag and the schedule change to nothing but a value that was asked
\* for, or the default after a read that failed: both implement Setting.
THEOREM SettingsImplement == Spec => SettingsRefine
<1>1. Init => PauseSetting!Init /\ ConfigSetting!Init
  <2> SUFFICES ASSUME Init PROVE PauseSetting!Init /\ ConfigSetting!Init
    OBVIOUS
  <2>1. \A s \in DOMAIN Working : Busy(s) = {}
    BY IdleType, Settings DEF Init, Busy
  <2>2. mem = disk /\ disk.paused \in BOOLEAN /\ disk.config \in Schedules /\ faults = 0
    BY DEF Init
  <2>3. PauseInPlay = {mem.paused}
    BY <2>1, <2>2, Settings, Zenon DEF PauseInPlay
  <2>4. ConfigInPlay = {mem.config}
    BY <2>1, <2>2, Settings, Zenon DEF ConfigInPlay
  <2> QED BY <2>2, <2>3, <2>4 DEF PauseSetting!Init, ConfigSetting!Init
<1>2. TypeOK /\ TypeOK' /\ [Next]_vars
        => [PauseSetting!Next]_(PauseSetting!vars) /\ [ConfigSetting!Next]_(ConfigSetting!vars)
  BY PauseStep, ConfigStep
<1> QED BY <1>1, <1>2, TypeCorrect, PTL
        DEF Spec, SettingsRefine, PauseSetting!Spec, ConfigSetting!Spec
=============================================================================
