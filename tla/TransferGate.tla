------------------------------ MODULE TransferGate ------------------------------
(***************************************************************************)
(* The daemon's handler between its clients and the transfers              *)
(* (crates/protond/src/handler.rs): pause, resume and the transfer         *)
(* schedule, each kept in the database and in memory, and the check that   *)
(* a background pass, drive.sync or drive.upload_file makes before it      *)
(* starts.                                                                 *)
(*                                                                         *)
(* Requests run in the tasks of their connections, the background passes   *)
(* in the loop's.  Each call of the database and each lock is a step of    *)
(* its own.  A request the rate limiter refuses, or whose write of the     *)
(* database fails, changes nothing and is left out.                        *)
(***************************************************************************)
EXTENDS TransferSchedule, FiniteSets

CONSTANTS
  Clients,    \* connections: each handles one request at a time
  Loop,       \* the task of background_loop
  Schedules,  \* the schedules transfer.config may be given
  Probes,     \* schedules on which the announced wait is checked
  MaxFaults   \* bound: reads of the database that fail

ASSUME LoopAssumption == Loop \notin Clients
ASSUME SchedulesAssumption == Schedules \subseteq Config /\ Probes \subseteq Config
ASSUME FaultsAssumption == MaxFaults \in Nat

VARIABLES
  disk,       \* sync_meta: sync.paused and transfer.config
  mem,        \* the transfer manager's copies of them
  syncState,  \* IpcHandler.sync_state
  task,       \* where each task is
  now,        \* the clock: day of the week and minute
  faults,
  contested,  \* history: settings left by requests that overlapped
  held        \* history: a pause was answered, and nobody resumes

settings == <<disk, mem>>
vars == <<disk, mem, syncState, task, now, faults, contested, held>>

-----------------------------------------------------------------------------
Tasks == Clients \cup {Loop}
NoSchedule == <<>>

\* Where the requests for each setting are.
Working == [paused |-> {"pause", "resume"}, config |-> {"set", "get"}]
Places == {"idle", "cleared", "pass", "upload"}
          \cup Working.paused \cup Working.config

Idle == [at |-> "idle", config |-> NoSchedule, alone |-> TRUE]
At(t, place) == task[t].at = place
Busy(setting) == {t \in Tasks : task[t].at \in Working[setting]}
Move(t, from, to) ==
  At(t, from) /\ task' = [task EXCEPT ![t] = [Idle EXCEPT !.at = to]]

Defaults == [paused |-> FALSE, config |-> NoSchedule]

\* IpcHandler::new, on a database that holds what earlier runs left there.
Init ==
  /\ disk \in [paused : BOOLEAN, config : Schedules]
  /\ mem = disk
  /\ syncState = "idle"
  /\ task = [t \in Tasks |-> Idle]
  /\ now = [day |-> 0, minute |-> 0]
  /\ faults = 0
  /\ contested = {}
  /\ held = FALSE

-----------------------------------------------------------------------------
(* Settings: first the database, then the memory *)

Begin(t, setting, place, config, unread) ==
  LET others == Busy(setting)
  IN  /\ At(t, "idle") /\ t \in Clients
      /\ task' = [u \in Tasks |->
           IF u = t THEN [at |-> place, config |-> config,
                          alone |-> others = {} /\ ~unread]
           ELSE IF u \in others THEN [task[u] EXCEPT !.alone = FALSE]
           ELSE task[u]]

End(t, setting) ==
  /\ task' = [task EXCEPT ![t] = Idle]
  /\ contested' = IF task[t].alone THEN contested \ {setting}
                                   ELSE contested \cup {setting}

BeginPause(t) ==
  /\ Begin(t, "paused", "pause", NoSchedule, FALSE)
  /\ disk' = [disk EXCEPT !.paused = TRUE]
  /\ UNCHANGED <<mem, syncState, now, faults, contested, held>>

EndPause(t) ==
  /\ At(t, "pause")
  /\ mem' = [mem EXCEPT !.paused = TRUE]
  /\ End(t, "paused")
  /\ held' = (held \/ task[t].alone)
  /\ UNCHANGED <<disk, syncState, now, faults>>

BeginResume(t) ==
  /\ Begin(t, "paused", "resume", NoSchedule, FALSE)
  /\ disk' = [disk EXCEPT !.paused = FALSE]
  /\ held' = FALSE
  /\ UNCHANGED <<mem, syncState, now, faults, contested>>

EndResume(t) ==
  /\ At(t, "resume")
  /\ mem' = [mem EXCEPT !.paused = FALSE]
  /\ End(t, "paused")
  /\ UNCHANGED <<disk, syncState, now, faults, held>>

\* (mistake: the schedule is given to the manager only)
BeginSet_Unsaved(t, c) ==
  /\ Begin(t, "config", "set", c, FALSE)
  /\ UNCHANGED <<settings, syncState, now, faults, contested, held>>

\* transfer.config with windows.
BeginSet(t, c) ==
  /\ Begin(t, "config", "set", c, FALSE)
  /\ disk' = [disk EXCEPT !.config = c]
  /\ UNCHANGED <<mem, syncState, now, faults, contested, held>>

\* transfer.config without: reads the database, and takes a read that fails
\* for a schedule without windows.
BeginGet(t) ==
  /\ \/ Begin(t, "config", "get", disk.config, FALSE) /\ UNCHANGED faults
     \/ /\ faults < MaxFaults
        /\ faults' = faults + 1
        /\ Begin(t, "config", "get", Defaults.config, TRUE)
  /\ UNCHANGED <<settings, syncState, now, contested, held>>

\* (mistake: a new manager, TransferManager::with_config, is put in place)
EndConfig_New(t) ==
  /\ At(t, "set") \/ At(t, "get")
  /\ mem' = [paused |-> FALSE, config |-> task[t].config]
  /\ End(t, "config")
  /\ UNCHANGED <<disk, syncState, now, faults, held>>

\* Either kind then gives the manager the schedule it holds.
EndConfig(t) ==
  /\ At(t, "set") \/ At(t, "get")
  /\ mem' = [mem EXCEPT !.config = task[t].config]
  /\ End(t, "config")
  /\ UNCHANGED <<disk, syncState, now, faults, held>>

-----------------------------------------------------------------------------
(* Transfers *)

CheckTransfer ==
  ~mem.paused /\ IsInWindowAt(mem.config, now.day, now.minute)

\* trigger_sync, drive.sync and drive.upload_file up to the check and the
\* session, the password or the keyring they need besides.
Clear(t) ==
  /\ CheckTransfer
  /\ Move(t, "idle", "cleared")
  /\ UNCHANGED <<settings, syncState, now, faults, contested, held>>

\* No session, no password cached, no client.
GiveUp(t) ==
  /\ Move(t, "cleared", "idle")
  /\ UNCHANGED <<settings, syncState, now, faults, contested, held>>

BeginPass(t) ==
  /\ Move(t, "cleared", "pass")
  /\ syncState' = "syncing"
  /\ UNCHANGED <<settings, now, faults, contested, held>>

\* (mistake: a pass that fails returns at once)
EndPass_Early(t) ==
  /\ Move(t, "pass", "idle")
  /\ syncState' \in {"idle", syncState}
  /\ UNCHANGED <<settings, now, faults, contested, held>>

EndPass(t) ==
  /\ Move(t, "pass", "idle")
  /\ syncState' = "idle"
  /\ UNCHANGED <<settings, now, faults, contested, held>>

BeginUpload(t) ==
  /\ t \in Clients
  /\ Move(t, "cleared", "upload")
  /\ UNCHANGED <<settings, syncState, now, faults, contested, held>>

EndUpload(t) ==
  /\ Move(t, "upload", "idle")
  /\ UNCHANGED <<settings, syncState, now, faults, contested, held>>

-----------------------------------------------------------------------------
(* The clock, and the daemon's end *)

\* (mistake: the day has one minute too many)
NextMinute_Late(time) ==
  IF time.minute < DayLength
  THEN [time EXCEPT !.minute = time.minute + 1]
  ELSE [day |-> After(time.day, 1), minute |-> 0]

NextMinute(time) ==
  IF time.minute + 1 < DayLength
  THEN [time EXCEPT !.minute = time.minute + 1]
  ELSE [day |-> After(time.day, 1), minute |-> 0]

Tick ==
  /\ now' = NextMinute(now)
  /\ UNCHANGED <<settings, syncState, task, faults, contested, held>>

\* (mistake: the schedule is not read at the start)
Reload_PauseOnly(unread) ==
  [s \in DOMAIN disk |->
     IF s \in unread \cup {"config"} THEN Defaults[s] ELSE disk[s]]

\* What the new process reads, given the settings whose read fails.
Reload(unread) == [s \in DOMAIN disk |-> IF s \in unread THEN Defaults[s] ELSE disk[s]]

\* It dies at any point and is started again.
Restart ==
  \E unread \in SUBSET DOMAIN disk :
    /\ faults + Cardinality(unread) <= MaxFaults
    /\ faults' = faults + Cardinality(unread)
    /\ mem' = Reload(unread)
    /\ contested' = unread
    /\ held' = (held /\ "paused" \notin unread)
    /\ syncState' = "idle"
    /\ task' = [t \in Tasks |-> Idle]
    /\ UNCHANGED <<disk, now>>

Next ==
  \/ \E t \in Clients :
       \/ BeginPause(t) \/ EndPause(t) \/ BeginResume(t) \/ EndResume(t)
       \/ \E c \in Schedules : BeginSet(t, c)
       \/ BeginGet(t) \/ EndConfig(t)
       \/ BeginUpload(t) \/ EndUpload(t)
  \/ \E t \in Tasks : Clear(t) \/ GiveUp(t) \/ BeginPass(t) \/ EndPass(t)
  \/ Tick
  \/ Restart

Spec == Init /\ [][Next]_vars

-----------------------------------------------------------------------------
(* Properties *)

\* Types of the handler's settings and tasks.
TypeOK ==
  /\ disk \in [paused : BOOLEAN, config : Schedules]
  /\ mem \in [paused : BOOLEAN, config : Schedules \cup {NoSchedule}]
  /\ syncState \in {"idle", "syncing"}
  /\ task \in [Tasks -> [at : Places, config : Schedules \cup {NoSchedule},
                         alone : BOOLEAN]]
  /\ now \in [day : Days, minute : Minutes]
  /\ faults \in 0..MaxFaults
  /\ contested \subseteq DOMAIN Working
  /\ held \in BOOLEAN

\* What a restart would bring back is what is in force, for a setting nobody
\* is changing: unless the last requests for it overlapped, or it was read
\* while the database failed (handler.rs:1214-1288).
CopiesAgree ==
  \A s \in DOMAIN Working :
    Busy(s) = {} /\ s \notin contested => mem[s] = disk[s]

\* After a pause that was answered, undisturbed by a resume, no task is
\* cleared for transfers until somebody resumes: not by a change of the
\* schedule nor by a restart (handler.rs:205, 746, 1124).
PauseHolds ==
  [][\A t \in Tasks : At(t, "idle") /\ At(t, "cleared")' => ~held]_vars

\* The status says "syncing" only while some task is inside a pass: a pass
\* that ends another way must not leave it on (handler.rs:226-259, 755-758).
SyncingMeansPass ==
  syncState = "syncing" => \E t \in Tasks : At(t, "pass")

\* The wait that the status message announces is never too short: by its end
\* a window has been open (transfer.rs:42-76).
WaitLongEnough ==
  (\A t \in Tasks : At(t, "idle")) =>
    \A c \in Probes \ {NoSchedule} :
      OpensWithin(c, now.day, now.minute,
                  MinutesUntilNextWindow(c, now.day, now.minute))

\* The flag and the schedule are settings in the sense of Setting, the
\* memory holding the value in force (handler.rs:122-134, 1214-1288).
PauseInPlay ==
  {mem.paused, disk.paused} \cup {At(t, "pause") : t \in Busy("paused")}
ConfigInPlay ==
  {mem.config, disk.config} \cup {task[t].config : t \in Busy("config")}
PauseSetting == INSTANCE Setting
  WITH Values <- BOOLEAN, Default <- Defaults.paused,
       value <- mem.paused, asked <- PauseInPlay, losses <- faults
ConfigSetting == INSTANCE Setting
  WITH Values <- Schedules, Default <- Defaults.config,
       value <- mem.config, asked <- ConfigInPlay, losses <- faults
SettingsRefine == PauseSetting!Spec /\ ConfigSetting!Spec

-----------------------------------------------------------------------------
(* What the documents say and the code does not do *)

\* README.md:158, "pause all background transfers and sync": once a pause is
\* answered no pass transfers anything.
PauseStopsTransfers ==
  held => \A t \in Tasks : ~At(t, "pass") /\ ~At(t, "upload")

\* transfer.rs:31, "the number of minutes from `now` until transfers become
\* allowed": after the wait the schedule admits transfers.
WaitEndsInWindow ==
  \A c \in Probes \ {NoSchedule} :
    OpenAfter(c, now.day, now.minute,
              MinutesUntilNextWindow(c, now.day, now.minute))
=============================================================================
