------------------------------- MODULE DaemonLife -------------------------------
(***************************************************************************)
(* The life of the daemon's processes (crates/protond/src/main.rs and      *)
(* watcher.rs): the instance lock, the socket, shutdown, the watcher and   *)
(* the loop that runs background passes; and the GUIs that look for a      *)
(* daemon and start one (crates/proton-gui/src/main.rs).                   *)
(*                                                                         *)
(* Any number of daemons may be started, by the service manager, by hand   *)
(* or by a GUI; any may die at any point, as it also does on SIGTERM.  The *)
(* kernel frees a dead process's lock and leaves its socket file behind.   *)
(* A process is never started twice: another start is another process.     *)
(***************************************************************************)
EXTENDS Naturals

CONSTANTS
  Procs,     \* bound: processes of the daemon ever started, by number
  Guis,
  None,
  Capacity,  \* of the channel of triggers
  Attempts,  \* polls of check_auth after it started a daemon
  MaxChecks  \* bound: times a GUI is opened

ASSUME ProcsAssumption == Procs \subseteq Nat /\ None \notin Procs
ASSUME BoundsAssumption == Capacity \in Nat \ {0} /\ Attempts \in Nat /\ MaxChecks \in Nat

VARIABLES
  proc,      \* where each process is
  lock,      \* holder of protond.lock
  sock,      \* the process that bound the socket file, if there is one
  gui,       \* where each GUI is, and the process it started
  checks,    \* times a GUI was opened
  trig,      \* what triggers passes in each process
  deleting,  \* processes with a drive.delete that holds the api lock
  allowed,   \* trigger_sync is let through: TransferGate, a session, a password
  unseen     \* the directory has changed since a pass last looked at it

processes == <<proc, lock, sock>>
starters == <<gui, checks>>
vars == <<processes, starters, trig, deleting, allowed, unseen>>

-----------------------------------------------------------------------------
ProcStates == {"none", "started", "locked", "clean", "bound", "serving",
               "closing", "closed", "left", "dead"}
GuiStates == {"shut", "check", "connect", "launch", "wait", "poll", "in", "failed"}

\* events: inotify has events the watcher has not read.  watcher: its thread, idle
\* or blocked in blocking_send.  queued: triggers in the channel.  loop: background_loop,
\* and where trigger_sync has got to: to the api lock, into a pass, past the pass's
\* look at the directory.
Triggers == [events : BOOLEAN, watcher : {"idle", "blocked"}, queued : 0..Capacity,
             loop : {"off", "select", "api", "pass", "looked", "ended"}]

Asleep == [events |-> FALSE, watcher |-> "idle", queued |-> 0, loop |-> "off"]
Awake == [events |-> FALSE, watcher |-> "idle", queued |-> 0, loop |-> "select"]

Listening(p) == proc[p] \in {"bound", "serving"}
Alive(p) == proc[p] \notin {"none", "dead"}
Running == {p \in Procs : proc[p] \in {"serving", "closing", "closed"}}
Loops(p) == trig[p].loop \notin {"off", "ended"}

\* Connecting works as soon as the socket is bound.  An answer takes a process
\* that serves, and auth.status takes the api lock.
Connects == sock # None /\ Listening(sock)
Answers == sock # None /\ proc[sock] = "serving" /\ sock \notin deleting

Init ==
  /\ proc = [p \in Procs |-> "none"]
  /\ lock = None
  /\ sock = None
  /\ gui = [g \in Guis |-> [at |-> "shut", child |-> None, polls |-> 0]]
  /\ checks = 0
  /\ trig = [p \in Procs |-> Asleep]
  /\ deleting = {}
  /\ allowed = TRUE
  /\ unseen = FALSE

-----------------------------------------------------------------------------
(* A process of the daemon *)

Step(p, from, to) == proc[p] = from /\ proc' = [proc EXCEPT ![p] = to]

\* Processes are numbered as they are started.
Start(p) ==
  /\ \A q \in Procs : proc[q] = "none" => p <= q
  /\ Step(p, "none", "started")

Launch(p) ==
  /\ Start(p)
  /\ UNCHANGED <<lock, sock, starters, trig, deleting, allowed, unseen>>

\* (mistake: flock's answer is not looked at)
TakeLock_Anyway(p) ==
  /\ Step(p, "started", "locked")
  /\ lock' = p
  /\ UNCHANGED <<sock, starters, trig, deleting, allowed, unseen>>

\* acquire_instance_lock; whoever finds it held exits with an error.
TakeLock(p) ==
  /\ IF lock = None THEN Step(p, "started", "locked") /\ lock' = p
                    ELSE Step(p, "started", "dead") /\ UNCHANGED lock
  /\ UNCHANGED <<sock, starters, trig, deleting, allowed, unseen>>

RemoveStale(p) ==
  /\ Step(p, "locked", "clean")
  /\ sock' = None
  /\ UNCHANGED <<lock, starters, trig, deleting, allowed, unseen>>

Bind(p) ==
  /\ sock = None
  /\ Step(p, "clean", "bound")
  /\ sock' = p
  /\ UNCHANGED <<lock, starters, trig, deleting, allowed, unseen>>

\* The database is open, the watcher set up, the loops spawned.  The first
\* tick of the timer is skipped: nothing looks at the directory yet.
Serve(p) ==
  /\ Step(p, "bound", "serving")
  /\ trig' = [trig EXCEPT ![p] = Awake]
  /\ UNCHANGED <<lock, sock, starters, deleting, allowed, unseen>>

\* (mistake: the lock is dropped as soon as the shutdown begins)
Interrupt_Unlocked(p) ==
  /\ Step(p, "serving", "closing")
  /\ lock' = None
  /\ UNCHANGED <<sock, starters, trig, deleting, allowed, unseen>>

\* SIGINT: cancel, then the accept loop is awaited; the other loops are not.
Interrupt(p) ==
  /\ Step(p, "serving", "closing")
  /\ UNCHANGED <<lock, sock, starters, trig, deleting, allowed, unseen>>

RemoveSocket(p) ==
  /\ Step(p, "closing", "closed")
  /\ sock' = None
  /\ UNCHANGED <<lock, starters, trig, deleting, allowed, unseen>>

\* The end of main drops the lock with main's other locals, before the runtime
\* stops the tasks: a pass goes on from one await to the next, and what it does on
\* the way shows nowhere else.
Leave(p) ==
  /\ Step(p, "closed", "left")
  /\ lock' = None
  /\ \E loop \in {"ended"} \cup ({trig[p].loop} \cap {"pass", "looked"}) :
       trig' = [trig EXCEPT ![p] = [Asleep EXCEPT !.loop = loop]]
  /\ deleting' = deleting \ {p}
  /\ UNCHANGED <<sock, starters, allowed, unseen>>

\* A process that is gone has no threads, and no lock if it still held it.
Gone(p) ==
  /\ proc' = [proc EXCEPT ![p] = "dead"]
  /\ lock' = IF lock = p THEN None ELSE lock
  /\ trig' = [trig EXCEPT ![p] = Asleep]
  /\ deleting' = deleting \ {p}
  /\ UNCHANGED <<sock, starters, allowed, unseen>>

\* The runtime has stopped the tasks; or an error on the way to "serving", a crash
\* or SIGTERM.
Exit(p) == proc[p] = "left" /\ Gone(p)
Die(p) == Alive(p) /\ Gone(p)

\* delete_link is awaited with the api lock held, and may never be answered.
StartDelete(p) ==
  /\ proc[p] = "serving" /\ p \notin deleting
  /\ deleting' = deleting \cup {p}
  /\ UNCHANGED <<processes, starters, trig, allowed, unseen>>

EndDelete(p) ==
  /\ p \in deleting
  /\ deleting' = deleting \ {p}
  /\ UNCHANGED <<processes, starters, trig, allowed, unseen>>

-----------------------------------------------------------------------------
(* Changes of the directory, and passes *)

Change ==
  /\ unseen' = TRUE
  /\ trig' = [p \in Procs |->
                [trig[p] EXCEPT !.events = @ \/ p \in Running]]
  /\ UNCHANGED <<processes, starters, deleting, allowed>>

\* The callback: an event within the debounce interval is dropped, and any may be,
\* for one interval begins at the start and one at each trigger.  A full channel
\* blocks the thread, a closed one is ignored.
ReadEvent(p) ==
  /\ trig[p].events /\ trig[p].watcher = "idle"
  /\ LET read == [trig[p] EXCEPT !.events = FALSE]
         sent == IF trig[p].loop = "ended" THEN read
                 ELSE IF trig[p].queued < Capacity THEN [read EXCEPT !.queued = @ + 1]
                 ELSE [read EXCEPT !.watcher = "blocked"]
     IN  \E new \in {read, sent} : trig' = [trig EXCEPT ![p] = new]
  /\ UNCHANGED <<processes, starters, deleting, allowed, unseen>>

\* (mistake: the channel takes a trigger too many)
Unblock_Full(p) ==
  /\ trig[p].watcher = "blocked"
  /\ trig' = [trig EXCEPT ![p].watcher = "idle",
                          ![p].queued = IF trig[p].loop = "ended" THEN @ ELSE @ + 1]
  /\ UNCHANGED <<processes, starters, deleting, allowed, unseen>>

Unblock(p) ==
  /\ trig[p].watcher = "blocked"
  /\ trig[p].queued < Capacity \/ trig[p].loop = "ended"
  /\ trig' = [trig EXCEPT ![p].watcher = "idle",
                          ![p].queued = IF trig[p].loop = "ended" THEN @ ELSE @ + 1]
  /\ UNCHANGED <<processes, starters, deleting, allowed, unseen>>

LoopStep(p, from, to) ==
  /\ p \in Running
  /\ trig[p].loop = from
  /\ trig' = [trig EXCEPT ![p].loop = to]
  /\ UNCHANGED <<processes, starters, deleting, allowed>>

\* (mistake: the timer refreshes the token only)
Tick_NoSync(p) ==
  /\ trig[p].loop = "select"
  /\ UNCHANGED vars

\* The timer: trigger_sync asks the gate first, which alone may refuse.
Tick(p) ==
  /\ LoopStep(p, "select", "api") \/ (LoopStep(p, "select", "select") /\ ~allowed)
  /\ UNCHANGED unseen

\* (mistake: triggers are left in the channel while they would be refused)
Receive_Allowed(p) ==
  /\ trig[p].loop = "select" /\ trig[p].queued > 0 /\ allowed
  /\ trig' = [trig EXCEPT ![p].queued = @ - 1, ![p].loop = "api"]
  /\ UNCHANGED <<processes, starters, deleting, allowed, unseen>>

Receive(p) ==
  /\ trig[p].loop = "select" /\ trig[p].queued > 0
  /\ \E to \in {"api", "select"} :
       /\ to = "select" => ~allowed
       /\ trig' = [trig EXCEPT ![p].queued = @ - 1, ![p].loop = to]
  /\ UNCHANGED <<processes, starters, deleting, allowed, unseen>>

\* The api lock, for the session; then the password.
TakeSession(p) ==
  /\ p \notin deleting
  /\ LoopStep(p, "api", "pass") \/ (LoopStep(p, "api", "select") /\ ~allowed)
  /\ UNCHANGED unseen

\* The walk of the directory begins, one that succeeds: a change it runs past
\* counts as one after it.
Look(p) ==
  /\ LoopStep(p, "pass", "looked")
  /\ unseen' = FALSE

\* The keyring, the walk of the remote tree or that of the directory fails.
FailPass(p) ==
  /\ LoopStep(p, "pass", "select")
  /\ UNCHANGED unseen

EndPass(p) ==
  /\ LoopStep(p, "looked", "select")
  /\ UNCHANGED unseen

\* The loop sees the cancellation, between passes only, and drops the channel.
EndLoop(p) ==
  /\ trig[p].loop = "select" /\ proc[p] \in {"closing", "closed"}
  /\ trig' = [trig EXCEPT ![p].loop = "ended", ![p].queued = 0]
  /\ UNCHANGED <<processes, starters, deleting, allowed, unseen>>

Allow ==
  /\ allowed' = ~allowed
  /\ UNCHANGED <<processes, starters, trig, deleting, unseen>>

-----------------------------------------------------------------------------
(* A GUI looking for a daemon *)

GuiStep(g, from, to) ==
  gui[g].at = from /\ gui' = [gui EXCEPT ![g].at = to]

Open(g) ==
  /\ checks < MaxChecks /\ checks' = checks + 1
  /\ gui[g].at \in {"shut", "in", "failed"}
  /\ gui' = [gui EXCEPT ![g] = [at |-> "check", child |-> None, polls |-> 0]]
  /\ UNCHANGED <<processes, trig, deleting, allowed, unseen>>

\* check_auth's first request.
Check(g) ==
  /\ \/ Answers /\ GuiStep(g, "check", "in")
     \/ ~Connects /\ GuiStep(g, "check", "connect")
  /\ UNCHANGED <<processes, checks, trig, deleting, allowed, unseen>>

\* spawn_daemon: connect once more ...
Connect(g) ==
  /\ \/ Connects /\ GuiStep(g, "connect", "poll")
     \/ ~Connects /\ GuiStep(g, "connect", "launch")
  /\ UNCHANGED <<processes, checks, trig, deleting, allowed, unseen>>

\* ... remove what is taken for a stale socket, and start the first
\* candidate; without one there is only the polling left.
Unlink(g) ==
  /\ gui[g].at = "launch" /\ gui[g].child = None
  /\ sock' = None
  /\ \/ \E p \in Procs :
          /\ Start(p)
          /\ gui' = [gui EXCEPT ![g].at = "wait", ![g].child = p]
     \/ gui' = [gui EXCEPT ![g].at = "poll"] /\ UNCHANGED proc
  /\ UNCHANGED <<lock, checks, trig, deleting, allowed, unseen>>

\* One that exited within 300 ms makes way for the next candidate.
Wait(g) ==
  /\ gui[g].at = "wait"
  /\ IF proc[gui[g].child] = "dead"
     THEN \/ \E p \in Procs :
               /\ Start(p)
               /\ gui' = [gui EXCEPT ![g].child = p]
          \/ gui' = [gui EXCEPT ![g].at = "poll"] /\ UNCHANGED proc
     ELSE gui' = [gui EXCEPT ![g].at = "poll"] /\ UNCHANGED proc
  /\ UNCHANGED <<lock, sock, checks, trig, deleting, allowed, unseen>>

\* (mistake: polls go on until there is an answer)
Poll_Forever(g) ==
  /\ \/ Answers /\ GuiStep(g, "poll", "in")
     \/ ~Connects /\ GuiStep(g, "poll", "poll")
  /\ UNCHANGED <<processes, checks, trig, deleting, allowed, unseen>>

Poll(g) ==
  /\ \/ Answers /\ GuiStep(g, "poll", "in")
     \/ /\ ~Connects
        /\ IF gui[g].polls + 1 < Attempts
           THEN gui' = [gui EXCEPT ![g].polls = gui[g].polls + 1] /\ gui[g].at = "poll"
           ELSE GuiStep(g, "poll", "failed")
  /\ UNCHANGED <<processes, checks, trig, deleting, allowed, unseen>>

-----------------------------------------------------------------------------
Next ==
  \/ \E p \in Procs :
       \/ Launch(p) \/ TakeLock(p) \/ RemoveStale(p) \/ Bind(p) \/ Serve(p)
       \/ Interrupt(p) \/ RemoveSocket(p) \/ Leave(p) \/ Exit(p) \/ Die(p)
       \/ StartDelete(p) \/ EndDelete(p)
       \/ ReadEvent(p) \/ Unblock(p)
       \/ Tick(p) \/ Receive(p) \/ TakeSession(p)
       \/ Look(p) \/ FailPass(p) \/ EndPass(p) \/ EndLoop(p)
  \/ Change \/ Allow
  \/ \E g \in Guis :
       Open(g) \/ Check(g) \/ Connect(g) \/ Unlink(g) \/ Wait(g) \/ Poll(g)

Spec == Init /\ [][Next]_vars

\* A process goes on starting, or stopping, until it dies.  select! picks at random
\* among the branches that are ready, so the timer and the channel both get their
\* turn each time the loop is back, and tokio's mutex is given to whoever waits
\* longest.  Nobody has to start or stop a daemon or to let transfers through; and
\* no request has a timeout, so no pass and no drive.delete has to end.
Fairness ==
  /\ \A p \in Procs :
       /\ WF_vars(TakeLock(p) \/ RemoveStale(p) \/ Bind(p) \/ Serve(p)
                  \/ RemoveSocket(p) \/ Leave(p) \/ Exit(p))
       /\ WF_vars(ReadEvent(p)) /\ WF_vars(Unblock(p))
  /\ SF_vars(\E p \in Procs : Tick(p))
  /\ SF_vars(\E p \in Procs : Receive(p))
  /\ \A g \in Guis : SF_vars(Check(g) \/ Connect(g) \/ Unlink(g) \/ Wait(g) \/ Poll(g))

FairSpec == Spec /\ Fairness

-----------------------------------------------------------------------------
(* Properties *)

\* Types of processes, starters and triggers.
TypeOK ==
  /\ proc \in [Procs -> ProcStates]
  /\ lock \in Procs \cup {None}
  /\ sock \in Procs \cup {None}
  /\ gui \in [Guis -> [at : GuiStates, child : Procs \cup {None}, polls : 0..Attempts]]
  /\ checks \in 0..MaxChecks
  /\ trig \in [Procs -> Triggers]
  /\ deleting \in SUBSET Procs
  /\ allowed \in BOOLEAN
  /\ unseen \in BOOLEAN

\* No daemon, starting or stopping, takes away the socket of one that is
\* listening: the lock is held around the removal and the bind, and until
\* after the removal at the end (protond/src/main.rs:46-62, 146-153).
DaemonsSpareSockets ==
  [][\A p \in Procs :
       sock = p /\ Listening(p) /\ sock' # p
         => \E g \in Guis : gui[g].at = "launch" /\ gui'[g].at # "launch"]_vars

\* Background passes come from one process at a time: while a process has a loop
\* that may run one, no other listens, not even after the first has removed its
\* socket.  What is left of a loop once main has returned is the exception: the lock
\* goes before the runtime does (main.rs:32-64, 144-154).
OneLoop ==
  \A p, q \in Procs : p # q /\ Loops(p) /\ Listening(q) => proc[p] = "left"

\* A change of the directory is looked at by a later pass, whatever was dropped in
\* the debounce interval, where a daemon goes on serving, transfers are let through,
\* and its passes neither fail before they look nor hang, in a request or for the
\* api lock (main.rs:191-212, watcher.rs:25-29).
ChangesAreSeen ==
  \A p \in Procs :
    /\ <>[](allowed /\ proc[p] = "serving")
    /\ <>[][~FailPass(p)]_vars
    /\ []<>(trig[p].loop = "select")
    => []<>(~unseen)

\* A watcher blocked on a full channel gets on where the passes of its process do
\* not hang: the loop takes a trigger, one that is refused too, or drops the channel
\* (main.rs:201-209, watcher.rs:28).
WatcherGetsOn ==
  \A p \in Procs :
    []<>(trig[p].loop \notin {"api", "pass", "looked"})
    => []<>(trig[p].watcher = "idle")

\* A GUI stops looking: it is in, or has given up, where no drive.delete keeps the
\* api lock for ever (proton-gui/src/main.rs:887-919, handler.rs:295, 1202).
GuisDecide ==
  (\A p \in Procs : []<>(p \notin deleting))
  => \A g \in Guis : []<>(gui[g].at \in {"shut", "in", "failed"})

\* proton-gui/src/main.rs:948, "No daemon is listening. Any existing socket
\* file is stale": a GUI removes no socket on which a daemon listens.
RemovedSocketIsStale ==
  [][\A g \in Guis :
       gui[g].at = "launch" /\ gui'[g].at # "launch" => ~Connects]_vars
=============================================================================
