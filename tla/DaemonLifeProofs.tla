--------------------------- MODULE DaemonLifeProofs ---------------------------
(***************************************************************************)
(* Proofs about DaemonLife, for any number of processes and GUIs, any      *)
(* capacity of the channel and any number of polls: its types; that loops  *)
(* run one at a time; that a daemon never takes away the socket of another *)
(* that listens.  The last two rest on one fact, that whoever has got past *)
(* the lock holds it until main returns or the process is gone.            *)
(***************************************************************************)
EXTENDS DaemonLife, TLAPS

GuiSide == [at : GuiStates, child : Procs \cup {None}, polls : 0..Attempts]

ProcessesOK ==
  /\ proc \in [Procs -> ProcStates]
  /\ lock \in Procs \cup {None}
  /\ sock \in Procs \cup {None}

StartersOK ==
  /\ gui \in [Guis -> GuiSide]
  /\ checks \in 0..MaxChecks

TriggersOK == trig \in [Procs -> Triggers]

RestOK == deleting \in SUBSET Procs /\ allowed \in BOOLEAN /\ unseen \in BOOLEAN

-----------------------------------------------------------------------------
(* Types *)

LEMMA TypeParts ==
  /\ TypeOK <=> ProcessesOK /\ StartersOK /\ TriggersOK /\ RestOK
  /\ TypeOK' <=> ProcessesOK' /\ StartersOK' /\ TriggersOK' /\ RestOK'
  BY DEF TypeOK, ProcessesOK, StartersOK, TriggersOK, RestOK, GuiSide

LEMMA AsleepTyped == Asleep \in Triggers /\ Awake \in Triggers
  BY BoundsAssumption DEF Asleep, Awake, Triggers

LEMMA InitType == Init => TypeOK
<1> SUFFICES ASSUME Init PROVE TypeOK
  OBVIOUS
<1>1. ProcessesOK
  BY DEF Init, ProcessesOK, ProcStates
<1>2. StartersOK
  BY BoundsAssumption DEF Init, StartersOK, GuiSide, GuiStates
<1>3. TriggersOK /\ RestOK
  BY AsleepTyped DEF Init, TriggersOK, RestOK
<1> QED BY <1>1, <1>2, <1>3, TypeParts

LEMMA GoneType ==
  ASSUME ProcessesOK, TriggersOK, RestOK, NEW p \in Procs, Gone(p)
  PROVE  ProcessesOK' /\ TriggersOK' /\ RestOK'
  BY AsleepTyped DEF Gone, ProcessesOK, TriggersOK, RestOK, ProcStates

LEMMA LeaveType ==
  ASSUME ProcessesOK, TriggersOK, RestOK, NEW p \in Procs, Leave(p)
  PROVE  ProcessesOK' /\ TriggersOK' /\ RestOK'
<1>1. PICK loop \in {"ended"} \cup ({trig[p].loop} \cap {"pass", "looked"}) :
        trig' = [trig EXCEPT ![p] = [Asleep EXCEPT !.loop = loop]]
  BY Zenon DEF Leave
<1>2. loop \in {"ended", "pass", "looked"}
  BY <1>1
<1>3. [Asleep EXCEPT !.loop = loop] \in Triggers
  BY <1>2, AsleepTyped DEF Triggers
<1>4. TriggersOK'
  BY <1>1, <1>3 DEF TriggersOK
<1> QED BY <1>4 DEF Leave, Step, ProcessesOK, RestOK, ProcStates

\* The steps of a process.
LEMMA ProcType ==
  ASSUME TypeOK, NEW p \in Procs,
         \/ Launch(p) \/ TakeLock(p) \/ RemoveStale(p) \/ Bind(p) \/ Serve(p)
         \/ Interrupt(p) \/ RemoveSocket(p) \/ Leave(p) \/ Exit(p) \/ Die(p)
         \/ StartDelete(p) \/ EndDelete(p)
  PROVE  TypeOK'
<1> USE TypeParts
<1>1. CASE \/ Launch(p) \/ TakeLock(p) \/ RemoveStale(p) \/ Bind(p)
           \/ Interrupt(p) \/ RemoveSocket(p)
  BY <1>1 DEF Launch, Start, TakeLock, RemoveStale, Bind, Interrupt, RemoveSocket, Step,
     ProcessesOK, StartersOK, TriggersOK, RestOK, ProcStates, starters
<1>2. CASE Serve(p)
  BY <1>2, AsleepTyped
  DEF Serve, Step, ProcessesOK, StartersOK, TriggersOK, RestOK, ProcStates, starters
<1>3. CASE Exit(p) \/ Die(p)
  <2>1. ProcessesOK' /\ TriggersOK' /\ RestOK'
    BY <1>3, GoneType DEF Exit, Die
  <2> QED BY <1>3, <2>1 DEF Exit, Die, Gone, StartersOK, starters
<1>4. CASE Leave(p)
  BY <1>4, LeaveType DEF Leave, StartersOK, starters
<1>5. CASE StartDelete(p) \/ EndDelete(p)
  BY <1>5 DEF StartDelete, EndDelete, ProcessesOK, StartersOK, TriggersOK, RestOK,
     processes, starters
<1> QED BY <1>1, <1>2, <1>3, <1>4, <1>5

\* A step that changes the triggers of one process.
LEMMA TriggerKeeps ==
  ASSUME TypeOK, NEW p \in Procs, NEW new \in Triggers,
         trig' = [trig EXCEPT ![p] = new]
  PROVE  TriggersOK'
  BY DEF TypeOK, TriggersOK

\* The steps of the watcher.
LEMMA WatcherType ==
  ASSUME TypeOK, NEW p \in Procs, ReadEvent(p) \/ Unblock(p)
  PROVE  TriggersOK'
<1>1. /\ trig[p] \in Triggers /\ trig[p].queued \in 0..Capacity
      /\ Capacity \in Nat
  BY BoundsAssumption DEF TypeOK, Triggers
<1>2. CASE ReadEvent(p)
  <2> DEFINE read == [trig[p] EXCEPT !.events = FALSE]
             more == read.queued + 1
             one == [read EXCEPT !.queued = more]
             held == [read EXCEPT !.watcher = "blocked"]
  <2>1. read \in Triggers /\ held \in Triggers
    BY <1>1 DEF Triggers
  <2>2. ASSUME trig[p].queued < Capacity
        PROVE  one \in Triggers
    <3>1. read.queued = trig[p].queued
      BY <1>1 DEF Triggers
    <3> HIDE DEF read
    <3>2. more \in 0..Capacity
      BY <1>1, <2>2, <3>1
    <3> HIDE DEF more
    <3> QED BY <2>1, <3>2 DEF Triggers
  <2> DEFINE sent == IF trig[p].loop = "ended" THEN read
                     ELSE IF trig[p].queued < Capacity THEN one ELSE held
  <2>3. PICK new \in {read, sent} : trig' = [trig EXCEPT ![p] = new]
    BY <1>2, Zenon DEF ReadEvent
  <2> HIDE DEF read, one, held
  <2>4. new \in Triggers
    BY <2>1, <2>2, <2>3
  <2> QED BY <2>3, <2>4, TriggerKeeps
<1>3. CASE Unblock(p)
  <2> DEFINE full == IF trig[p].loop = "ended" THEN trig[p].queued ELSE trig[p].queued + 1
             new == [trig[p] EXCEPT !.watcher = "idle", !.queued = full]
  <2>1. full \in 0..Capacity
    BY <1>1, <1>3 DEF Unblock, TypeOK, Triggers
  <2>2. trig' = [trig EXCEPT ![p] = new]
    BY <1>3 DEF Unblock
  <2> HIDE DEF full
  <2>3. new \in Triggers
    BY <1>1, <2>1 DEF Triggers
  <2> HIDE DEF new
  <2> QED BY <2>2, <2>3, TriggerKeeps
<1> QED BY <1>2, <1>3

\* The steps of the loop.
LEMMA LoopType ==
  ASSUME TypeOK, NEW p \in Procs,
         \/ Tick(p) \/ Receive(p) \/ TakeSession(p)
         \/ Look(p) \/ FailPass(p) \/ EndPass(p) \/ EndLoop(p)
  PROVE  TriggersOK'
<1> DEFINE Places == {"select", "api", "pass", "looked"}
<1>1. /\ trig[p] \in Triggers /\ trig[p].queued \in 0..Capacity
      /\ Capacity \in Nat
  BY BoundsAssumption DEF TypeOK, Triggers
<1>2. ASSUME NEW from, NEW to \in Places, LoopStep(p, from, to)
      PROVE  TriggersOK'
  <2>1. [trig[p] EXCEPT !.loop = to] \in Triggers
    BY <1>1 DEF Triggers
  <2>2. trig' = [trig EXCEPT ![p] = [trig[p] EXCEPT !.loop = to]]
    BY <1>2 DEF LoopStep
  <2> QED BY <2>1, <2>2, TriggerKeeps
<1>3. CASE Receive(p)
  <2>1. PICK to \in {"api", "select"} :
          trig' = [trig EXCEPT ![p].queued = @ - 1, ![p].loop = to]
    BY <1>3 DEF Receive
  <2> DEFINE left == trig[p].queued - 1
             new == [trig[p] EXCEPT !.queued = left, !.loop = to]
  <2>3. trig' = [trig EXCEPT ![p] = new]
    BY <2>1
  <2>4. left \in 0..Capacity
    BY <1>1, <1>3 DEF Receive
  <2> HIDE DEF left
  <2>2. new \in Triggers
    BY <1>1, <2>4 DEF Triggers
  <2> HIDE DEF new
  <2> QED BY <2>2, <2>3, TriggerKeeps
<1>4. CASE EndLoop(p)
  <2> DEFINE new == [trig[p] EXCEPT !.loop = "ended", !.queued = 0]
  <2>3. 0 \in 0..Capacity
    BY <1>1
  <2>1. new \in Triggers
    BY <1>1, <2>3 DEF Triggers
  <2>2. trig' = [trig EXCEPT ![p] = new]
    BY <1>4 DEF EndLoop
  <2> HIDE DEF new
  <2> QED BY <2>1, <2>2, TriggerKeeps
<1> QED BY <1>2, <1>3, <1>4 DEF Tick, TakeSession, Look, FailPass, EndPass

\* The steps of the watcher and the loop, and those of the user.
LEMMA TriggerType ==
  ASSUME TypeOK,
         \/ \E p \in Procs : \/ ReadEvent(p) \/ Unblock(p)
                            \/ Tick(p) \/ Receive(p) \/ TakeSession(p)
                            \/ Look(p) \/ FailPass(p) \/ EndPass(p) \/ EndLoop(p)
         \/ Change \/ Allow
  PROVE  TypeOK'
<1> USE TypeParts DEF ProcessesOK, StartersOK, RestOK, processes, starters
<1>1. ASSUME NEW p \in Procs, ReadEvent(p) \/ Unblock(p)
      PROVE  TypeOK'
  <2>1. TriggersOK'
    BY <1>1, WatcherType
  <2> QED BY <1>1, <2>1 DEF ReadEvent, Unblock
<1>2. ASSUME NEW p \in Procs,
             \/ Tick(p) \/ Receive(p) \/ TakeSession(p)
             \/ Look(p) \/ FailPass(p) \/ EndPass(p) \/ EndLoop(p)
      PROVE  TypeOK'
  <2>1. TriggersOK'
    BY <1>2, LoopType
  <2>2. /\ UNCHANGED <<processes, starters, deleting, allowed>>
        /\ unseen' = unseen \/ unseen' = FALSE
    BY <1>2 DEF Tick, Receive, TakeSession, Look, FailPass, EndPass, EndLoop, LoopStep
  <2> QED BY <2>1, <2>2
<1>3. CASE Change
  <2>1. \A p \in Procs :
          [trig[p] EXCEPT !.events = @ \/ p \in Running] \in Triggers
    <3> SUFFICES ASSUME NEW p \in Procs
                 PROVE  [trig[p] EXCEPT !.events = @ \/ p \in Running] \in Triggers
      OBVIOUS
    <3>1. trig[p] \in Triggers
      BY DEF TypeOK
    <3>2. (trig[p].events \/ p \in Running) \in BOOLEAN
      OBVIOUS
    <3> QED BY <3>1, <3>2 DEF Triggers
  <2>2. TriggersOK'
    BY <1>3, <2>1 DEF Change, TriggersOK
  <2> QED BY <1>3, <2>2 DEF Change
<1>4. CASE Allow
  BY <1>4 DEF Allow, TriggersOK
<1> QED BY <1>1, <1>2, <1>3, <1>4

\* The steps of a GUI.
LEMMA GuiType ==
  ASSUME TypeOK, NEW g \in Guis,
         Open(g) \/ Check(g) \/ Connect(g) \/ Unlink(g) \/ Wait(g) \/ Poll(g)
  PROVE  TypeOK'
<1> USE TypeParts DEF ProcessesOK, StartersOK, TriggersOK, RestOK,
        processes, starters, GuiSide, GuiStates
<1>1. CASE Open(g)
  BY <1>1, BoundsAssumption DEF Open
<1>2. CASE Check(g) \/ Connect(g)
  BY <1>2 DEF Check, Connect, GuiStep
<1>3. CASE Unlink(g)
  <2>1. /\ sock' = None
        /\ UNCHANGED <<lock, checks, trig, deleting, allowed, unseen>>
    BY <1>3 DEF Unlink
  <2>2. CASE \E p \in Procs : Start(p) /\ gui' = [gui EXCEPT ![g].at = "wait", ![g].child = p]
    <3>1. PICK p \in Procs :
            Start(p) /\ gui' = [gui EXCEPT ![g].at = "wait", ![g].child = p]
      BY <2>2
    <3>2. proc' \in [Procs -> ProcStates]
      BY <3>1 DEF Start, Step, ProcStates
    <3>3. gui' \in [Guis -> GuiSide]
      BY <3>1
    <3> QED BY <2>1, <3>2, <3>3
  <2>3. CASE gui' = [gui EXCEPT ![g].at = "poll"] /\ UNCHANGED proc
    BY <2>1, <2>3
  <2> QED BY <1>3, <2>2, <2>3 DEF Unlink
<1>4. CASE Wait(g)
  BY <1>4 DEF Wait, Start, Step, ProcStates
<1>5. CASE Poll(g)
  BY <1>5, BoundsAssumption DEF Poll, GuiStep
<1> QED BY <1>1, <1>2, <1>3, <1>4, <1>5

LEMMA StutterType == TypeOK /\ UNCHANGED vars => TypeOK'
  BY DEF TypeOK, vars, processes, starters

\* Every variable keeps to its type; in particular the channel never holds
\* more triggers than it has room for, and a GUI never polls too often.
THEOREM TypeCorrect == Spec => []TypeOK
<1>1. TypeOK /\ [Next]_vars => TypeOK'
  BY ProcType, TriggerType, GuiType, StutterType DEF Next
<1> QED BY InitType, <1>1, PTL DEF Spec

-----------------------------------------------------------------------------
(* The lock *)

\* Past acquire_instance_lock, and main has not returned.
Holding == {"locked", "clean", "bound", "serving", "closing", "closed"}

\* Whoever is past the lock holds it, whatever others do meanwhile; also on
\* the way out, where the socket is removed and a pass may still run.
LockHeld == \A p \in Procs : proc[p] \in Holding => lock = p

LEMMA OneHolder ==
  ASSUME LockHeld, NEW p \in Procs, NEW q \in Procs,
         proc[p] \in Holding, proc[q] \in Holding
  PROVE  p = q
  BY DEF LockHeld

LEMMA InitHeld == Init => LockHeld
  BY DEF Init, LockHeld, Holding

\* A process that goes from one place to another as the holder it was or was
\* not before; and no lock changes hands.
LEMMA StepHeld ==
  ASSUME TypeOK, LockHeld, NEW p \in Procs, NEW from, NEW to, Step(p, from, to),
         lock' = lock, to \in Holding => from \in Holding
  PROVE  LockHeld'
  BY DEF TypeOK, LockHeld, Step

LEMMA GoneHeld ==
  ASSUME TypeOK, LockHeld, NEW p \in Procs, Gone(p)
  PROVE  LockHeld'
  BY DEF TypeOK, LockHeld, Gone, Holding

LEMMA LeaveHeld ==
  ASSUME TypeOK, LockHeld, NEW p \in Procs, Leave(p)
  PROVE  LockHeld'
<1>1. \A q \in Procs : proc[q] \in Holding => q = p
  BY OneHolder DEF Leave, Step, Holding
<1> QED BY <1>1 DEF TypeOK, LockHeld, Leave, Step, Holding

LEMMA TakeLockHeld ==
  ASSUME TypeOK, LockHeld, NEW p \in Procs, TakeLock(p)
  PROVE  LockHeld'
<1>1. CASE lock = None
  <2>1. \A q \in Procs : proc[q] \notin Holding
    BY <1>1, ProcsAssumption DEF LockHeld
  <2> QED BY <1>1, <2>1 DEF TakeLock, Step, TypeOK, LockHeld
<1>2. CASE lock # None
  BY <1>2 DEF TakeLock, Step, TypeOK, LockHeld, Holding
<1> QED BY <1>1, <1>2

LEMMA NextHeld ==
  ASSUME TypeOK, LockHeld, [Next]_vars
  PROVE  LockHeld'
<1>1. ASSUME NEW p \in Procs, TakeLock(p)
      PROVE  LockHeld'
  BY <1>1, TakeLockHeld
<1>2. ASSUME NEW p \in Procs,
             \/ Launch(p) \/ RemoveStale(p) \/ Bind(p) \/ Serve(p)
             \/ Interrupt(p) \/ RemoveSocket(p)
      PROVE  LockHeld'
  BY <1>2, StepHeld
  DEF Launch, Start, RemoveStale, Bind, Serve, Interrupt, RemoveSocket, Holding
<1>3. ASSUME NEW p \in Procs, Exit(p) \/ Die(p)
      PROVE  LockHeld'
  BY <1>3, GoneHeld DEF Exit, Die
<1>8. ASSUME NEW p \in Procs, Leave(p)
      PROVE  LockHeld'
  BY <1>8, LeaveHeld
<1>4. ASSUME NEW g \in Guis, Unlink(g) \/ Wait(g)
      PROVE  LockHeld'
  BY <1>4, StepHeld DEF Unlink, Wait, Start, Holding, LockHeld
<1>5. ASSUME UNCHANGED processes
      PROVE  LockHeld'
  BY <1>5 DEF processes, LockHeld
<1>6. CASE Next
  BY <1>6, <1>1, <1>2, <1>3, <1>4, <1>5, <1>8
  DEF Next, StartDelete, EndDelete, Change, ReadEvent, Unblock, Tick, Receive, TakeSession,
      Look, FailPass, EndPass, EndLoop, LoopStep, Allow, Open, Check, Connect, Poll
<1>7. CASE UNCHANGED vars
  BY <1>5, <1>7 DEF vars
<1> QED BY <1>6, <1>7

LEMMA AlwaysHeld == Spec => []LockHeld
<1>1. TypeOK /\ LockHeld /\ [Next]_vars => LockHeld'
  BY NextHeld
<1> QED BY InitHeld, <1>1, TypeCorrect, PTL DEF Spec

\* A loop that may run a pass is in a process that serves or stops.
LoopsRun ==
  \A p \in Procs : Loops(p) => proc[p] \in {"serving", "closing", "closed", "left"}

LEMMA InitRun == Init => LoopsRun
  BY DEF Init, LoopsRun, Loops, Asleep

\* The watcher leaves the loop where it is.
LEMMA WatcherLoop ==
  ASSUME TypeOK, NEW p \in Procs, ReadEvent(p) \/ Unblock(p)
  PROVE  \E new : trig' = [trig EXCEPT ![p] = new] /\ new.loop = trig[p].loop
<1>1. trig[p] \in Triggers
  BY DEF TypeOK
<1>2. CASE ReadEvent(p)
  <2> DEFINE read == [trig[p] EXCEPT !.events = FALSE]
             one == [read EXCEPT !.queued = @ + 1]
             held == [read EXCEPT !.watcher = "blocked"]
             sent == IF trig[p].loop = "ended" THEN read
                     ELSE IF trig[p].queued < Capacity THEN one ELSE held
  <2>1. read.loop = trig[p].loop /\ one.loop = trig[p].loop /\ held.loop = trig[p].loop
    BY <1>1 DEF Triggers
  <2>2. PICK new \in {read, sent} : trig' = [trig EXCEPT ![p] = new]
    BY <1>2, Zenon DEF ReadEvent
  <2> HIDE DEF read, one, held
  <2> QED BY <2>1, <2>2
<1>3. CASE Unblock(p)
  <2> DEFINE full == IF trig[p].loop = "ended" THEN trig[p].queued ELSE trig[p].queued + 1
             new == [trig[p] EXCEPT !.watcher = "idle", !.queued = full]
  <2>1. trig' = [trig EXCEPT ![p] = new]
    BY <1>3 DEF Unblock
  <2> HIDE DEF full
  <2>2. new.loop = trig[p].loop
    BY <1>1 DEF Triggers
  <2> HIDE DEF new
  <2> QED BY <2>1, <2>2
<1> QED BY <1>2, <1>3

LEMMA NextRun ==
  ASSUME TypeOK, LoopsRun, [Next]_vars
  PROVE  LoopsRun'
<1> USE DEF LoopsRun, Loops
<1>1. trig \in [Procs -> Triggers] /\ proc \in [Procs -> ProcStates]
  BY DEF TypeOK
<1>2. ASSUME NEW p \in Procs,
             \/ Launch(p) \/ TakeLock(p) \/ RemoveStale(p) \/ Bind(p)
             \/ Interrupt(p) \/ RemoveSocket(p)
      PROVE  LoopsRun'
  BY <1>1, <1>2
  DEF Launch, Start, TakeLock, RemoveStale, Bind, Interrupt, RemoveSocket, Step
<1>3. ASSUME NEW p \in Procs, Serve(p) \/ Leave(p)
      PROVE  LoopsRun'
  <2>1. /\ proc' = [proc EXCEPT ![p] = proc'[p]]
        /\ proc'[p] \in {"serving", "left"}
        /\ \A q \in Procs : q # p => trig'[q] = trig[q]
    BY <1>1, <1>3 DEF Serve, Leave, Step
  <2> QED BY <1>1, <2>1
<1>4. ASSUME NEW p \in Procs, Exit(p) \/ Die(p)
      PROVE  LoopsRun'
  <2>1. /\ trig'[p].loop = "off"
        /\ \A q \in Procs : q # p => trig'[q] = trig[q] /\ proc'[q] = proc[q]
    BY <1>1, <1>4 DEF Exit, Die, Gone, Asleep
  <2> QED BY <2>1
<1>5. ASSUME NEW p \in Procs, ReadEvent(p) \/ Unblock(p)
      PROVE  LoopsRun'
  <2>1. PICK new : trig' = [trig EXCEPT ![p] = new] /\ new.loop = trig[p].loop
    BY <1>1, <1>5, WatcherLoop
  <2>2. \A q \in Procs : trig'[q].loop = trig[q].loop
    BY <1>1, <2>1
  <2> QED BY <1>5, <2>2 DEF ReadEvent, Unblock, processes
<1>6. ASSUME NEW p \in Procs, NEW from, NEW to, LoopStep(p, from, to)
      PROVE  LoopsRun'
  BY <1>1, <1>6 DEF LoopStep, Running, processes
<1>7. ASSUME NEW p \in Procs, Receive(p) \/ EndLoop(p)
      PROVE  LoopsRun'
  <2>1. /\ trig[p].loop = "select" /\ UNCHANGED proc
        /\ \A q \in Procs : q # p => trig'[q] = trig[q]
    BY <1>1, <1>7 DEF Receive, EndLoop, processes
  <2> QED BY <2>1
<1>8. ASSUME NEW g \in Guis, Unlink(g) \/ Wait(g)
      PROVE  LoopsRun'
  BY <1>1, <1>8 DEF Unlink, Wait, Start, Step
<1>9. CASE Change
  <2>1. \A q \in Procs : trig'[q].loop = trig[q].loop
    BY <1>1, <1>9 DEF Change, Triggers
  <2> QED BY <1>9, <2>1 DEF Change, processes
<1>10. ASSUME UNCHANGED <<processes, trig>>
       PROVE  LoopsRun'
  BY <1>10 DEF processes
<1>11. CASE Next
  BY <1>11, <1>2, <1>3, <1>4, <1>5, <1>6, <1>7, <1>8, <1>9, <1>10
  DEF Next, StartDelete, EndDelete, Tick, TakeSession, Look, FailPass, EndPass, Allow,
      Open, Check, Connect, Poll
<1>12. CASE UNCHANGED vars
  BY <1>10, <1>12 DEF vars
<1> QED BY <1>11, <1>12

\* Background passes come from one process at a time, however many daemons
\* are started, die or shut down: a process that may still run a pass, on its
\* way out included, holds the lock until its main returns, and so does one that
\* listens.  After that the tasks of the first are being stopped.
THEOREM LoopsOneByOne == Spec => []OneLoop
<1>1. TypeOK /\ LoopsRun /\ [Next]_vars => LoopsRun'
  BY NextRun
<1>2. LockHeld /\ LoopsRun => OneLoop
  BY OneHolder DEF OneLoop, LoopsRun, Listening, Holding
<1> QED BY <1>1, <1>2, InitRun, AlwaysHeld, TypeCorrect, PTL DEF Spec

-----------------------------------------------------------------------------
(* The socket *)

\* What DaemonsSpareSockets says of one step.
Spared ==
  \A p \in Procs :
    sock = p /\ Listening(p) /\ sock' # p
      => \E g \in Guis : gui[g].at = "launch" /\ gui'[g].at # "launch"

\* A daemon takes a socket away before it listens or when it no longer does,
\* and holds the lock either way.
LEMMA NextSpares ==
  ASSUME TypeOK, LockHeld, [Next]_vars
  PROVE  Spared
<1>1. ASSUME NEW p \in Procs, RemoveStale(p) \/ RemoveSocket(p)
      PROVE  Spared
  <2>1. proc[p] \in Holding /\ ~Listening(p)
    BY <1>1 DEF RemoveStale, RemoveSocket, Step, Holding, Listening
  <2>2. \A q \in Procs : ~Listening(q)
    BY <2>1, OneHolder DEF Listening, Holding
  <2> QED BY <2>2 DEF Spared
<1>2. ASSUME NEW p \in Procs, Bind(p)
      PROVE  Spared
  BY <1>2, ProcsAssumption DEF Bind, Spared
<1>3. ASSUME NEW g \in Guis, Unlink(g)
      PROVE  Spared
  <2>1. gui[g].at = "launch" /\ gui'[g].at \in {"wait", "poll"}
    BY <1>3 DEF Unlink, TypeOK
  <2> QED BY <2>1 DEF Spared
<1>4. ASSUME sock' = sock
      PROVE  Spared
  BY <1>4 DEF Spared
<1>5. CASE Next
  BY <1>5, <1>1, <1>2, <1>3, <1>4
  DEF Next, Launch, TakeLock, Serve, Interrupt, Leave, Exit, Die, Gone, StartDelete,
      EndDelete, Change, ReadEvent, Unblock, Tick, Receive, TakeSession, Look, FailPass,
      EndPass, EndLoop, LoopStep, Allow, Open, Check, Connect, Wait, Poll, processes
<1>6. CASE UNCHANGED vars
  BY <1>4, <1>6 DEF vars, processes
<1> QED BY <1>5, <1>6

\* No daemon takes away the socket of one that listens: whatever removes such
\* a socket is a GUI.
THEOREM SocketsSpared == Spec => DaemonsSpareSockets
<1>1. TypeOK /\ LockHeld /\ [Next]_vars => Spared
  BY NextSpares
<1>2. TypeOK /\ LockHeld /\ [Next]_vars => [Spared]_vars
  BY <1>1
<1>3. Spec => [][Spared]_vars
  BY <1>2, TypeCorrect, AlwaysHeld, PTL DEF Spec
<1> QED BY <1>3 DEF DaemonsSpareSockets, Spared
=============================================================================
