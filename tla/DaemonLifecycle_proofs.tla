---------------------- MODULE DaemonLifecycle_proofs ----------------------
(***************************************************************************)
(* Proofs about the daemon's life: however many processes, commands and    *)
(* crashes there are, strangers are spared, commands that do not overlap   *)
(* never lead to two daemons, and a confirmed stop is kept.                *)
(***************************************************************************)
EXTENDS DaemonLifecycle, FiniteSetTheorems, TLAPS

-----------------------------------------------------------------------------
(* The inductive invariant                                                 *)

Phase == Live \cup {"none", "dead", "stranger"}

Op == {"none", "start", "stop", "restart", "managed_restart",
       "install", "reinstall", "uninstall"}

Place == {"none", "check", "find", "ask", "signal", "wait", "deactivate", "activate", "done"}

Flag == [Pid -> BOOLEAN]

ProcessesTyped ==
  /\ phase \in [Pid -> Phase] /\ code \in [Pid -> 0..2]
  /\ stopping \in Flag /\ draining \in Flag /\ aborted \in Flag
  /\ seen \in Flag /\ busy \in Flag /\ failed \in Flag

SystemTyped ==
  /\ pidFile \in Pid \cup {None} /\ socket \in Pid \cup {None}
  /\ installed \in 0..2 /\ unit \in BOOLEAN
  /\ manager \in Managers /\ loaded \in BOOLEAN /\ managed \in Pid \cup {None}

CommandsTyped ==
  /\ cmd \in [Command -> [op : Op, at : Place, pid : Pid \cup {None}]]
  /\ raced \in BOOLEAN /\ unidentified \in BOOLEAN /\ stopped \in BOOLEAN /\ crashes \in Nat

Typed == ProcessesTyped /\ SystemTyped /\ CommandsTyped

(* How far an operation can be, and that it asks only a process it found.  *)
PathOf(r) ==
  /\ r.at \in {"ask", "signal"} => r.pid \in Pid
  /\ r.at \in {"check", "activate"} => r.op \notin {"stop", "uninstall"}
  /\ r.op = "uninstall" => r.at \in {"deactivate", "done"}

PathInv == \A c \in Command : PathOf(cmd[c])

(* Of commands that do not overlap, at most one is under way; there is at  *)
(* most one daemon, and from its advertisement on the pid file names it.   *)
AloneInv ==
  /\ \A c, d \in Command : ~ Idle(c) /\ ~ Idle(d) => c = d
  /\ \A p, q \in Daemons : p = q
  /\ \A p \in Daemons : phase[p] \in {"serving", "closing"} => pidFile = p

(* While a command is under way no daemon comes up, so that whoever it     *)
(* found is all there is to stop, and is stopping before it is waited for. *)
CommandInv == \A c \in Command : ~ Idle(c) =>
  /\ \A p \in Daemons : phase[p] \in {"serving", "closing"}
  /\ cmd[c].at \in {"ask", "signal", "wait"} => Daemons \subseteq {cmd[c].pid}
  /\ cmd[c].at = "wait" => \A p \in Daemons : stopping[p]
  /\ cmd[c].at = "activate" => Daemons = {}
  /\ cmd[c].op \notin {"stop", "uninstall"} => ~ stopped

QuietInv == stopped => Daemons = {}

Order == AloneInv /\ CommandInv /\ QuietInv

(* All this is lost with an overlap, or with an activation that takes a    *)
(* live daemon for gone.                                                   *)
OrderInv == ~ raced /\ ~ unidentified => Order

IInv == Typed /\ PathInv /\ OrderInv

-----------------------------------------------------------------------------
(* Processes                                                               *)

(* A new process gets a pid that nobody has.                               *)
LEMMA SpawnIsUnused ==
  ASSUME Unused # {}
  PROVE  Spawn \in Pid /\ phase[Spawn] = "none"
  BY DEF Spawn, Unused

(* ... and nobody else changes when it is started.                         *)
LEMMA SpawnTouchesOne ==
  ASSUME ProcessesTyped, installed \in 0..2, Unused # {}
  PROVE  /\ SpawnInto(phase) \in [Pid -> Phase] /\ SpawnCode \in [Pid -> 0..2]
         /\ SpawnInto(phase)[Spawn] = "boot"
         /\ \A q \in Pid : q # Spawn => SpawnInto(phase)[q] = phase[q]
BY SpawnIsUnused DEF ProcessesTyped, Phase, Live, SpawnInto, SpawnCode

(* A stop request ends the process or makes it stop, and is for it alone.  *)
LEMMA StopTouchesOne ==
  ASSUME ProcessesTyped, NEW p \in Pid, StopRequest(p)
  PROVE  /\ phase' \in [Pid -> Phase] /\ stopping' \in Flag
         /\ aborted' \in Flag /\ failed' \in Flag
         /\ phase'[p] = "dead" \/ (phase'[p] = phase[p] /\ stopping'[p])
         /\ \A q \in Pid : q # p => phase'[q] = phase[q] /\ stopping'[q] = stopping[q]
<1>1. CASE phase[p] = "boot" \/ stopping[p]
  BY <1>1 DEF ProcessesTyped, StopRequest, Phase, Flag
<1>2. CASE ~ (phase[p] = "boot" \/ stopping[p])
  BY <1>2 DEF ProcessesTyped, StopRequest, Phase, Flag
<1> QED
  BY <1>1, <1>2

(* A command that goes on leaves the others where they are.                *)
LEMMA GoTouchesOne ==
  ASSUME CommandsTyped, NEW c \in Command, NEW op \in Op, NEW at \in Place,
         NEW pid \in Pid \cup {None}, Go(c, op, at, pid)
  PROVE  /\ cmd' \in [Command -> [op : Op, at : Place, pid : Pid \cup {None}]]
         /\ cmd'[c] = IF at = "done" THEN Over ELSE [op |-> op, at |-> at, pid |-> pid]
         /\ cmd'[c].at = at
         /\ \A d \in Command : d # c => cmd'[d] = cmd[d]
<1>1. Over \in [op : Op, at : Place, pid : Pid \cup {None}] /\ Over.at = "done"
  BY DEF Over, Op, Place
<1>2. /\ cmd' \in [Command -> [op : Op, at : Place, pid : Pid \cup {None}]]
      /\ cmd'[c] = IF at = "done" THEN Over ELSE [op |-> op, at |-> at, pid |-> pid]
      /\ \A d \in Command : d # c => cmd'[d] = cmd[d]
  BY <1>1 DEF CommandsTyped, Go
<1> QED
  BY <1>1, <1>2

LEMMA ToTouchesOne ==
  ASSUME CommandsTyped, NEW c \in Command, NEW at \in Place, To(c, at)
  PROVE  /\ cmd' \in [Command -> [op : Op, at : Place, pid : Pid \cup {None}]]
         /\ cmd'[c] = IF at = "done" THEN Over
                      ELSE [op |-> cmd[c].op, at |-> at, pid |-> cmd[c].pid]
         /\ cmd'[c].at = at
         /\ \A d \in Command : d # c => cmd'[d] = cmd[d]
<1>1. cmd[c].op \in Op /\ cmd[c].pid \in Pid \cup {None}
  BY DEF CommandsTyped
<1>2. Go(c, cmd[c].op, at, cmd[c].pid)
  BY DEF To
<1> QED
  BY <1>1, <1>2, GoTouchesOne

-----------------------------------------------------------------------------
(* Types                                                                   *)

LEMMA TypedInitially == Init => Typed
<1> SUFFICES ASSUME Init PROVE Typed
  OBVIOUS
<1>1. ProcessesTyped
  BY DEF Init, ProcessesTyped, Phase, Flag
<1>2. SystemTyped
  <2>1. unit \in BOOLEAN /\ loaded \in BOOLEAN
    BY Zenon DEF Init
  <2>2. /\ pidFile \in {None} /\ socket \in {None} /\ managed \in {None}
        /\ installed \in 0..2 /\ manager \in Managers
    BY DEF Init
  <2> QED
    BY <2>1, <2>2 DEF SystemTyped
<1>3. CommandsTyped
  BY DEF Init, CommandsTyped, Op, Place
<1> QED
  BY <1>1, <1>2, <1>3 DEF Typed

(* What a process does.                                                    *)
LEMMA RunsStayTyped ==
  ASSUME Typed, NEW p \in Pid, Runs(p) \/ Crash(p) \/ Recycle(p)
  PROVE  Typed'
<1> USE DEF Phase, Live, Flag
<1>0. ProcessesTyped /\ SystemTyped /\ CommandsTyped
  BY DEF Typed
<1>1. CASE Bind(p)
  BY <1>0, <1>1 DEF Bind, Typed, ProcessesTyped, SystemTyped, CommandsTyped, history, service
<1>2. CASE Advertise(p)
  BY <1>0, <1>2 DEF Advertise, Typed, ProcessesTyped, SystemTyped, CommandsTyped, history, service
<1>3. CASE Watch(p)
  <2>1. seen' \in Flag /\ draining' \in Flag
    BY <1>0, <1>3 DEF Watch, ProcessesTyped
  <2> QED
    BY <2>1, <1>0, <1>3
       DEF Watch, Typed, ProcessesTyped, SystemTyped, CommandsTyped, history, files, service
<1>4. CASE Work(p)
  BY <1>0, <1>4 DEF Work, Typed, ProcessesTyped, SystemTyped, CommandsTyped, history, files, service
<1>5. CASE WorkEnds(p)
  BY <1>0, <1>5 DEF WorkEnds, Typed, ProcessesTyped, SystemTyped, CommandsTyped, history, files, service
<1>6. CASE Drain(p)
  BY <1>0, <1>6 DEF Drain, Typed, ProcessesTyped, SystemTyped, CommandsTyped, history, files, service
<1>7. CASE Close(p)
  BY <1>0, <1>7 DEF Close, Typed, ProcessesTyped, SystemTyped, CommandsTyped, history, service
<1>8. CASE Leave(p)
  <2>0. PICK known \in BOOLEAN : LeaveFor(p, draining[p] /\ ~ stopping[p], known)
    BY <1>8 DEF Leave
  <2> DEFINE heir == draining[p] /\ ~ stopping[p]
             file == IF pidFile = p THEN None ELSE pidFile
             spawns == heir /\ ~ unit /\ ~ Refuses(file, known)
             gone == [phase EXCEPT ![p] = "dead"]
  <2>1. /\ spawns => Unused # {}
        /\ pidFile' = IF spawns /\ IsAlive(file) THEN None ELSE file
        /\ failed' = [failed EXCEPT ![p] = heir /\ unit]
        /\ phase' = IF spawns THEN SpawnInto(gone) ELSE gone
        /\ code' = IF spawns THEN SpawnCode ELSE code
        /\ raced' = (raced \/ (heir /\ \E c \in Command : ~ Idle(c) /\ cmd[c].at # "wait"))
        /\ UNCHANGED <<stopping, draining, aborted, seen, busy,
                       socket, installed, unit, service, cmd, unidentified, stopped, crashes>>
    BY <2>0 DEF LeaveFor
  <2>2. gone \in [Pid -> Phase]
    BY <1>0 DEF ProcessesTyped
  <2>3. SpawnInto(gone) \in [Pid -> Phase]
    BY <2>2 DEF SpawnInto
  <2>4. phase' \in [Pid -> Phase]
    BY <2>1, <2>2, <2>3
  <2>5. code' \in [Pid -> 0..2]
    BY <2>1, <1>0, SpawnTouchesOne DEF ProcessesTyped, SystemTyped
  <2>6. failed' \in Flag
    BY <2>1, <1>0 DEF ProcessesTyped
  <2>7. pidFile' \in Pid \cup {None} /\ raced' \in BOOLEAN
    BY <2>1, <1>0 DEF SystemTyped, CommandsTyped
  <2> QED
    BY <2>1, <2>4, <2>5, <2>6, <2>7, <1>0
       DEF Typed, ProcessesTyped, SystemTyped, CommandsTyped, history, service
<1>9. CASE Crash(p)
  BY <1>0, <1>9 DEF Crash, Typed, ProcessesTyped, SystemTyped, CommandsTyped, history, files, service
<1>10. CASE Recycle(p)
  BY <1>0, <1>10 DEF Recycle, Typed, ProcessesTyped, SystemTyped, CommandsTyped, history, files, service
<1> QED
  BY <1>1, <1>2, <1>3, <1>4, <1>5, <1>6, <1>7, <1>8, <1>9, <1>10 DEF Runs

LEMMA SystemStaysTyped ==
  ASSUME Typed, Upgrade \/ ManagerRespawns
  PROVE  Typed'
<1>0. ProcessesTyped /\ SystemTyped /\ CommandsTyped
  BY DEF Typed
<1>1. CASE Upgrade
  BY <1>0, <1>1
     DEF Upgrade, Typed, ProcessesTyped, SystemTyped, CommandsTyped, history, processes, service
<1>2. CASE ManagerRespawns
  <2>1. phase' \in [Pid -> Phase] /\ code' \in [Pid -> 0..2] /\ managed' \in Pid
    BY <1>0, <1>2, SpawnTouchesOne, SpawnIsUnused DEF ManagerRespawns, SystemTyped
  <2>2. raced' \in BOOLEAN /\ stopped' \in BOOLEAN
    BY <1>2, <1>0 DEF ManagerRespawns, CommandsTyped
  <2> QED
    BY <2>1, <2>2, <1>0, <1>2
       DEF ManagerRespawns, Typed, ProcessesTyped, SystemTyped, CommandsTyped, history, files
<1> QED
  BY <1>1, <1>2

(* Where a command goes from where it is.                                  *)
LEMMA PlacesToGo ==
  ASSUME NEW c \in Command
  PROVE  HasStopped(c) \in Place /\ StillRuns(c) \in Place
BY DEF HasStopped, StillRuns, Place

LEMMA NotRunningTouchesOne ==
  ASSUME CommandsTyped, NEW c \in Command, NotRunning(c)
  PROVE  /\ cmd' \in [Command -> [op : Op, at : Place, pid : Pid \cup {None}]]
         /\ cmd'[c] = IF HasStopped(c) = "done" THEN Over
                      ELSE [op |-> cmd[c].op, at |-> HasStopped(c), pid |-> None]
         /\ cmd'[c].at = HasStopped(c)
         /\ \A d \in Command : d # c => cmd'[d] = cmd[d]
<1>1. cmd[c].op \in Op /\ None \in Pid \cup {None} /\ HasStopped(c) \in Place
  BY PlacesToGo DEF CommandsTyped
<1> QED
  BY <1>1, GoTouchesOne DEF NotRunning

LEMMA FoundIsAlive ==
  ASSUME SystemTyped
  PROVE  /\ RunningDaemonPid \in Pid \cup {None}
         /\ RunningDaemonPid # None => RunningDaemonPid = pidFile /\ pidFile \in Pid
BY DEF SystemTyped, RunningDaemonPid, IsAlive

LEMMA StopsStayTyped ==
  ASSUME Typed, PathInv, NEW c \in Command, Stops(c)
  PROVE  Typed'
<1>0. ProcessesTyped /\ SystemTyped /\ CommandsTyped
  BY DEF Typed
<1>c. /\ cmd[c].op \in Op /\ cmd[c].pid \in Pid \cup {None}
      /\ "ask" \in Place /\ "signal" \in Place /\ "wait" \in Place
  BY <1>0 DEF CommandsTyped, Place
<1> DEFINE CmdTyped == cmd' \in [Command -> [op : Op, at : Place, pid : Pid \cup {None}]]
<1>1. CASE Find(c)
  <2>1. CmdTyped
    BY <1>0, <1>c, <1>1, PlacesToGo, FoundIsAlive, GoTouchesOne, ToTouchesOne DEF Find
  <2> QED
    BY <2>1, <1>0, <1>1
       DEF Find, Typed, ProcessesTyped, SystemTyped, CommandsTyped, history, processes, files, service
<1>2. CASE Ask(c)
  <2>1. socket \in Pid
    BY <1>0, <1>2 DEF Ask, Answers, SystemTyped
  <2>2. phase' \in [Pid -> Phase] /\ stopping' \in Flag /\ aborted' \in Flag /\ failed' \in Flag
    BY <2>1, <1>0, <1>2, StopTouchesOne DEF Ask
  <2>3. CmdTyped
    BY <1>0, <1>c, <1>2, ToTouchesOne DEF Ask
  <2> QED
    BY <2>2, <2>3, <1>0, <1>2
       DEF Ask, Typed, ProcessesTyped, SystemTyped, CommandsTyped, history, files, service
<1>3. CASE AskInVain(c)
  <2>1. CmdTyped
    BY <1>0, <1>c, <1>3, ToTouchesOne DEF AskInVain
  <2> QED
    BY <2>1, <1>0, <1>3
       DEF AskInVain, Typed, ProcessesTyped, SystemTyped, CommandsTyped, history,
           processes, files, service
<1>5. CASE Signal(c)
  <2>1. cmd[c].pid \in Pid
    BY <1>5 DEF Signal, PathInv, PathOf
  <2>2. phase' \in [Pid -> Phase] /\ stopping' \in Flag /\ aborted' \in Flag /\ failed' \in Flag
    BY <2>1, <1>0, <1>5, StopTouchesOne DEF Signal
  <2>3. CmdTyped
    BY <1>0, <1>c, <1>5, ToTouchesOne DEF Signal
  <2> QED
    BY <2>2, <2>3, <1>0, <1>5
       DEF Signal, Typed, ProcessesTyped, SystemTyped, CommandsTyped, history, files, service
<1>6. CASE Forget(c)
  <2>1. CmdTyped
    BY <1>0, <1>6, NotRunningTouchesOne DEF Forget
  <2> QED
    BY <2>1, <1>0, <1>6
       DEF Forget, Typed, ProcessesTyped, SystemTyped, CommandsTyped, history, processes, service
<1>7. CASE TakeForGone(c)
  <2>1. CmdTyped
    BY <1>0, <1>7, NotRunningTouchesOne DEF TakeForGone
  <2>2. unidentified' \in BOOLEAN
    BY <1>0, <1>7 DEF TakeForGone, CommandsTyped
  <2> QED
    BY <2>1, <2>2, <1>0, <1>7
       DEF TakeForGone, Typed, ProcessesTyped, SystemTyped, CommandsTyped,
           processes, files, service
<1>4. CASE Wait(c)
  <2>1. CmdTyped
    BY <1>0, <1>4, PlacesToGo, ToTouchesOne DEF Wait
  <2>2. stopped' \in BOOLEAN
    BY <1>0, <1>4 DEF Wait, CommandsTyped
  <2> QED
    BY <2>1, <2>2, <1>0, <1>4
       DEF Wait, Typed, ProcessesTyped, SystemTyped, CommandsTyped, history, processes, files, service
<1> QED
  BY <1>1, <1>2, <1>3, <1>4, <1>5, <1>6, <1>7 DEF Stops

LEMMA MovesStayTyped ==
  ASSUME Typed, NEW c \in Command, Moves(c)
  PROVE  Typed'
<1>0. ProcessesTyped /\ SystemTyped /\ CommandsTyped
  BY DEF Typed
<1>c. "done" \in Place /\ "find" \in Place /\ "check" \in Place
  BY DEF Place
<1> DEFINE CmdTyped == cmd' \in [Command -> [op : Op, at : Place, pid : Pid \cup {None}]]
<1>1. CASE Check(c)
  <2>1. CmdTyped
    BY <1>0, <1>c, <1>1, ToTouchesOne DEF Check
  <2>2. /\ phase' \in [Pid -> Phase] /\ code' \in [Pid -> 0..2]
        /\ pidFile' \in Pid \cup {None}
        /\ UNCHANGED <<stopping, draining, aborted, seen, busy, failed>>
    <3>0. PICK known \in BOOLEAN :
            IF Refuses(pidFile, known)
              THEN UNCHANGED <<processes, pidFile>>
              ELSE /\ Unused # {} /\ phase' = SpawnInto(phase) /\ code' = SpawnCode
                   /\ pidFile' = IF RunningDaemonPid # None THEN None ELSE pidFile
                   /\ UNCHANGED <<stopping, draining, aborted, seen, busy, failed>>
      BY <1>1 DEF Check
    <3>1. CASE Refuses(pidFile, known)
      BY <3>0, <3>1, <1>0 DEF ProcessesTyped, SystemTyped, processes
    <3>2. CASE ~ Refuses(pidFile, known)
      BY <3>0, <3>2, <1>0, SpawnTouchesOne DEF SystemTyped
    <3> QED
      BY <3>1, <3>2
  <2> QED
    BY <2>1, <2>2, <1>0, <1>1
       DEF Check, Typed, ProcessesTyped, SystemTyped, CommandsTyped, history, service
<1>2. CASE Deactivate(c)
  <2>1. CmdTyped
    <3>1. (IF cmd[c].op = "uninstall" THEN "done" ELSE "find") \in Place
      BY <1>c
    <3> QED
      BY <3>1, <1>0, <1>2, ToTouchesOne DEF Deactivate
  <2>2. phase' \in [Pid -> Phase] /\ stopping' \in Flag /\ aborted' \in Flag /\ failed' \in Flag
    <3>1. CASE managed # None /\ phase[managed] \in Live
      <4>1. managed \in Pid /\ StopRequest(managed)
        BY <3>1, <1>0, <1>2 DEF Deactivate, SystemTyped
      <4> QED
        BY <4>1, <1>0, StopTouchesOne
    <3>2. CASE ~ (managed # None /\ phase[managed] \in Live)
      BY <3>2, <1>0, <1>2 DEF Deactivate, ProcessesTyped
    <3> QED
      BY <3>1, <3>2
  <2>3. unit' \in BOOLEAN /\ loaded' \in BOOLEAN
    BY <1>0, <1>2 DEF Deactivate, SystemTyped
  <2> QED
    BY <2>1, <2>2, <2>3, <1>0, <1>2
       DEF Deactivate, Typed, ProcessesTyped, SystemTyped, CommandsTyped, history
<1>3. CASE DeactivateFails(c)
  <2>1. CmdTyped
    <3>1. (IF cmd[c].op = "uninstall" THEN "done" ELSE "find") \in Place
      BY <1>c
    <3> QED
      BY <3>1, <1>0, <1>3, ToTouchesOne DEF DeactivateFails
  <2> QED
    BY <2>1, <1>0, <1>3
       DEF DeactivateFails, Typed, ProcessesTyped, SystemTyped, CommandsTyped, history,
           processes, files, service
<1>4. CASE Activate(c)
  <2>1. CmdTyped
    BY <1>0, <1>c, <1>4, ToTouchesOne DEF Activate
  <2>2. phase' \in [Pid -> Phase] /\ code' \in [Pid -> 0..2] /\ managed' \in Pid \cup {None}
    <3>1. CASE managed # None /\ phase[managed] \in Live
      BY <3>1, <1>0, <1>4 DEF Activate, ProcessesTyped, SystemTyped
    <3>2. CASE ~ (managed # None /\ phase[managed] \in Live)
      BY <3>2, <1>0, <1>4, SpawnTouchesOne, SpawnIsUnused DEF Activate, SystemTyped
    <3> QED
      BY <3>1, <3>2
  <2>3. unit' \in BOOLEAN /\ loaded' \in BOOLEAN
    BY Zenon, <1>4 DEF Activate
  <2> QED
    BY <2>1, <2>2, <2>3, <1>0, <1>4
       DEF Activate, Typed, ProcessesTyped, SystemTyped, CommandsTyped, history
<1>5. CASE ActivateFails(c)
  <2>1. CmdTyped
    BY <1>0, <1>c, <1>5, ToTouchesOne DEF ActivateFails
  <2>2. unit' \in BOOLEAN
    BY Zenon, <1>5 DEF ActivateFails
  <2> QED
    BY <2>1, <2>2, <1>0, <1>5
       DEF ActivateFails, Typed, ProcessesTyped, SystemTyped, CommandsTyped, history, processes, service
<1> QED
  BY <1>1, <1>2, <1>3, <1>4, <1>5 DEF Moves

(* A command that is done is on its path.                                  *)
LEMMA DonePath ==
  PathOf(Over) /\ Over.at = "done"
BY DEF PathOf, Over

(* How an operation begins.                                                *)
LEMMA InvokeTouchesOne ==
  ASSUME Typed, NEW c \in Command, NEW op \in Operations, Invoke(c, op)
  PROVE  /\ cmd' \in [Command -> [op : Op, at : Place, pid : Pid \cup {None}]]
         /\ \A d \in Command : d # c => cmd'[d] = cmd[d]
         /\ PathOf(cmd'[c]) /\ cmd'[c].at \in {"check", "find", "deactivate", "activate", "done"}
         /\ cmd'[c].at = "activate" => RunningDaemonPid = None
         /\ cmd'[c].at # "done" /\ cmd'[c].op \notin {"stop", "uninstall"}
              => op \notin {"stop", "uninstall"}
<1>0. CommandsTyped
  BY DEF Typed
<1>1. PICK o, a : /\ Go(c, o, a, None)
                  /\ o \in Op /\ a \in {"check", "find", "deactivate", "activate", "done"}
                  /\ a \in {"check", "activate"} => o \notin {"stop", "uninstall"}
                  /\ o = "uninstall" => a \in {"deactivate", "done"}
                  /\ a = "activate" => RunningDaemonPid = None
                  /\ o \notin {"stop", "uninstall"} => op \notin {"stop", "uninstall"}
  <2>1. op \in {"start", "stop", "restart", "install", "uninstall"}
    BY DaemonAssumption
  <2>2. CASE op = "start"
    BY <2>2 DEF Invoke, Op
  <2>3. CASE op = "stop"
    BY <2>3 DEF Invoke, Op
  <2>4. CASE op = "restart"
    BY <2>4 DEF Invoke, Op
  <2>5. CASE op = "install"
    BY <2>5 DEF Invoke, Op
  <2>6. CASE op = "uninstall"
    BY <2>6 DEF Invoke, Op
  <2> QED
    BY <2>1, <2>2, <2>3, <2>4, <2>5, <2>6
<1>2. a \in Place /\ None \in Pid \cup {None}
  BY <1>1 DEF Place
<1>3. /\ cmd' \in [Command -> [op : Op, at : Place, pid : Pid \cup {None}]]
      /\ cmd'[c].at = a
      /\ cmd'[c] = IF a = "done" THEN Over ELSE [op |-> o, at |-> a, pid |-> None]
      /\ \A d \in Command : d # c => cmd'[d] = cmd[d]
  BY <1>0, <1>1, <1>2, GoTouchesOne
<1>4. CASE a = "done"
  <2>1. cmd'[c] = Over
    BY <1>3, <1>4
  <2> QED
    BY <1>3, <1>4, <2>1, DonePath
<1>5. CASE a # "done"
  <2>1. cmd'[c] = [op |-> o, at |-> a, pid |-> None]
    BY <1>3, <1>5
  <2> QED
    BY <1>1, <1>3, <1>5, <2>1 DEF PathOf
<1> QED
  BY <1>4, <1>5

LEMMA InvokeStaysTyped ==
  ASSUME Typed, NEW c \in Command, NEW op \in Operations, Invoke(c, op)
  PROVE  Typed'
<1>1. cmd' \in [Command -> [op : Op, at : Place, pid : Pid \cup {None}]]
  BY InvokeTouchesOne
<1>2. raced' \in BOOLEAN /\ stopped' \in BOOLEAN
  BY DEF Invoke, Typed, CommandsTyped
<1> QED
  BY <1>1, <1>2
     DEF Invoke, Typed, ProcessesTyped, SystemTyped, CommandsTyped, history, processes, files, service

(* Types hold, and operations keep to their paths.                         *)
LEMMA TypesAreKept == Typed /\ PathInv /\ [Next]_vars => Typed'
<1> SUFFICES ASSUME Typed, PathInv, [Next]_vars PROVE Typed'
  OBVIOUS
<1>1. ASSUME NEW p \in Pid, Runs(p) \/ Crash(p) \/ Recycle(p) PROVE Typed'
  BY <1>1, RunsStayTyped
<1>2. ASSUME NEW c \in Command, Stops(c) PROVE Typed'
  BY <1>2, StopsStayTyped
<1>3. ASSUME NEW c \in Command, Moves(c) PROVE Typed'
  BY <1>3, MovesStayTyped
<1>4. ASSUME NEW c \in Command, NEW op \in Operations, Invoke(c, op) PROVE Typed'
  BY <1>4, InvokeStaysTyped
<1>5. CASE Upgrade \/ ManagerRespawns
  BY <1>5, SystemStaysTyped
<1>6. CASE UNCHANGED vars
  BY <1>6 DEF vars, processes, files, service, Typed, ProcessesTyped, SystemTyped, CommandsTyped, history
<1> QED
  BY <1>1, <1>2, <1>3, <1>4, <1>5, <1>6 DEF Next

(* A step of a command: where it was, where it goes.                       *)
LEMMA CommandsGoOn ==
  ASSUME Typed, PathInv, NEW c \in Command, Stops(c) \/ Moves(c)
  PROVE  /\ \A d \in Command : d # c => cmd'[d] = cmd[d]
         /\ cmd'[c].at # "done" => cmd'[c].op = cmd[c].op
         /\ ~ Idle(c) /\ PathOf(cmd'[c])
<1>0. SystemTyped /\ CommandsTyped /\ PathOf(cmd[c])
  BY DEF Typed, PathInv
<1>c. cmd[c].op \in Op /\ cmd[c].pid \in Pid \cup {None}
  BY <1>0 DEF CommandsTyped
<1>1. ASSUME NEW at \in Place, To(c, at), at \in {"find", "wait", "done"},
             at = "done" \/ cmd[c].op # "uninstall"
      PROVE  /\ \A d \in Command : d # c => cmd'[d] = cmd[d]
             /\ cmd'[c].at # "done" => cmd'[c].op = cmd[c].op
             /\ PathOf(cmd'[c])
  <2>1. /\ cmd'[c] = IF at = "done" THEN Over
                     ELSE [op |-> cmd[c].op, at |-> at, pid |-> cmd[c].pid]
        /\ \A d \in Command : d # c => cmd'[d] = cmd[d]
    BY <1>0, <1>1, ToTouchesOne
  <2>2. CASE at = "done"
    BY <2>1, <2>2, DonePath
  <2>3. CASE at # "done"
    <3>1. cmd'[c].op = cmd[c].op /\ cmd'[c].at = at
      BY <2>1, <2>3
    <3> QED
      BY <2>1, <2>3, <3>1, <1>1 DEF PathOf
  <2> QED
    BY <2>2, <2>3
<1>2. ASSUME NEW at \in Place, To(c, at), at \in {"check", "activate"},
             cmd[c].op \notin {"stop", "uninstall"}
      PROVE  /\ \A d \in Command : d # c => cmd'[d] = cmd[d]
             /\ cmd'[c].at # "done" => cmd'[c].op = cmd[c].op
             /\ PathOf(cmd'[c])
  <2>1. /\ cmd'[c] = [op |-> cmd[c].op, at |-> at, pid |-> cmd[c].pid]
        /\ \A d \in Command : d # c => cmd'[d] = cmd[d]
    BY <1>0, <1>2, ToTouchesOne
  <2>2. cmd'[c].op = cmd[c].op /\ cmd'[c].at = at
    BY <2>1
  <2> QED
    BY <2>1, <2>2, <1>2 DEF PathOf
<1>3. /\ HasStopped(c) = "done" \/ HasStopped(c) \in {"check", "activate"}
      /\ HasStopped(c) # "done" => cmd[c].op # "stop"
      /\ StillRuns(c) = "done" \/ (StillRuns(c) = "check" /\ cmd[c].op = "restart")
      /\ HasStopped(c) \in Place /\ StillRuns(c) \in Place
  BY PlacesToGo DEF HasStopped, StillRuns
<1>4. /\ "find" \in Place /\ "wait" \in Place /\ "done" \in Place /\ "check" \in Place
      /\ "ask" \in Place /\ "signal" \in Place
  BY DEF Place
<1>5. CASE Find(c)
  <2>1. cmd[c].at = "find" /\ cmd[c].op # "uninstall"
    BY <1>0, <1>5 DEF Find, PathOf
  <2>2. CASE RunningDaemonPid = None
    BY <2>1, <2>2, <1>1, <1>2, <1>3, <1>5 DEF Find, Idle
  <2>3. CASE RunningDaemonPid # None
    <3>1. Go(c, cmd[c].op, "ask", RunningDaemonPid) /\ RunningDaemonPid \in Pid
      BY <2>3, <1>5, <1>0, FoundIsAlive DEF Find
    <3>2. /\ cmd'[c] = [op |-> cmd[c].op, at |-> "ask", pid |-> RunningDaemonPid]
          /\ \A d \in Command : d # c => cmd'[d] = cmd[d]
      BY <3>1, <1>0, <1>c, <1>4, GoTouchesOne
    <3> QED
      BY <2>1, <3>1, <3>2 DEF PathOf, Idle
  <2> QED
    BY <2>2, <2>3
<1>s. ASSUME To(c, "signal"), cmd[c].at = "ask"
      PROVE  /\ \A d \in Command : d # c => cmd'[d] = cmd[d]
             /\ cmd'[c].at # "done" => cmd'[c].op = cmd[c].op
             /\ PathOf(cmd'[c])
  <2>1. /\ cmd'[c] = [op |-> cmd[c].op, at |-> "signal", pid |-> cmd[c].pid]
        /\ \A d \in Command : d # c => cmd'[d] = cmd[d]
    BY <1>0, <1>s, <1>4, ToTouchesOne
  <2>2. cmd[c].pid \in Pid /\ cmd[c].op # "uninstall"
    BY <1>0, <1>s DEF PathOf
  <2> QED
    BY <2>1, <2>2 DEF PathOf
<1>6. CASE Ask(c) \/ AskInVain(c) \/ Signal(c)
  <2>1. cmd[c].at \in {"ask", "signal"} /\ cmd[c].op # "uninstall"
    BY <1>0, <1>6 DEF Ask, AskInVain, Signal, PathOf
  <2>2. To(c, "wait") \/ (To(c, "signal") /\ cmd[c].at = "ask")
    BY <1>6 DEF Ask, AskInVain, Signal
  <2> QED
    BY <2>1, <2>2, <1>1, <1>s, <1>4 DEF Idle
<1>11. CASE Forget(c) \/ TakeForGone(c)
  <2>1. cmd[c].at = "signal" /\ cmd[c].op # "uninstall" /\ NotRunning(c)
    BY <1>0, <1>11 DEF Forget, TakeForGone, PathOf
  <2>2. /\ cmd'[c] = IF HasStopped(c) = "done" THEN Over
                     ELSE [op |-> cmd[c].op, at |-> HasStopped(c), pid |-> None]
        /\ \A d \in Command : d # c => cmd'[d] = cmd[d]
    BY <2>1, <1>0, NotRunningTouchesOne
  <2>3. ~ Idle(c)
    BY <2>1 DEF Idle
  <2>4. CASE HasStopped(c) = "done"
    BY <2>2, <2>3, <2>4, DonePath
  <2>5. CASE HasStopped(c) # "done"
    BY <2>1, <2>2, <2>3, <2>5, <1>3 DEF PathOf
  <2> QED
    BY <2>4, <2>5
<1>7. CASE Wait(c)
  <2>1. cmd[c].at = "wait" /\ cmd[c].op # "uninstall"
    BY <1>0, <1>7 DEF Wait, PathOf
  <2>2. To(c, StillRuns(c)) \/ To(c, HasStopped(c))
    BY <1>7 DEF Wait
  <2> QED
    BY <2>1, <2>2, <1>1, <1>2, <1>3, <1>4 DEF Idle
<1>8. CASE Check(c) \/ Activate(c)
  <2>1. cmd[c].at \in {"check", "activate"} /\ To(c, "done")
    BY <1>8 DEF Check, Activate
  <2> QED
    BY <2>1, <1>1, <1>4 DEF Idle
<1>9. CASE Deactivate(c) \/ DeactivateFails(c)
  <2>1. /\ cmd[c].at = "deactivate"
        /\ To(c, IF cmd[c].op = "uninstall" THEN "done" ELSE "find")
    BY <1>9 DEF Deactivate, DeactivateFails
  <2>2. CASE cmd[c].op = "uninstall"
    BY <2>1, <2>2, <1>1, <1>4 DEF Idle
  <2>3. CASE cmd[c].op # "uninstall"
    BY <2>1, <2>3, <1>1, <1>4 DEF Idle
  <2> QED
    BY <2>2, <2>3
<1>10. CASE ActivateFails(c)
  <2>1. /\ cmd[c].at = "activate" /\ cmd[c].op \notin {"stop", "uninstall"}
        /\ To(c, "check") \/ To(c, "done")
    BY <1>0, <1>10 DEF ActivateFails, PathOf
  <2> QED
    BY <2>1, <1>1, <1>2, <1>4 DEF Idle
<1> QED
  BY <1>5, <1>6, <1>7, <1>8, <1>9, <1>10, <1>11 DEF Stops, Moves

LEMMA PathsAreKept == Typed /\ PathInv /\ [Next]_vars => PathInv'
<1> SUFFICES ASSUME Typed, PathInv, [Next]_vars PROVE PathInv'
  OBVIOUS
<1>1. ASSUME NEW p \in Pid, Runs(p) \/ Crash(p) \/ Recycle(p) PROVE PathInv'
  <2>1. UNCHANGED cmd
    BY <1>1 DEF Runs, Bind, Advertise, Watch, Work, WorkEnds, Drain, Close, Leave, LeaveFor,
                Crash, Recycle
  <2> QED
    BY <2>1 DEF PathInv
<1>2. ASSUME NEW c \in Command, Stops(c) \/ Moves(c) PROVE PathInv'
  BY <1>2, CommandsGoOn DEF PathInv
<1>3. ASSUME NEW c \in Command, NEW op \in Operations, Invoke(c, op) PROVE PathInv'
  BY <1>3, InvokeTouchesOne DEF PathInv
<1>4. CASE Upgrade \/ ManagerRespawns \/ UNCHANGED vars
  BY <1>4 DEF Upgrade, ManagerRespawns, vars, PathInv
<1> QED
  BY <1>1, <1>2, <1>3, <1>4 DEF Next

-----------------------------------------------------------------------------
(* Strangers                                                               *)

(* What ends, becomes or stops a process does so to a daemon or to a pid   *)
(* that nobody has.                                                        *)
LEMMA StrangersStay ==
  ASSUME Typed, PathInv, [Next]_vars, NEW q \in Pid, phase[q] = "stranger"
  PROVE  phase'[q] = "stranger"
<1>0. ProcessesTyped /\ SystemTyped /\ CommandsTyped
  BY DEF Typed
<1>p. phase \in [Pid -> Phase]
  BY <1>0 DEF ProcessesTyped
<1>s. Unused # {} => SpawnInto(phase)[q] = "stranger"
  BY <1>0, SpawnIsUnused, SpawnTouchesOne DEF SystemTyped
<1>1. ASSUME NEW p \in Pid, Runs(p) \/ Crash(p) \/ Recycle(p) PROVE phase'[q] = "stranger"
  <2>1. CASE Bind(p) \/ Advertise(p) \/ Close(p) \/ Crash(p) \/ Recycle(p)
    <3>1. p # q
      BY <2>1 DEF Bind, Advertise, Close, Crash, Recycle, Live
    <3> QED
      BY <2>1, <3>1, <1>p DEF Bind, Advertise, Close, Crash, Recycle
  <2>2. CASE Watch(p) \/ Work(p) \/ WorkEnds(p) \/ Drain(p)
    BY <2>2 DEF Watch, Work, WorkEnds, Drain
  <2>3. CASE Leave(p)
    <3> DEFINE gone == [phase EXCEPT ![p] = "dead"]
    <3>1. p # q /\ (phase' = gone \/ (Unused # {} /\ phase' = SpawnInto(gone)))
      BY <2>3, Zenon DEF Leave, LeaveFor
    <3>2. gone \in [Pid -> Phase] /\ gone[q] = "stranger"
      BY <3>1, <1>p DEF Phase
    <3>3. Unused # {} => Spawn # q
      BY SpawnIsUnused
    <3> HIDE DEF gone
    <3> QED
      BY <3>1, <3>2, <3>3 DEF SpawnInto
  <2> QED
    BY <1>1, <2>1, <2>2, <2>3 DEF Runs
<1>2. ASSUME NEW p \in Pid, phase[p] \in Live, StopRequest(p) PROVE phase'[q] = "stranger"
  BY <1>2, <1>0, StopTouchesOne DEF Live
<1>3. ASSUME NEW c \in Command, Stops(c) PROVE phase'[q] = "stranger"
  <2>1. CASE Find(c) \/ AskInVain(c) \/ Forget(c) \/ TakeForGone(c) \/ Wait(c)
    BY <2>1 DEF Find, AskInVain, Forget, TakeForGone, Wait, processes
  <2>2. CASE Ask(c)
    <3>1. socket \in Pid /\ phase[socket] \in Live
      BY <2>2, <1>0 DEF Ask, Answers, SystemTyped, Live
    <3> QED
      BY <3>1, <2>2, <1>2 DEF Ask
  <2>3. CASE Signal(c)
    <3>1. cmd[c].pid \in Pid
      BY <2>3 DEF Signal, PathInv, PathOf
    <3> QED
      BY <3>1, <2>3, <1>2 DEF Signal
  <2> QED
    BY <1>3, <2>1, <2>2, <2>3 DEF Stops
<1>4. ASSUME NEW c \in Command, Moves(c) PROVE phase'[q] = "stranger"
  <2>1. CASE Check(c)
    BY <2>1, <1>s DEF Check, processes
  <2>2. CASE Deactivate(c)
    BY <2>2, <1>0, <1>2 DEF Deactivate, SystemTyped
  <2>3. CASE Activate(c)
    BY <2>3, <1>s DEF Activate
  <2>4. CASE DeactivateFails(c) \/ ActivateFails(c)
    BY <2>4 DEF DeactivateFails, ActivateFails, processes
  <2> QED
    BY <1>4, <2>1, <2>2, <2>3, <2>4 DEF Moves
<1>5. ASSUME NEW c \in Command, NEW op \in Operations, Invoke(c, op) PROVE phase'[q] = "stranger"
  BY <1>5 DEF Invoke, processes
<1>6. CASE Upgrade \/ ManagerRespawns \/ UNCHANGED vars
  BY <1>6, <1>s DEF Upgrade, ManagerRespawns, vars, processes
<1> QED
  BY <1>1, <1>3, <1>4, <1>5, <1>6 DEF Next

-----------------------------------------------------------------------------
(* Order                                                                   *)

(* A step with which no daemon comes, nor advances but to close.           *)
NobodyComes ==
  \A p \in Pid : phase'[p] \in Live =>
    /\ phase[p] \in Live
    /\ phase'[p] = phase[p] \/ (phase[p] = "serving" /\ phase'[p] = "closing")
    /\ stopping[p] => stopping'[p]
    /\ pidFile = p => pidFile' = p

LEMMA FewerDaemons ==
  ASSUME AloneInv, NobodyComes
  PROVE  /\ \A p \in Daemons' : p \in Daemons
         /\ \A p, q \in Daemons' : p = q
         /\ \A p \in Daemons' : phase'[p] \in {"serving", "closing"} => pidFile' = p
BY DEF AloneInv, NobodyComes, Daemons

LEMMA OrderAlone ==
  ASSUME Order, NobodyComes, UNCHANGED cmd, stopped' => stopped
  PROVE  Order'
<1>1. /\ \A p \in Daemons' : p \in Daemons
      /\ \A p, q \in Daemons' : p = q
      /\ \A p \in Daemons' : phase'[p] \in {"serving", "closing"} => pidFile' = p
  BY FewerDaemons DEF Order
<1>2. AloneInv'
  BY <1>1 DEF Order, AloneInv, Idle
<1>3. CommandInv'
  <2> SUFFICES ASSUME NEW c \in Command, ~ Idle(c)
               PROVE  /\ \A p \in Daemons' : phase'[p] \in {"serving", "closing"}
                      /\ cmd[c].at \in {"ask", "signal", "wait"} => Daemons' \subseteq {cmd[c].pid}
                      /\ cmd[c].at = "wait" => \A p \in Daemons' : stopping'[p]
                      /\ cmd[c].at = "activate" => Daemons' = {}
                      /\ cmd[c].op \notin {"stop", "uninstall"} => ~ stopped'
    BY DEF CommandInv, Idle
  <2>1. /\ \A p \in Daemons : phase[p] \in {"serving", "closing"}
        /\ cmd[c].at \in {"ask", "signal", "wait"} => Daemons \subseteq {cmd[c].pid}
        /\ cmd[c].at = "wait" => \A p \in Daemons : stopping[p]
        /\ cmd[c].at = "activate" => Daemons = {}
        /\ cmd[c].op \notin {"stop", "uninstall"} => ~ stopped
    BY DEF Order, CommandInv
  <2>2. \A p \in Daemons' : p \in Pid /\ phase'[p] \in Live
    BY DEF Daemons
  <2>3. \A p \in Daemons' : phase'[p] \in {"serving", "closing"} /\ (stopping[p] => stopping'[p])
    BY <1>1, <2>1, <2>2 DEF NobodyComes
  <2> QED
    BY <1>1, <2>1, <2>3
<1>4. QuietInv'
  BY <1>1 DEF Order, QuietInv
<1> QED
  BY <1>2, <1>3, <1>4 DEF Order

(* A step of the command that is under way, with which no daemon comes.    *)
LEMMA OrderOfOne ==
  ASSUME Order, NobodyComes, NEW c \in Command, ~ Idle(c),
         \A d \in Command : d # c => cmd'[d] = cmd[d],
         cmd'[c].at # "done" => cmd'[c].op = cmd[c].op,
         stopped' => stopped \/ (cmd[c].op = "stop" /\ Daemons' = {}),
         cmd'[c].at \in {"ask", "signal", "wait"} => Daemons' \subseteq {cmd'[c].pid},
         cmd'[c].at = "wait" => \A p \in Daemons' : stopping'[p],
         cmd'[c].at = "activate" => Daemons' = {}
  PROVE  Order'
<1>1. /\ \A p \in Daemons' : p \in Daemons
      /\ \A p, q \in Daemons' : p = q
      /\ \A p \in Daemons' : phase'[p] \in {"serving", "closing"} => pidFile' = p
  BY FewerDaemons DEF Order
<1>2. \A d \in Command : d # c => Idle(d) /\ Idle(d)'
  BY DEF Order, AloneInv, Idle
<1>3. AloneInv'
  BY <1>1, <1>2 DEF AloneInv
<1>4. CommandInv'
  <2>1. /\ \A p \in Daemons : phase[p] \in {"serving", "closing"}
        /\ cmd[c].op \notin {"stop", "uninstall"} => ~ stopped
    BY DEF Order, CommandInv
  <2>2. \A p \in Daemons' : p \in Pid /\ phase'[p] \in Live
    BY DEF Daemons
  <2>3. \A p \in Daemons' : phase'[p] \in {"serving", "closing"}
    BY <1>1, <2>1, <2>2 DEF NobodyComes
  <2>4. cmd'[c].at # "done" /\ cmd'[c].op \notin {"stop", "uninstall"} => ~ stopped'
    BY <2>1
  <2> QED
    BY <1>2, <2>3, <2>4 DEF CommandInv, Idle
<1>5. QuietInv'
  BY <1>1 DEF Order, QuietInv
<1> QED
  BY <1>3, <1>4, <1>5 DEF Order

(* A step with which a daemon comes, when no other is left, no command     *)
(* remains under way and no stop counts any more.                          *)
LEMMA OrderOfNew ==
  ASSUME NEW new, \A p \in Pid : phase'[p] \in Live => p = new /\ phase'[p] = "boot",
         \A d \in Command : Idle(d)', ~ stopped'
  PROVE  Order'
<1>1. \A p \in Daemons' : p = new /\ phase'[p] = "boot"
  BY DEF Daemons
<1> QED
  BY <1>1 DEF Order, AloneInv, CommandInv, QuietInv

(* A process runs its course.                                              *)
LEMMA RunsInOrder ==
  ASSUME Typed, Order, NEW p \in Pid, Runs(p) \/ Crash(p) \/ Recycle(p), ~ raced'
  PROVE  Order'
<1>0. ProcessesTyped /\ SystemTyped /\ CommandsTyped
  BY DEF Typed
<1>p. phase \in [Pid -> Phase]
  BY <1>0 DEF ProcessesTyped
<1>1. CASE Bind(p)
  <2>1. p \in Daemons
    BY <1>1 DEF Bind, Daemons, Live
  <2>2. \A c \in Command : Idle(c)
    BY <2>1, <1>1 DEF Bind, Order, CommandInv
  <2>3. ~ stopped /\ \A q \in Daemons : q = p
    BY <2>1 DEF Order, QuietInv, AloneInv
  <2>4. phase'[p] = "bound" /\ \A q \in Pid : q # p => phase'[q] = phase[q]
    BY <1>1, <1>p DEF Bind
  <2>5. \A q \in Daemons' : q = p
    BY <2>3, <2>4 DEF Daemons
  <2>6. UNCHANGED <<cmd, stopped>>
    BY <1>1 DEF Bind, history
  <2>7. \A c \in Command : Idle(c)'
    BY <2>2, <2>6 DEF Idle
  <2> QED
    BY <2>3, <2>4, <2>5, <2>6, <2>7 DEF Order, AloneInv, CommandInv, QuietInv
<1>2. CASE Advertise(p)
  <2>1. p \in Daemons
    BY <1>2 DEF Advertise, Daemons, Live
  <2>2. \A c \in Command : Idle(c)
    BY <2>1, <1>2 DEF Advertise, Order, CommandInv
  <2>3. ~ stopped /\ \A q \in Daemons : q = p
    BY <2>1 DEF Order, QuietInv, AloneInv
  <2>4. phase'[p] = "serving" /\ \A q \in Pid : q # p => phase'[q] = phase[q]
    BY <1>2, <1>p DEF Advertise
  <2>5. \A q \in Daemons' : q = p
    BY <2>3, <2>4 DEF Daemons
  <2>6. UNCHANGED <<cmd, stopped>> /\ pidFile' = p
    BY <1>2 DEF Advertise, history
  <2>7. \A c \in Command : Idle(c)'
    BY <2>2, <2>6 DEF Idle
  <2> QED
    BY <2>3, <2>4, <2>5, <2>6, <2>7 DEF Order, AloneInv, CommandInv, QuietInv
<1>3. CASE Watch(p) \/ Work(p) \/ WorkEnds(p) \/ Drain(p)
  <2>1. UNCHANGED <<phase, stopping, pidFile, cmd, stopped>>
    BY <1>3 DEF Watch, Work, WorkEnds, Drain, files, history
  <2>2. NobodyComes
    BY <2>1 DEF NobodyComes
  <2> QED
    BY <2>1, <2>2, OrderAlone
<1>4. CASE Close(p)
  <2>1. phase[p] = "serving" /\ UNCHANGED <<stopping, pidFile, cmd, stopped>>
    BY <1>4 DEF Close, history
  <2>2. phase'[p] = "closing" /\ \A q \in Pid : q # p => phase'[q] = phase[q]
    BY <1>4, <1>p DEF Close
  <2>3. NobodyComes
    BY <2>1, <2>2 DEF NobodyComes, Live
  <2> QED
    BY <2>1, <2>3, OrderAlone
<1>5. CASE Crash(p) \/ Recycle(p)
  <2>1. UNCHANGED <<stopping, pidFile, cmd, stopped>>
    BY <1>5 DEF Crash, Recycle, files, history
  <2>2. phase'[p] \notin Live /\ \A q \in Pid : q # p => phase'[q] = phase[q]
    BY <1>5, <1>p DEF Crash, Recycle, Live
  <2>3. NobodyComes
    BY <2>1, <2>2 DEF NobodyComes
  <2> QED
    BY <2>1, <2>3, OrderAlone
<1>6. CASE Leave(p)
  <2> DEFINE heir == draining[p] /\ ~ stopping[p]
             gone == [phase EXCEPT ![p] = "dead"]
  <2>1. /\ phase[p] = "closing"
        /\ \/ phase' = gone /\ pidFile' = (IF pidFile = p THEN None ELSE pidFile)
           \/ heir /\ Unused # {} /\ phase' = SpawnInto(gone)
        /\ raced' = (raced \/ (heir /\ \E c \in Command : ~ Idle(c) /\ cmd[c].at # "wait"))
        /\ UNCHANGED <<stopping, cmd, stopped>>
    BY <1>6 DEF Leave, LeaveFor
  <2>2. p \in Daemons /\ \A q \in Pid : phase[q] \in Live => q = p
    BY <2>1 DEF Daemons, Live, Order, AloneInv
  <2>3. gone \in [Pid -> Phase] /\ \A q \in Pid : gone[q] \notin Live
    BY <2>2, <1>p DEF Phase, Live
  <2> HIDE DEF gone
  <2>4. CASE phase' = gone
    <3>1. NobodyComes
      BY <2>3, <2>4 DEF NobodyComes
    <3> QED
      BY <3>1, <2>1, OrderAlone
  <2>5. CASE heir /\ Unused # {} /\ phase' = SpawnInto(gone)
    <3>1. \A c \in Command : Idle(c)
      <4>1. \A c \in Command : cmd[c].at = "wait" => stopping[p]
        BY <2>2 DEF Order, CommandInv, Idle
      <4> QED
        BY <4>1, <2>1, <2>5
    <3>2. \A c \in Command : Idle(c)'
      BY <3>1, <2>1 DEF Idle
    <3>3. ~ stopped'
      BY <2>1, <2>2 DEF Order, QuietInv
    <3>4. \A q \in Pid : phase'[q] \in Live => q = Spawn /\ phase'[q] = "boot"
      BY <2>3, <2>5 DEF SpawnInto
    <3> QED
      BY <3>2, <3>3, <3>4, OrderOfNew
  <2> QED
    BY <2>1, <2>4, <2>5
<1> QED
  BY <1>1, <1>2, <1>3, <1>4, <1>5, <1>6 DEF Runs

(* A manager that respawns beside anything else is a race.                 *)
LEMMA ManagerInOrder ==
  ASSUME Typed, Order, ManagerRespawns, ~ raced'
  PROVE  Order'
<1>1. /\ Daemons = {} /\ \A c \in Command : Idle(c)
      /\ Unused # {} /\ phase' = SpawnInto(phase) /\ UNCHANGED cmd
  BY DEF ManagerRespawns
<1>2. ~ stopped'
  BY DEF ManagerRespawns, RespawnIsDue
<1>3. \A c \in Command : Idle(c)'
  BY <1>1 DEF Idle
<1>4. \A q \in Pid : phase'[q] \in Live => q = Spawn /\ phase'[q] = "boot"
  <2>1. \A q \in Pid : phase[q] \notin Live
    BY <1>1 DEF Daemons
  <2>2. ProcessesTyped /\ installed \in 0..2
    BY DEF Typed, SystemTyped
  <2> QED
    BY <2>1, <2>2, <1>1, SpawnTouchesOne
<1> QED
  BY <1>2, <1>3, <1>4, OrderOfNew

(* While a command is under way, the pid file names whoever there is.      *)
LEMMA FoundAll ==
  ASSUME Typed, Order, NEW c \in Command, ~ Idle(c)
  PROVE  Daemons \subseteq {RunningDaemonPid} /\ (RunningDaemonPid = None => Daemons = {})
<1>1. \A p \in Daemons : pidFile = p /\ p \in Pid /\ phase[p] \in Live
  BY DEF Order, AloneInv, CommandInv, Daemons
<1>2. \A p \in Daemons : RunningDaemonPid = p /\ p # None
  BY <1>1 DEF RunningDaemonPid, IsAlive, Pid, None
<1> QED
  BY <1>2

(* Whoever is asked to stop is the daemon there is.                        *)
LEMMA StopComesAlone ==
  ASSUME Typed, Order, NEW p \in Pid, phase[p] \in Live, StopRequest(p), UNCHANGED pidFile
  PROVE  NobodyComes /\ \A q \in Daemons' : q = p /\ stopping'[q]
<1>1. ProcessesTyped
  BY DEF Typed
<1>2. \A q \in Pid : phase[q] \in Live => q = p
  BY DEF Order, AloneInv, Daemons
<1>3. /\ phase'[p] = "dead" \/ (phase'[p] = phase[p] /\ stopping'[p])
      /\ \A q \in Pid : q # p => phase'[q] = phase[q] /\ stopping'[q] = stopping[q]
  BY <1>1, StopTouchesOne
<1>4. \A q \in Pid : phase'[q] \in Live => q = p /\ phase'[q] = phase[q] /\ stopping'[q]
  BY <1>2, <1>3 DEF Live
<1> QED
  BY <1>4 DEF NobodyComes, Daemons

LEMMA NothingMoves ==
  ASSUME UNCHANGED <<phase, stopping, pidFile>>
  PROVE  NobodyComes /\ Daemons' = Daemons
BY DEF NobodyComes, Daemons

LEMMA InvokeInOrder ==
  ASSUME Typed, Order, NEW c \in Command, NEW op \in Operations, Invoke(c, op), ~ raced'
  PROVE  Order'
<1>1. /\ UNCHANGED <<phase, stopping, pidFile>> /\ ~ Pending
      /\ \A d \in Command : d # c => Idle(d)
      /\ stopped' = (stopped /\ op \in {"stop", "uninstall"})
  BY DEF Invoke, processes, files, Elsewhere
<1>2. /\ \A d \in Command : d # c => cmd'[d] = cmd[d]
      /\ cmd'[c].at \in {"check", "find", "deactivate", "activate", "done"}
      /\ cmd'[c].at = "activate" => RunningDaemonPid = None
      /\ cmd'[c].at # "done" /\ cmd'[c].op \notin {"stop", "uninstall"}
           => op \notin {"stop", "uninstall"}
  BY InvokeTouchesOne
<1>3. \A d \in Command : d # c => Idle(d)'
  BY <1>1, <1>2 DEF Idle
<1>4. \A p \in Daemons : phase[p] \in {"serving", "closing"} /\ pidFile = p
  BY <1>1 DEF Pending, Daemons, Live, Order, AloneInv
<1>5. RunningDaemonPid = None => Daemons = {}
  <2>1. \A p \in Daemons : RunningDaemonPid = p /\ p # None
    BY <1>4 DEF RunningDaemonPid, IsAlive, Pid, None, Daemons
  <2> QED
    BY <2>1
<1>6. Daemons' = Daemons
  BY <1>1, NothingMoves
<1>7. AloneInv'
  BY <1>1, <1>3, <1>6 DEF Order, AloneInv
<1>8. CommandInv'
  <2> SUFFICES ASSUME ~ Idle(c)'
               PROVE  /\ \A p \in Daemons' : phase'[p] \in {"serving", "closing"}
                      /\ cmd'[c].at \in {"ask", "signal", "wait"} => Daemons' \subseteq {cmd'[c].pid}
                      /\ cmd'[c].at = "wait" => \A p \in Daemons' : stopping'[p]
                      /\ cmd'[c].at = "activate" => Daemons' = {}
                      /\ cmd'[c].op \notin {"stop", "uninstall"} => ~ stopped'
    BY <1>3 DEF CommandInv
  <2>1. \A p \in Daemons' : phase'[p] \in {"serving", "closing"}
    BY <1>1, <1>4, <1>6
  <2>2. cmd'[c].at \notin {"ask", "signal", "wait"}
    BY <1>2
  <2>3. cmd'[c].op \notin {"stop", "uninstall"} => ~ stopped'
    BY <1>1, <1>2 DEF Idle
  <2> QED
    BY <2>1, <2>2, <2>3, <1>2, <1>5, <1>6
<1>9. QuietInv'
  BY <1>1, <1>6 DEF Order, QuietInv
<1> QED
  BY <1>7, <1>8, <1>9 DEF Order

(* The commands that stop a daemon.                                        *)
LEMMA StopsInOrder ==
  ASSUME Typed, PathInv, Order, NEW c \in Command, Stops(c), ~ unidentified'
  PROVE  Order'
<1>0. ProcessesTyped /\ SystemTyped /\ CommandsTyped
  BY DEF Typed
<1>c. /\ \A d \in Command : d # c => cmd'[d] = cmd[d]
      /\ cmd'[c].at # "done" => cmd'[c].op = cmd[c].op
      /\ ~ Idle(c)
  BY CommandsGoOn
<1>f. Daemons \subseteq {RunningDaemonPid} /\ (RunningDaemonPid = None => Daemons = {})
  BY <1>c, FoundAll
<1>g. cmd[c].op \in Op /\ cmd[c].pid \in Pid \cup {None}
  BY <1>0 DEF CommandsTyped
<1>h. /\ HasStopped(c) \in Place /\ HasStopped(c) \notin {"ask", "signal", "wait"}
      /\ StillRuns(c) \in Place /\ StillRuns(c) \notin {"ask", "signal", "wait", "activate"}
      /\ "wait" \in Place /\ "ask" \in Place /\ "signal" \in Place
  BY DEF HasStopped, StillRuns, Place
<1>t. ASSUME NEW at \in Place, To(c, at)
      PROVE  cmd'[c].at = at /\ (at # "done" => cmd'[c].pid = cmd[c].pid)
  <2>1. /\ cmd'[c].at = at
        /\ at # "done" => cmd'[c] = [op |-> cmd[c].op, at |-> at, pid |-> cmd[c].pid]
    BY <1>0, <1>t, ToTouchesOne
  <2> QED
    BY <2>1
<1>1. CASE Find(c)
  <2>1. UNCHANGED <<phase, stopping, pidFile, stopped>>
    BY <1>1 DEF Find, processes, files, history
  <2>2. NobodyComes /\ Daemons' = Daemons
    BY <2>1, NothingMoves
  <2>3. CASE RunningDaemonPid = None
    <3>1. cmd'[c].at \notin {"ask", "signal", "wait"} /\ Daemons' = {}
      BY <2>2, <2>3, <1>1, <1>f, <1>h, <1>t DEF Find
    <3> QED
      BY <3>1, <2>1, <2>2, <1>c, OrderOfOne
  <2>4. CASE RunningDaemonPid # None
    <3>1. Go(c, cmd[c].op, "ask", RunningDaemonPid) /\ RunningDaemonPid \in Pid \cup {None}
      BY <2>4, <1>1, <1>0, FoundIsAlive DEF Find
    <3>2. cmd'[c] = [op |-> cmd[c].op, at |-> "ask", pid |-> RunningDaemonPid]
      BY <3>1, <1>0, <1>g, <1>h, GoTouchesOne
    <3> QED
      BY <3>2, <2>1, <2>2, <1>c, <1>f, OrderOfOne
  <2> QED
    BY <2>3, <2>4
<1>2. ASSUME NEW p \in Pid, phase[p] \in Live, StopRequest(p), To(c, "wait") \/ To(c, "signal"),
             UNCHANGED <<pidFile, stopped>>, cmd[c].at \in {"ask", "signal"}
      PROVE  Order'
  <2>1. NobodyComes /\ \A q \in Daemons' : q = p /\ stopping'[q]
    BY <1>2, StopComesAlone
  <2>2. Daemons \subseteq {cmd[c].pid} /\ \A q \in Daemons' : q \in Daemons
    BY <2>1, <1>2, <1>c DEF Order, CommandInv, NobodyComes, Daemons
  <2>3. cmd'[c].at \in {"wait", "signal"} /\ cmd'[c].pid = cmd[c].pid
    BY <1>2, <1>h, <1>t
  <2> QED
    BY <2>1, <2>2, <2>3, <1>2, <1>c, OrderOfOne
<1>3. CASE Ask(c)
  <2>1. socket \in Pid /\ phase[socket] \in Live
    BY <1>3, <1>0 DEF Ask, Answers, SystemTyped, Live
  <2> QED
    BY <2>1, <1>2, <1>3 DEF Ask, files, history
<1>4. ASSUME UNCHANGED <<phase, stopping, pidFile, stopped>>, To(c, "signal"), cmd[c].at = "ask"
      PROVE  Order'
  <2>1. NobodyComes /\ Daemons' = Daemons
    BY <1>4, NothingMoves
  <2>2. Daemons \subseteq {cmd[c].pid}
    BY <1>4, <1>c DEF Order, CommandInv
  <2>3. cmd'[c].at = "signal" /\ cmd'[c].pid = cmd[c].pid
    BY <1>4, <1>h, <1>t
  <2> QED
    BY <2>1, <2>2, <2>3, <1>4, <1>c, OrderOfOne
<1>6. CASE AskInVain(c)
  BY <1>4, <1>6 DEF AskInVain, processes, files, history
<1>7. CASE Signal(c)
  <2>1. cmd[c].pid \in Pid
    BY <1>7 DEF Signal, PathInv, PathOf
  <2> QED
    BY <2>1, <1>2, <1>7 DEF Signal, files, history
<1>8. ASSUME NotRunning(c), UNCHANGED <<phase, stopping, stopped>>,
             NobodyComes, HasStopped(c) = "activate" => Daemons = {}
      PROVE  Order'
  <2>1. cmd'[c].at = HasStopped(c)
    BY <1>8, <1>0, NotRunningTouchesOne
  <2>2. Daemons' = Daemons
    BY <1>8 DEF Daemons
  <2> QED
    BY <2>1, <2>2, <1>8, <1>c, <1>h, OrderOfOne
<1>9. CASE Forget(c)
  <2>1. Daemons \subseteq {cmd[c].pid} /\ phase[cmd[c].pid] = "stranger"
    BY <1>9, <1>c DEF Forget, Order, CommandInv
  <2>2. Daemons = {}
    BY <2>1 DEF Daemons, Live
  <2>3. UNCHANGED <<phase, stopping, stopped>> /\ NotRunning(c)
    BY <1>9 DEF Forget, processes, history
  <2>4. NobodyComes
    BY <2>2, <2>3 DEF NobodyComes, Daemons
  <2> QED
    BY <2>2, <2>3, <2>4, <1>8
<1>10. CASE TakeForGone(c)
  <2>1. UNCHANGED <<phase, stopping, pidFile, stopped>> /\ NotRunning(c)
    BY <1>10 DEF TakeForGone, processes, files
  <2>2. HasStopped(c) = "activate" => Daemons = {}
    <3>1. Daemons \subseteq {cmd[c].pid}
      BY <1>10, <1>c DEF TakeForGone, Order, CommandInv
    <3>2. HasStopped(c) = "activate" => phase[cmd[c].pid] \notin Live
      BY <1>10 DEF TakeForGone
    <3> QED
      BY <3>1, <3>2 DEF Daemons
  <2> QED
    BY <2>1, <2>2, <1>8, NothingMoves
<1>5. CASE Wait(c)
  <2>1. UNCHANGED <<phase, stopping, pidFile>> /\ cmd[c].at = "wait"
    BY <1>5 DEF Wait, processes, files
  <2>2. NobodyComes /\ Daemons' = Daemons
    BY <2>1, NothingMoves
  <2>3. CASE ~ IsAlive(cmd[c].pid)
    <3>1. Daemons' = {}
      BY <2>1, <2>2, <2>3, <1>c DEF Order, CommandInv, Daemons, IsAlive, Pid, None
    <3>2. To(c, HasStopped(c)) /\ stopped' = (stopped \/ cmd[c].op = "stop")
      BY <2>3, <1>5 DEF Wait
    <3>3. cmd'[c].at \notin {"ask", "signal", "wait"}
      BY <3>2, <1>h, <1>t
    <3> QED
      BY <3>1, <3>2, <3>3, <2>2, <1>c, OrderOfOne
  <2>4. CASE IsAlive(cmd[c].pid)
    <3>1. To(c, StillRuns(c)) /\ UNCHANGED stopped
      BY <2>4, <1>5 DEF Wait
    <3>2. cmd'[c].at \notin {"ask", "signal", "wait", "activate"}
      BY <3>1, <1>h, <1>t
    <3> QED
      BY <3>1, <3>2, <2>2, <1>c, OrderOfOne
  <2> QED
    BY <2>3, <2>4
<1> QED
  BY <1>1, <1>3, <1>5, <1>6, <1>7, <1>9, <1>10 DEF Stops

(* The commands that start one, and what service managers are told.        *)
LEMMA MovesInOrder ==
  ASSUME Typed, PathInv, Order, NEW c \in Command, Moves(c)
  PROVE  Order'
<1>0. ProcessesTyped /\ SystemTyped /\ CommandsTyped /\ PathOf(cmd[c])
  BY DEF Typed, PathInv
<1>c. /\ \A d \in Command : d # c => cmd'[d] = cmd[d]
      /\ cmd'[c].at # "done" => cmd'[c].op = cmd[c].op
      /\ ~ Idle(c)
  BY CommandsGoOn
<1>f. Daemons \subseteq {RunningDaemonPid} /\ (RunningDaemonPid = None => Daemons = {})
  BY <1>c, FoundAll
<1>h. "done" \in Place /\ "find" \in Place /\ "check" \in Place
  BY DEF Place
<1>t. ASSUME NEW at \in Place, To(c, at) PROVE cmd'[c].at = at
  BY <1>0, <1>t, ToTouchesOne
<1>1. ASSUME Daemons = {}, Unused # {}, phase' = SpawnInto(phase), UNCHANGED stopped,
             To(c, "done"), cmd[c].at \in {"check", "activate"}
      PROVE  Order'
  <2>1. \A q \in Pid : phase'[q] \in Live => q = Spawn /\ phase'[q] = "boot"
    <3>1. \A q \in Pid : phase[q] \notin Live
      BY <1>1 DEF Daemons
    <3>2. installed \in 0..2
      BY <1>0 DEF SystemTyped
    <3> QED
      BY <3>1, <3>2, <1>0, <1>1, SpawnTouchesOne
  <2>2. cmd'[c].at = "done"
    BY <1>1, <1>h, <1>t
  <2>3. \A d \in Command : Idle(d)'
    BY <2>2, <1>c DEF Order, AloneInv, Idle
  <2>4. ~ stopped'
    BY <1>1, <1>0, <1>c DEF PathOf, Order, CommandInv
  <2> QED
    BY <2>1, <2>3, <2>4, OrderOfNew
<1>2. ASSUME UNCHANGED <<phase, stopping, pidFile, stopped>>,
             NEW at \in {"done", "find", "check"}, To(c, at)
      PROVE  Order'
  <2>1. NobodyComes
    BY <1>2, NothingMoves
  <2>2. cmd'[c].at = at
    BY <1>2, <1>h, <1>t
  <2> QED
    BY <2>1, <2>2, <1>2, <1>c, OrderOfOne
<1>3. CASE Check(c)
  <2>1. cmd[c].at = "check" /\ To(c, "done") /\ UNCHANGED stopped
    BY <1>3 DEF Check, history
  <2>2. PICK known \in BOOLEAN :
          IF Refuses(pidFile, known)
            THEN UNCHANGED <<processes, pidFile>>
            ELSE Unused # {} /\ phase' = SpawnInto(phase)
    BY <1>3 DEF Check
  <2>3. CASE Refuses(pidFile, known)
    <3>1. UNCHANGED <<phase, stopping, pidFile>>
      BY <2>2, <2>3 DEF processes
    <3> QED
      BY <3>1, <2>1, <1>2
  <2>4. CASE ~ Refuses(pidFile, known)
    <3>1. Daemons = {}
      BY <2>4, <1>f DEF Daemons, Refuses, RunningDaemonPid, IsAlive
    <3> QED
      BY <3>1, <2>2, <2>4, <2>1, <1>1
  <2> QED
    BY <2>3, <2>4
<1>4. CASE Deactivate(c)
  <2>1. UNCHANGED <<pidFile, stopped>>
    BY <1>4 DEF Deactivate, history
  <2>2. NobodyComes
    <3>1. CASE managed # None /\ phase[managed] \in Live
      <4>1. managed \in Pid /\ StopRequest(managed)
        BY <3>1, <1>0, <1>4 DEF Deactivate, SystemTyped
      <4> QED
        BY <3>1, <4>1, <2>1, StopComesAlone
    <3>2. CASE ~ (managed # None /\ phase[managed] \in Live)
      BY <3>2, <2>1, <1>4, NothingMoves DEF Deactivate
    <3> QED
      BY <3>1, <3>2
  <2>3. cmd'[c].at \in {"done", "find"}
    <3>1. To(c, "done") \/ To(c, "find")
      BY <1>4 DEF Deactivate
    <3> QED
      BY <3>1, <1>h, <1>t
  <2> QED
    BY <2>1, <2>2, <2>3, <1>c, OrderOfOne
<1>5. CASE DeactivateFails(c) \/ ActivateFails(c)
  <2>1. UNCHANGED <<phase, stopping, pidFile, stopped>>
    BY <1>5 DEF DeactivateFails, ActivateFails, processes, files, history
  <2>2. To(c, "done") \/ To(c, "find") \/ To(c, "check")
    BY <1>5 DEF DeactivateFails, ActivateFails
  <2> QED
    BY <2>1, <2>2, <1>2
<1>6. CASE Activate(c)
  <2>1. cmd[c].at = "activate" /\ To(c, "done") /\ UNCHANGED stopped
    BY <1>6 DEF Activate, history
  <2>2. Daemons = {}
    BY <2>1, <1>c DEF Order, CommandInv
  <2>3. ~ (managed # None /\ phase[managed] \in Live)
    BY <2>2, <1>0 DEF Daemons, SystemTyped
  <2>4. Unused # {} /\ phase' = SpawnInto(phase)
    BY <2>3, <1>6 DEF Activate
  <2> QED
    BY <2>1, <2>2, <2>4, <1>1
<1> QED
  BY <1>3, <1>4, <1>5, <1>6 DEF Moves

(* Once commands have overlapped they have.                                *)
LEMMA OrderIsKept == IInv /\ [Next]_vars => OrderInv'
<1> SUFFICES ASSUME Typed, PathInv, OrderInv, [Next]_vars, ~ raced', ~ unidentified' PROVE Order'
  BY DEF IInv, OrderInv
<1>1. ~ raced /\ ~ unidentified
  <2> DEFINE Remembered ==
        \/ UNCHANGED history
        \/ raced' = raced /\ unidentified' = unidentified
        \/ (raced => raced') /\ (unidentified => unidentified')
  <2>1. Remembered
    <3>1. ASSUME NEW p \in Pid, Runs(p) \/ Crash(p) \/ Recycle(p) PROVE Remembered
      BY <3>1, Zenon DEF Runs, Bind, Advertise, Watch, Work, WorkEnds, Drain, Close, Leave,
         LeaveFor, Crash, Recycle
    <3>2. ASSUME NEW c \in Command, Stops(c) PROVE Remembered
      BY <3>2, Zenon DEF Stops, Find, Ask, AskInVain, Signal, Forget, TakeForGone, Wait
    <3>3. ASSUME NEW c \in Command, Moves(c) PROVE Remembered
      BY <3>3, Zenon DEF Moves, Check, Deactivate, DeactivateFails, Activate, ActivateFails
    <3>4. ASSUME NEW c \in Command, NEW op \in Operations, Invoke(c, op) PROVE Remembered
      BY <3>4, Zenon DEF Invoke
    <3>5. CASE Upgrade \/ ManagerRespawns
      BY <3>5, Zenon DEF Upgrade, ManagerRespawns
    <3>6. CASE UNCHANGED vars
      BY <3>6, Zenon DEF vars
    <3> HIDE DEF Remembered
    <3> QED
      BY <3>1, <3>2, <3>3, <3>4, <3>5, <3>6 DEF Next
  <2>2. UNCHANGED history => raced' = raced /\ unidentified' = unidentified
    BY DEF history
  <2> QED
    BY <2>1, <2>2
<1>2. Order
  BY <1>1 DEF OrderInv
<1>3. ASSUME NEW p \in Pid, Runs(p) \/ Crash(p) \/ Recycle(p) PROVE Order'
  BY <1>2, <1>3, RunsInOrder
<1>4. ASSUME NEW c \in Command, Stops(c) PROVE Order'
  BY <1>2, <1>4, StopsInOrder
<1>5. ASSUME NEW c \in Command, Moves(c) PROVE Order'
  BY <1>2, <1>5, MovesInOrder
<1>6. ASSUME NEW c \in Command, NEW op \in Operations, Invoke(c, op) PROVE Order'
  BY <1>2, <1>6, InvokeInOrder
<1>7. CASE ManagerRespawns
  BY <1>2, <1>7, ManagerInOrder
<1>8. CASE Upgrade \/ UNCHANGED vars
  <2>1. UNCHANGED <<phase, stopping, pidFile, cmd, stopped>>
    BY <1>8 DEF Upgrade, vars, processes, files, history
  <2> QED
    BY <2>1, <1>2, NothingMoves, OrderAlone
<1> QED
  BY <1>3, <1>4, <1>5, <1>6, <1>7, <1>8 DEF Next

-----------------------------------------------------------------------------
(* Theorems                                                                *)

LEMMA IInvInitially == Init => IInv
<1> SUFFICES ASSUME Init PROVE IInv
  OBVIOUS
<1>1. Typed
  BY TypedInitially
<1>2. \A c \in Command : Idle(c) /\ cmd[c].at = "none" /\ cmd[c].op = "none"
  BY DEF Init, Idle
<1>3. Daemons = {}
  BY DEF Init, Daemons, Live
<1>4. PathInv
  BY <1>2 DEF PathInv, PathOf
<1>5. OrderInv
  BY <1>2, <1>3 DEF OrderInv, Order, AloneInv, CommandInv, QuietInv
<1> QED
  BY <1>1, <1>4, <1>5 DEF IInv

LEMMA Inductive == Spec => []IInv
<1>1. IInv /\ [Next]_vars => IInv'
  BY TypesAreKept, PathsAreKept, OrderIsKept DEF IInv
<1> QED
  BY <1>1, IInvInitially, PTL DEF Spec

(* However many processes, commands and crashes: commands that do not      *)
(* overlap, and that wait for a daemon that is coming up, never lead to    *)
(* two daemons (startDetachedDaemon's check, gracefulStopDaemon's wait),   *)
(* whether a daemon answers or not, is identified or not, but for the      *)
(* installation or restart of a service past a live one that is neither.   *)
THEOREM NeverTwoDaemons == Spec => []OneDaemon
<1>1. IInv => OneDaemon
  <2> SUFFICES ASSUME IInv, ~ raced, ~ unidentified PROVE Cardinality(Daemons) <= 1
    BY DEF OneDaemon
  <2>1. \A p, q \in Daemons : p = q
    BY DEF IInv, OrderInv, Order, AloneInv
  <2>2. CASE Daemons = {}
    BY <2>2, FS_EmptySet
  <2>3. CASE Daemons # {}
    <3>1. PICK p : Daemons = {p}
      BY <2>1, <2>3
    <3>2. Cardinality({p}) = 1
      BY FS_Singleton
    <3> QED
      BY <3>1, <3>2
  <2> QED
    BY <2>2, <2>3
<1> QED
  BY <1>1, Inductive, PTL

(* After a confirmed stop the daemon is gone and no handover of an upgrade *)
(* brings one back, until a command or a manager asks for one; with the    *)
(* exceptions of OneDaemon.                                                *)
THEOREM StopsAreKept == Spec => []StopIsKept
<1>1. IInv => StopIsKept
  BY DEF IInv, OrderInv, Order, QuietInv, StopIsKept
<1> QED
  BY <1>1, Inductive, PTL

(* Whatever the pid file says, no step of a command, of a daemon or of a   *)
(* service manager touches a process that is not a daemon                  *)
(* (daemonPidIdentity before the signal).                                  *)
THEOREM StrangersAreNeverTouched == Spec => StrangersAreSpared
<1>1. IInv /\ [Next]_vars => [\A p \in Pid : phase[p] = "stranger" => phase'[p] = "stranger"]_vars
  BY StrangersStay DEF IInv
<1> QED
  BY <1>1, Inductive, PTL DEF Spec, StrangersAreSpared
=============================================================================
