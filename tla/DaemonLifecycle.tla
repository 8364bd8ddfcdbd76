-------------------------- MODULE DaemonLifecycle --------------------------
(***************************************************************************)
(* The daemon as a process of one state directory: how it comes up (daemon *)
(* run in cli/index.js, createControlServer), how the commands start,      *)
(* stop, restart, install and uninstall find and move it                   *)
(* (cli/daemon-lifecycle.js), how it notices an upgrade, drains and hands  *)
(* over to its successor (cli/upgrade-watch.js), and what the service      *)
(* manager does with a daemon it owns (cli/service.js).                    *)
(*                                                                         *)
(* The processes know one another only by the pid file and the socket,     *)
(* which live processes overwrite and dead ones leave behind, and by pids, *)
(* which the system gives to strangers.  What the daemon does with its     *)
(* queue is the business of EventQueue; here it is busy or not.            *)
(***************************************************************************)
EXTENDS Naturals, FiniteSets

CONSTANTS
  MaxPid,       \* bound on daemon processes
  Command,      \* invocations of m87, numbered as they are given
  Operations,   \* which operations they may be
  Managers,     \* the service managers this may run under
  MaxCrashes    \* bound on daemon deaths

Pid == 1..MaxPid
None == 0

ASSUME DaemonAssumption ==
  /\ MaxPid \in Nat \ {0} /\ MaxCrashes \in Nat /\ Command \subseteq Nat
  /\ Operations \subseteq {"start", "stop", "restart", "install", "uninstall"}
  /\ Managers \subseteq {"launchd", "systemd"}

VARIABLES
  phase,     \* [Pid -> what the process is], a daemon when in Live
  code,      \* [Pid -> the version it has in memory]
  stopping, draining, aborted,  \* [Pid -> BOOLEAN], of the daemon
  seen,      \* [Pid -> BOOLEAN], pendingVersion of its upgrade watcher
  busy,      \* [Pid -> BOOLEAN], it has effects in flight
  failed,    \* [Pid -> BOOLEAN], it exited with a non-zero code
  pidFile, socket,  \* the pid in the file, the process behind the address
  installed, \* version on disk, 0 while it cannot be read
  manager,   \* the service manager of this system
  unit,      \* the unit file exists
  loaded,    \* the manager has the unit
  managed,   \* the process the manager has started last
  cmd,       \* [Command -> where the invocation is]
  raced,     \* history: starts or commands have overlapped
  unidentified, \* history: an installation or a restart of the service went on
             \* past a live daemon of which ps said nothing
  stopped,   \* history: a stop was confirmed, and since then neither a
             \* command nor a manager that has the unit asked for a daemon
  crashes    \* history

processes == <<phase, code, stopping, draining, aborted, seen, busy, failed>>
files == <<pidFile, socket, installed, unit>>
service == <<manager, loaded, managed>>
history == <<raced, unidentified, stopped, crashes>>
vars == <<processes, files, service, cmd, history>>

Live == {"boot", "bound", "serving", "closing"}
Daemons == {p \in Pid : phase[p] \in Live}

(* isAlive cannot tell a daemon from a stranger with its pid.              *)
IsAlive(p) == p # None /\ phase[p] \in Live \cup {"stranger"}

RunningDaemonPid == IF IsAlive(pidFile) THEN pidFile ELSE None

(* daemonPidIdentity can, unless ps fails.  startDetachedDaemon starts     *)
(* nothing beside a process that may be a daemon.                          *)
Refuses(p, known) == IsAlive(p) /\ (phase[p] \in Live \/ ~ known)

Idle(c) == cmd[c].at \in {"none", "done"}
Elsewhere(c) == \E d \in Command \ {c} : ~ Idle(d)

(* A daemon is on its way that no file speaks of.                          *)
RespawnIsDue ==
  /\ loaded /\ managed # None /\ phase[managed] \notin Live
  /\ manager = "launchd" \/ failed[managed]

Pending == RespawnIsDue \/ \E p \in Pid : phase[p] \in {"boot", "bound"}

-----------------------------------------------------------------------------
(* Processes                                                               *)

Unused == {p \in Pid : phase[p] = "none"}

(* A new daemon process, of the version on disk, with a pid of its own.    *)
Spawn == CHOOSE p \in Unused : TRUE

SpawnInto(ph) == [ph EXCEPT ![Spawn] = "boot"]
SpawnCode == [code EXCEPT ![Spawn] = installed]

(* stop(): the first request aborts the loop, the second one the process.  *)
(* A process that has not come as far as its handlers dies of a signal.    *)
StopRequest(p) ==
  IF phase[p] = "boot" \/ stopping[p]
  THEN /\ phase' = [phase EXCEPT ![p] = "dead"]
       /\ failed' = [failed EXCEPT ![p] = TRUE]
       /\ UNCHANGED <<stopping, aborted>>
  ELSE /\ stopping' = [stopping EXCEPT ![p] = TRUE]
       /\ aborted' = [aborted EXCEPT ![p] = TRUE]
       /\ UNCHANGED <<phase, failed>>

(* createControlServer takes the address over from whoever has it.         *)
Bind(p) ==
  /\ phase[p] = "boot"
  /\ phase' = [phase EXCEPT ![p] = "bound"]
  /\ socket' = p
  /\ UNCHANGED <<code, stopping, draining, aborted, seen, busy, failed,
                 pidFile, installed, unit, service, cmd, history>>

Advertise(p) ==
  /\ phase[p] = "bound"
  /\ phase' = [phase EXCEPT ![p] = "serving"]
  /\ pidFile' = p
  /\ UNCHANGED <<code, stopping, draining, aborted, seen, busy, failed,
                 socket, installed, unit, service, cmd, history>>

Working(p) == phase[p] = "serving" /\ ~ aborted[p]

(* createUpgradeWatcher.check: twice the same new version.                 *)
Watch(p) ==
  /\ Working(p) /\ ~ draining[p]
  /\ installed # code[p]
  /\ seen' = [seen EXCEPT ![p] = installed # 0]
  /\ draining' = [draining EXCEPT ![p] = seen[p] /\ installed # 0]
  /\ UNCHANGED <<phase, code, stopping, aborted, busy, failed,
                 files, service, cmd, history>>

(* A tick starts effects, but not while draining.                          *)
Work(p) ==
  /\ Working(p) /\ ~ draining[p]
  /\ busy' = [busy EXCEPT ![p] = TRUE]
  /\ UNCHANGED <<phase, code, stopping, draining, aborted, seen, failed,
                 files, service, cmd, history>>

WorkEnds(p) ==
  /\ phase[p] = "serving" /\ busy[p]
  /\ busy' = [busy EXCEPT ![p] = FALSE]
  /\ UNCHANGED <<phase, code, stopping, draining, aborted, seen, failed,
                 files, service, cmd, history>>

DrainPatiently(p) ==  \* mutant: the drain waits for every effect
  /\ Working(p) /\ draining[p] /\ ~ busy[p]
  /\ aborted' = [aborted EXCEPT ![p] = TRUE]
  /\ UNCHANGED <<phase, code, stopping, draining, seen, busy, failed,
                 files, service, cmd, history>>

(* The drain ends when the daemon is not busy any more, or at its deadline *)
(* (drainDeadline), which may come at any time.                            *)
Drain(p) ==
  /\ Working(p) /\ draining[p]
  /\ aborted' = [aborted EXCEPT ![p] = TRUE]
  /\ UNCHANGED <<phase, code, stopping, draining, seen, busy, failed,
                 files, service, cmd, history>>

(* The loop ends; closing the server removes the address, whoever has it   *)
(* by now.  Then effects have 1.5 s.                                       *)
Close(p) ==
  /\ phase[p] = "serving" /\ aborted[p]
  /\ phase' = [phase EXCEPT ![p] = "closing"]
  /\ socket' = None
  /\ UNCHANGED <<code, stopping, draining, aborted, seen, busy, failed,
                 pidFile, installed, unit, service, cmd, history>>

(* The rest of daemon run is one synchronous piece: cleanupPid, and after  *)
(* a drain the handover, to the service manager if there is a unit, or to  *)
(* a detached daemon, unless startDetachedDaemon refuses.                  *)
LeaveFor(p, heir, known) ==
  LET file == IF pidFile = p THEN None ELSE pidFile
      spawns == heir /\ ~ unit /\ ~ Refuses(file, known) IN
  /\ phase[p] = "closing"
  /\ spawns => Unused # {}
  /\ pidFile' = IF spawns /\ IsAlive(file) THEN None ELSE file
  /\ failed' = [failed EXCEPT ![p] = heir /\ unit]
  /\ phase' = IF spawns THEN SpawnInto([phase EXCEPT ![p] = "dead"])
                        ELSE [phase EXCEPT ![p] = "dead"]
  /\ code' = IF spawns THEN SpawnCode ELSE code
  /\ raced' = (raced \/ (heir /\ \E c \in Command : ~ Idle(c) /\ cmd[c].at # "wait"))
  /\ UNCHANGED <<stopping, draining, aborted, seen, busy,
                 socket, installed, unit, service, cmd, unidentified, stopped, crashes>>

LeaveAndRespawn(p) ==  \* mutant: a stop does not win
  \E known \in BOOLEAN : LeaveFor(p, draining[p], known)

Leave(p) == \E known \in BOOLEAN : LeaveFor(p, draining[p] /\ ~ stopping[p], known)

Crash(p) ==
  /\ phase[p] \in Live
  /\ crashes < MaxCrashes
  /\ phase' = [phase EXCEPT ![p] = "dead"]
  /\ failed' = [failed EXCEPT ![p] = TRUE]
  /\ crashes' = crashes + 1
  /\ UNCHANGED <<code, stopping, draining, aborted, seen, busy,
                 files, service, cmd, raced, unidentified, stopped>>

(* The system gives the pid away.                                          *)
Recycle(p) ==
  /\ phase[p] = "dead" /\ pidFile = p
  /\ phase' = [phase EXCEPT ![p] = "stranger"]
  /\ UNCHANGED <<code, stopping, draining, aborted, seen, busy, failed,
                 files, service, cmd, history>>

(* npm replaces the package: at first there is nothing to be read.         *)
Upgrade ==
  /\ installed # 2
  /\ installed' = IF installed = 1 THEN 0 ELSE 2
  /\ UNCHANGED <<processes, pidFile, socket, unit, service, cmd, history>>

(* KeepAlive, or Restart=on-failure.                                       *)
ManagerRespawns ==
  /\ RespawnIsDue /\ Unused # {} /\ installed # 0
  /\ phase' = SpawnInto(phase) /\ code' = SpawnCode
  /\ managed' = Spawn
  /\ raced' = (raced \/ Daemons # {} \/ \E c \in Command : ~ Idle(c))
  /\ stopped' = (stopped /\ ~ loaded)
  /\ UNCHANGED <<stopping, draining, aborted, seen, busy, failed,
                 files, manager, loaded, cmd, unidentified, crashes>>

-----------------------------------------------------------------------------
(* Commands                                                                *)

(* Of an invocation that is done nothing else is kept.                     *)
Over == [op |-> "none", at |-> "done", pid |-> None]

Go(c, op, at, pid) ==
  cmd' = [cmd EXCEPT ![c] = IF at = "done" THEN Over ELSE [op |-> op, at |-> at, pid |-> pid]]
At(c, ops, at) == cmd[c].op \in ops /\ cmd[c].at = at
To(c, at) == Go(c, cmd[c].op, at, cmd[c].pid)

Invoke(c, op) ==
  /\ cmd[c].at = "none" /\ \A d \in Command : d < c => cmd[d].at # "none"
  /\ installed # 0
  /\ CASE op = "start" -> Go(c, op, "check", None)
       [] op = "stop" -> Go(c, op, "find", None)
       [] op = "restart" -> IF unit THEN Go(c, "managed_restart", "deactivate", None)
                                    ELSE Go(c, op, "find", None)
       [] op = "install" -> Go(c, IF unit THEN "reinstall" ELSE op,
                               IF RunningDaemonPid = None THEN "activate" ELSE "find", None)
       [] op = "uninstall" -> Go(c, op, IF unit THEN "deactivate" ELSE "done", None)
  /\ raced' = (raced \/ Pending \/ Elsewhere(c))
  /\ stopped' = (stopped /\ op \in {"stop", "uninstall"})
  /\ UNCHANGED <<processes, files, service, unidentified, crashes>>

HasStopped(c) ==
  CASE cmd[c].op = "stop" -> "done" [] cmd[c].op = "restart" -> "check" [] OTHER -> "activate"

InstallsAnyway(c) ==  \* mutant: an installation does not mind
  IF cmd[c].op \in {"install", "reinstall"} THEN "activate"
  ELSE IF cmd[c].op = "restart" THEN "check" ELSE "done"

(* ... still alive: stop_failed, except that an unmanaged restart goes     *)
(* through startDetachedDaemon to find it out.                             *)
StillRuns(c) == IF cmd[c].op = "restart" THEN "check" ELSE "done"

(* gracefulStopDaemon: who is there?                                       *)
Find(c) ==
  /\ cmd[c].at = "find"
  /\ IF RunningDaemonPid = None THEN To(c, HasStopped(c))
                                ELSE Go(c, cmd[c].op, "ask", RunningDaemonPid)
  /\ UNCHANGED <<processes, files, service, history>>

Answers == socket # None /\ phase[socket] \in {"bound", "serving"}

(* "stop" over the control channel.  The answer may come too late, and of  *)
(* a process that this request ends it never comes.                        *)
Ask(c) ==
  /\ cmd[c].at = "ask" /\ Answers
  /\ StopRequest(socket)
  /\ \/ To(c, "wait") /\ phase'[socket] # "dead"
     \/ To(c, "signal")
  /\ UNCHANGED <<code, draining, seen, busy, files, service, history>>

(* Nobody is there to answer, or is too busy to within 3 s.                *)
AskInVain(c) ==
  /\ cmd[c].at = "ask"
  /\ To(c, "signal")
  /\ UNCHANGED <<processes, files, service, history>>

SignalAnyone(c) ==  \* mutant: daemonPidIdentity is not asked
  /\ cmd[c].at = "signal"
  /\ IsAlive(cmd[c].pid)
  /\ StopRequest(cmd[c].pid)
  /\ To(c, "wait")
  /\ UNCHANGED <<code, draining, seen, busy, files, service, history>>

(* A signal instead, but only to what is known to be a daemon.             *)
Signal(c) ==
  /\ cmd[c].at = "signal"
  /\ phase[cmd[c].pid] \in Live
  /\ StopRequest(cmd[c].pid)
  /\ To(c, "wait")
  /\ UNCHANGED <<code, draining, seen, busy, files, service, history>>

(* not_running: no pid goes with it.                                       *)
NotRunning(c) == Go(c, cmd[c].op, HasStopped(c), None)

(* The pid is a stranger's and is forgotten.                               *)
Forget(c) ==
  /\ cmd[c].at = "signal"
  /\ phase[cmd[c].pid] = "stranger"
  /\ pidFile' = None
  /\ NotRunning(c)
  /\ UNCHANGED <<processes, socket, installed, unit, service, history>>

(* ps fails, on a pid that is nobody's any more or for reasons of its own: *)
(* not_running too, and the pid file stays.                                *)
TakeForGone(c) ==
  /\ cmd[c].at = "signal"
  /\ NotRunning(c)
  /\ unidentified' = (unidentified \/ (phase[cmd[c].pid] \in Live /\ HasStopped(c) = "activate"))
  /\ UNCHANGED <<processes, files, service, raced, stopped, crashes>>

Wait(c) ==
  /\ cmd[c].at = "wait"
  /\ \/ ~ IsAlive(cmd[c].pid) /\ To(c, HasStopped(c))
          /\ stopped' = (stopped \/ cmd[c].op = "stop")
     \/ IsAlive(cmd[c].pid) /\ To(c, StillRuns(c)) /\ UNCHANGED stopped
  /\ UNCHANGED <<processes, files, service, raced, unidentified, crashes>>

(* startDetachedDaemon: checked and spawned in one piece.                  *)
Check(c) ==
  /\ cmd[c].at = "check"
  /\ \E known \in BOOLEAN :
     IF Refuses(pidFile, known)
       THEN UNCHANGED <<processes, pidFile>>
       ELSE /\ Unused # {} /\ installed # 0
            /\ phase' = SpawnInto(phase) /\ code' = SpawnCode
            /\ pidFile' = IF RunningDaemonPid # None THEN None ELSE pidFile
            /\ UNCHANGED <<stopping, draining, aborted, seen, busy, failed>>
  /\ To(c, "done")
  /\ UNCHANGED <<socket, installed, unit, service, history>>

(* The manager lets go of the unit and signals its process.                *)
Deactivate(c) ==
  /\ cmd[c].at = "deactivate"
  /\ loaded' = FALSE
  /\ IF managed # None /\ phase[managed] \in Live
       THEN StopRequest(managed)
       ELSE UNCHANGED <<phase, stopping, aborted, failed>>
  /\ unit' = (unit /\ cmd[c].op # "uninstall")
  /\ To(c, IF cmd[c].op = "uninstall" THEN "done" ELSE "find")
  /\ UNCHANGED <<code, draining, seen, busy, pidFile, socket, installed,
                 manager, managed, history>>

DeactivateFails(c) ==
  /\ cmd[c].at = "deactivate"
  /\ To(c, IF cmd[c].op = "uninstall" THEN "done" ELSE "find")
  /\ UNCHANGED <<processes, files, service, history>>

(* The unit is written, and the manager runs it unless it does already.    *)
Activate(c) ==
  /\ cmd[c].at = "activate"
  /\ unit' = TRUE /\ loaded' = TRUE
  /\ IF managed # None /\ phase[managed] \in Live
       THEN UNCHANGED <<phase, code, managed>>
       ELSE /\ Unused # {} /\ installed # 0
            /\ phase' = SpawnInto(phase) /\ code' = SpawnCode /\ managed' = Spawn
  /\ To(c, "done")
  /\ UNCHANGED <<stopping, draining, aborted, seen, busy, failed,
                 pidFile, socket, installed, manager, history>>

(* A first installation that stopped a daemon takes the unit back and      *)
(* brings the daemon back.                                                 *)
ActivateFails(c) ==
  /\ cmd[c].at = "activate"
  /\ IF cmd[c].op = "install" /\ cmd[c].pid # None
       THEN To(c, "check") /\ unit' = FALSE
       ELSE To(c, "done") /\ unit' = TRUE
  /\ UNCHANGED <<processes, pidFile, socket, installed, service, history>>

-----------------------------------------------------------------------------

Init ==
  /\ phase = [p \in Pid |-> "none"] /\ code = [p \in Pid |-> 0]
  /\ stopping = [p \in Pid |-> FALSE] /\ draining = [p \in Pid |-> FALSE]
  /\ aborted = [p \in Pid |-> FALSE] /\ seen = [p \in Pid |-> FALSE]
  /\ busy = [p \in Pid |-> FALSE]
  /\ failed = [p \in Pid |-> FALSE]
  /\ pidFile = None /\ socket = None /\ installed = 1
  /\ manager \in Managers /\ unit = FALSE /\ loaded = FALSE /\ managed = None
  /\ cmd = [c \in Command |-> [op |-> "none", at |-> "none", pid |-> None]]
  /\ raced = FALSE /\ unidentified = FALSE /\ stopped = FALSE /\ crashes = 0

Runs(p) ==
  \/ Bind(p) \/ Advertise(p) \/ Watch(p) \/ Work(p) \/ WorkEnds(p)
  \/ Drain(p) \/ Close(p) \/ Leave(p)

Stops(c) ==
  \/ Find(c) \/ Ask(c) \/ AskInVain(c)
  \/ Signal(c) \/ Forget(c) \/ TakeForGone(c) \/ Wait(c)

Moves(c) == Check(c) \/ Deactivate(c) \/ DeactivateFails(c) \/ Activate(c) \/ ActivateFails(c)

Next ==
  \/ \E p \in Pid : Runs(p) \/ Crash(p) \/ Recycle(p)
  \/ \E c \in Command : Stops(c) \/ Moves(c) \/ \E op \in Operations : Invoke(c, op)
  \/ Upgrade \/ ManagerRespawns

(* The daemon ticks, its clock runs, a process that is to end ends, and    *)
(* the manager does its work.  Effects need not end, nobody has to give a  *)
(* command or to upgrade.                                                  *)
GoesOn(p) == Bind(p) \/ Advertise(p) \/ Watch(p) \/ Drain(p) \/ Close(p) \/ Leave(p)

Fairness == (\A p \in Pid : WF_vars(GoesOn(p))) /\ WF_vars(ManagerRespawns)

Spec == Init /\ [][Next]_vars

FairSpec == Spec /\ Fairness

-----------------------------------------------------------------------------
(* Properties                                                              *)

(* Whoever gives one command at a time, and not while a daemon is coming   *)
(* up, never has two daemons ("rather than stacking a second instance on   *)
(* top of it"), however the daemons die, and through upgrades, timeouts,   *)
(* failing managers, pids that are given away and a ps that fails, with    *)
(* two exceptions.  Starts that overlap do stack: nothing locks the state  *)
(* directory.  And although installManagedService says that any running    *)
(* daemon is stopped first, an installation or a restart of the service    *)
(* takes a daemon that neither answers nor is identified for not running,  *)
(* and activates another; an unmanaged restart does not.                   *)
OneDaemon == ~ raced /\ ~ unidentified => Cardinality(Daemons) <= 1

(* No command ends a process that is not a daemon, though a dead daemon's  *)
(* pid file may name it.                                                   *)
StrangersAreSpared ==
  [][\A p \in Pid : phase[p] = "stranger" => phase'[p] = "stranger"]_vars

(* After a confirmed stop no daemon lives until a command asks for one,   *)
(* also when it came in the middle of an upgrade ("an operator stop that   *)
(* raced the drain wins").  A manager that still has the unit is another   *)
(* matter: launchd respawns whatever the exit code.  So is a second daemon *)
(* that the exceptions of OneDaemon let in: a stop ends one.               *)
StopIsKept == stopped /\ ~ raced /\ ~ unidentified => Daemons = {}

(* An upgrade reaches a running daemon, even one with a wedged effect.     *)
(* Excepted: a daemon that is told to stop or dies, and a session daemon   *)
(* beside a unit, which exits for a manager that does not own it.          *)
Outdated(p) == phase[p] = "serving" /\ installed = 2 /\ code[p] = 1

BesideItsUnit(p) == unit /\ ~ (loaded /\ managed = p)

UpgradeIsPickedUp ==
  \A p \in Pid : Outdated(p) ~>
    \/ \E q \in Daemons : code[q] = 2
    \/ stopping[p] \/ BesideItsUnit(p) \/ crashes > 0 \/ raced \/ unidentified \/ Unused = {}
=============================================================================
