------------------------------ MODULE DaemonLock ------------------------------
(***************************************************************************)
(* One daemon per socket: the pid file (daemon/src/lock.rs), the life of   *)
(* the daemon around it (daemon/src/lib.rs run, server.rs serve), and the  *)
(* commands that start, stop and restart it (vpsagent/src/main.rs:         *)
(* ensure_daemon, daemon_restart_sync, daemon stop).                       *)
(*                                                                         *)
(* The only shared state is two paths of the file system: the lock file,   *)
(* which holds the pid of its writer and is published with link(2), and    *)
(* the socket, which some process has bound.  Every system call is a step. *)
(***************************************************************************)
EXTENDS Naturals, FiniteSets

CONSTANTS
  Proc,        \* the processes that will run the daemon, each once
  Command,     \* the commands that start one: ensure_daemon or restart
  None

ASSUME NoneAssumption == None \notin Proc

\* A command is not a process of the daemon.
ASSUME ActorsAssumption == Proc \cap Command = {}

VARIABLES
  lockfile,   \* the process whose pid the lock file holds, or None
  socket,     \* the process that bound the socket the path names, or None
  pc,         \* pc[p]: where process p stands
  command,    \* command[k]: where command k stands
  found,      \* found[a]: whom a process read in the lock file, or a command found
              \*   serving, before it removes the file at the path; or None
  stolen      \* ghost: the paths that were removed from the process that had just
              \*   come to hold them, by somebody who had looked before

paths == <<lockfile, socket>>
lockVars == <<lockfile, socket, pc, command, found, stolen>>

ProcPlace ==
  {"idle",
   "acquire",   \* DaemonLock::acquire: does the lock file exist?
   "read",      \* it does: whose pid?
   "probe",     \* is that pid alive?
   "ghost",     \* its pid is dead or it is gone: remove it
   "link",      \* link the own pid file to the path
   "open",      \* lock held: open the storage
   "unbind",    \* serve: remove the file at the socket's path
   "bind",      \* bind the socket
   "listen",    \* bound, connections are refused still
   "serving",
   "closing",   \* shutdown: agents cancelled, socket to be removed
   "unlock",    \* DaemonLock is dropped: the lock file is removed
   "refused",   \* acquire returned Ok(None)
   "failed",    \* the own pid file was not written, or not linked for want of
                \*   something else than a free path
   "stopped", "crashed",
   "reused"}    \* crashed, and another program runs under its pid

Running(p) == pc[p] \notin {"idle", "refused", "failed", "stopped", "crashed", "reused"}

\* kill(pid, 0) succeeds: some process has that pid.
Alive(p) == Running(p) \/ pc[p] = "reused"

\* p has been told it is the daemon, and has not given that up.
Daemon(p) == pc[p] \in {"open", "unbind", "bind", "listen", "serving",
                       "closing", "unlock"}

LockInit ==
  /\ lockfile = None
  /\ socket = None
  /\ pc = [p \in Proc |-> "idle"]
  /\ command = [k \in Command |-> "idle"]
  /\ found = [a \in Proc \cup Command |-> None]
  /\ stolen = {}

Goto(p, place) == pc' = [pc EXCEPT ![p] = place]

-------------------------------------------------------------------------------
(* DaemonLock::acquire. *)

\* `vpsagent daemon` by hand.
Launch(p) ==
  /\ pc[p] = "idle"
  /\ Goto(p, "acquire")
  /\ UNCHANGED <<paths, command, found, stolen>>

CheckExists(p) ==
  /\ pc[p] = "acquire"
  /\ Goto(p, IF lockfile = None THEN "link" ELSE "read")
  /\ UNCHANGED <<paths, command, found, stolen>>

\* Whose pid the file holds; it may have gone meanwhile, or be replaced later.
ReadPid(p) ==
  /\ pc[p] = "read"
  /\ found' = [found EXCEPT ![p] = lockfile]
  /\ Goto(p, IF lockfile = None THEN "ghost" ELSE "probe")
  /\ UNCHANGED <<paths, command, stolen>>

\* A pid that was read is not probed.
ProbeNobody(p) ==
  /\ pc[p] = "probe"
  /\ Goto(p, "ghost")
  /\ UNCHANGED <<paths, command, found, stolen>>

\* The pid is alive: Ok(None), the daemon runs already.  It is dead: a ghost.
ProbePid(p) ==
  /\ pc[p] = "probe"
  /\ IF Alive(found[p])
       THEN Goto(p, "refused") /\ found' = [found EXCEPT ![p] = None]
       ELSE Goto(p, "ghost") /\ UNCHANGED found
  /\ UNCHANGED <<paths, command, stolen>>

\* A ghost is left where it is.
KeepGhost(p) ==
  /\ pc[p] = "ghost"
  /\ found' = [found EXCEPT ![p] = None]
  /\ Goto(p, "link")
  /\ UNCHANGED <<paths, command, stolen>>

\* remove_file of the path, whatever it names by now: the ghost that was read, or
\* the lock of another start that was faster.
RemoveGhost(p) ==
  /\ pc[p] = "ghost"
  /\ lockfile' = None
  /\ found' = [found EXCEPT ![p] = None]
  /\ stolen' = IF lockfile \notin {None, found[p]} THEN stolen \cup {"lock"} ELSE stolen
  /\ Goto(p, "link")
  /\ UNCHANGED <<socket, command>>

\* The file with the own pid cannot be created or written: run ends with the error.
PidFails(p) ==
  /\ pc[p] = "link"
  /\ Goto(p, "failed")
  /\ UNCHANGED <<paths, command, found, stolen>>

\* Publication with rename(2), which replaces what is there.
RenameLock(p) ==
  /\ pc[p] = "link"
  /\ lockfile' = p
  /\ Goto(p, "open")
  /\ UNCHANGED <<socket, command, found, stolen>>

\* link(2) does not replace an existing path: who links first is the daemon.  Any
\* other error of link(2) is taken for the same answer.
LinkLock(p) ==
  /\ pc[p] = "link"
  /\ \/ /\ lockfile = None
        /\ lockfile' = p
        /\ Goto(p, "open")
     \/ /\ lockfile # None
        /\ Goto(p, "refused")
        /\ UNCHANGED lockfile
     \/ /\ Goto(p, "failed")
        /\ UNCHANGED lockfile
  /\ UNCHANGED <<socket, command, found, stolen>>

-------------------------------------------------------------------------------
(* run and serve. *)

\* The storage opens, or run returns its error (and drops the lock).
OpenStorage(p) ==
  /\ pc[p] = "open"
  /\ Goto(p, "unbind") \/ Goto(p, "unlock")
  /\ UNCHANGED <<paths, command, found, stolen>>

RemoveOldSocket(p) ==
  /\ pc[p] = "unbind"
  /\ socket' = None
  /\ Goto(p, "bind")
  /\ UNCHANGED <<lockfile, command, found, stolen>>

\* bind fails on an existing path: run returns the error.
Bind(p) ==
  /\ pc[p] = "bind"
  /\ \/ /\ socket = None
        /\ socket' = p
        /\ Goto(p, "listen")
     \/ /\ socket # None
        /\ Goto(p, "unlock")
        /\ UNCHANGED socket
  /\ UNCHANGED <<lockfile, command, found, stolen>>

\* UnixListener::bind binds and listens, two system calls.
Listen(p) ==
  /\ pc[p] = "listen"
  /\ Goto(p, "serving")
  /\ UNCHANGED <<paths, command, found, stolen>>

\* SIGTERM, or DaemonStop answered Ok 150 ms earlier.
Stop(p) ==
  /\ pc[p] = "serving"
  /\ Goto(p, "closing")
  /\ UNCHANGED <<paths, command, found, stolen>>

\* The file at the socket's path is removed, whoever bound it.
CloseSocket(p) ==
  /\ pc[p] = "closing"
  /\ socket' = None
  /\ Goto(p, "unlock")
  /\ UNCHANGED <<lockfile, command, found, stolen>>

\* DaemonLock::drop: the file at the lock's path is removed, whosever it is,
\* and the process exits.
Unlock(p) ==
  /\ pc[p] = "unlock"
  /\ lockfile' = None
  /\ Goto(p, "stopped")
  /\ UNCHANGED <<socket, command, found, stolen>>

\* SIGKILL or a reboot: the files stay.
Crash(p) ==
  /\ Running(p)
  /\ Goto(p, "crashed")
  /\ UNCHANGED <<paths, command, found, stolen>>

\* The system gives the pid to another program.
PidReused(p) ==
  /\ pc[p] = "crashed"
  /\ Goto(p, "reused")
  /\ UNCHANGED <<paths, command, found, stolen>>

-------------------------------------------------------------------------------
(* The commands. *)

Listens(p) == pc[p] \in {"listen", "serving"}
Answers == socket # None /\ pc[socket] = "serving"

\* ensure_daemon that does not look whether the daemon serves.
EnsureUnprobed(k) ==
  /\ command[k] = "idle"
  /\ command' = [command EXCEPT ![k] = "clean"]
  /\ found' = [found EXCEPT ![k] = IF Answers THEN socket ELSE None]
  /\ UNCHANGED <<paths, pc, stolen>>

\* ensure_daemon: a socket that accepts is enough.
Ensure(k) ==
  /\ command[k] = "idle"
  /\ command' = [command EXCEPT ![k] = IF Answers THEN "done" ELSE "clean"]
  /\ UNCHANGED <<paths, pc, found, stolen>>

\* If the path exists by now it is removed, whoever has bound it since.
CleanSocket(k) ==
  /\ command[k] = "clean"
  /\ socket' = None
  /\ found' = [found EXCEPT ![k] = None]
  /\ stolen' = IF socket \notin {None, found[k]} /\ Listens(socket)
                 THEN stolen \cup {"socket"} ELSE stolen
  /\ command' = [command EXCEPT ![k] = "spawn"]
  /\ UNCHANGED <<lockfile, pc>>

\* `vpsagent daemon restart`: DaemonStop to the daemon that answers ...
Restart(k) ==
  /\ command[k] = "idle"
  /\ IF Answers
       THEN /\ pc' = [pc EXCEPT ![socket] = "closing"]
            /\ command' = [command EXCEPT ![k] = "stopping"]
       ELSE /\ command' = [command EXCEPT ![k] = "spawn"]
            /\ UNCHANGED pc
  /\ UNCHANGED <<paths, found, stolen>>

\* ... and a wait until the socket's path is gone, or 3 s are over.
StopAwaited(k) ==
  /\ command[k] = "stopping"
  /\ command' = [command EXCEPT ![k] = "spawn"]
  /\ UNCHANGED <<paths, pc, found, stolen>>

\* The command starts a daemon process.
SpawnDaemon(k, p) ==
  /\ command[k] = "spawn"
  /\ pc[p] = "idle"
  /\ Goto(p, "acquire")
  /\ command' = [command EXCEPT ![k] = "done"]
  /\ UNCHANGED <<paths, found, stolen>>

-------------------------------------------------------------------------------
DaemonStep(p) ==
  \/ CheckExists(p) \/ ReadPid(p) \/ ProbePid(p) \/ RemoveGhost(p)
  \/ PidFails(p) \/ LinkLock(p)
  \/ OpenStorage(p) \/ RemoveOldSocket(p) \/ Bind(p) \/ Listen(p)
  \/ CloseSocket(p) \/ Unlock(p)

CommandStep(k) ==
  CleanSocket(k) \/ StopAwaited(k) \/ \E p \in Proc : SpawnDaemon(k, p)

LockNext ==
  \/ \E p \in Proc : Launch(p) \/ DaemonStep(p) \/ Stop(p) \/ Crash(p) \/ PidReused(p)
  \/ \E k \in Command : Ensure(k) \/ Restart(k) \/ CommandStep(k)

LockSpec == LockInit /\ [][LockNext]_lockVars

\* Processes run; users need not start, stop or kill anything.
LockIsFair ==
  /\ \A p \in Proc : WF_lockVars(DaemonStep(p))
  /\ \A k \in Command : WF_lockVars(CommandStep(k))

FairLockSpec == LockSpec /\ LockIsFair

-------------------------------------------------------------------------------
(* Properties. *)

TypeOK ==
  /\ lockfile \in Proc \cup {None}
  /\ socket \in Proc \cup {None}
  /\ pc \in [Proc -> ProcPlace]
  /\ command \in [Command -> {"idle", "clean", "stopping", "spawn", "done"}]
  /\ found \in [Proc \cup Command -> Proc \cup {None}]
  /\ stolen \subseteq {"lock", "socket"}

\* FR-003 ("Повторный запуск CLI не создаёт второго демона", docs/specs/
\* 2026-08-03-vpsagent.md 67; lock.rs 1-9, C12): no two processes take themselves
\* for the daemon.  A start breaks it that read a dead pid, or no file any more, and
\* removes the lock that another start has linked since: it links its own.
OneDaemon == \A p, q \in Proc : Daemon(p) /\ Daemon(q) => p = q

\* That is the only way: through any starts, stops, restarts and crashes that
\* overlap as they like, the lock file is in place and names the daemon as long as
\* it is the daemon, and so there is one, until a start has removed a lock which is
\* not the one it had read.
DaemonHoldsLock ==
  "lock" \notin stolen => \A p \in Proc : Daemon(p) => lockfile = p

\* FR-003 ("повторный запуск CLI подключается к существующему"): a daemon that
\* serves can be reached, the socket's path names the socket it listens on.  A client
\* whose probe is out of date breaks it: ensure_daemon removes the path that a daemon
\* has bound since.
ServingIsReachable == \A p \in Proc : pc[p] = "serving" => socket = p

\* That and a second daemon are the only ways: no stop of an earlier daemon, no
\* restart, no start that fails and no crash takes a serving daemon's socket away.
SocketIsKept == stolen = {} => ServingIsReachable

\* What a killed daemon leaves behind never keeps the next one from starting
\* ("мёртвый pid ... удаляем файл-призрак", lock.rs 40): a start that finds no
\* other process, and meets none, makes its process the daemon, if it can write its
\* pid file.  A process that has the pid of a dead daemon counts as another.
StartAloneServes ==
  \A p \in Proc :
    (pc[p] = "acquire" /\ \A q \in Proc : Alive(q) => q = p)
      ~> (Daemon(p) \/ pc[p] \in {"crashed", "failed"} \/ \E q \in Proc \ {p} : Alive(q))
===============================================================================
