---------------------------- MODULE InstanceLock ----------------------------
(***************************************************************************)
(* Which process is the daemon of a socket: the flock on <socket>.lock,    *)
(* the pid file and the socket file (lock.rs, socket.rs Listener,          *)
(* server.rs Daemon::start and Drop).  The flock belongs to an inode, not  *)
(* to a path: a process may hold the lock of a file that is no longer      *)
(* there.  The kernel releases the flock of a process that dies; the three *)
(* files stay.  A process that stops unlocks first and removes the pid     *)
(* file and the lock file after, whoever has the lock by then: a process   *)
(* whose start met that is remembered as crossed.                          *)
(***************************************************************************)
EXTENDS Naturals, FiniteSets

CONSTANTS Procs,       \* processes that may become the daemon
          NoProc,      \* nobody: no pid file, no socket, a free flock
          MaxInodes    \* bound: lock files created in a history

ASSUME ProcAssumption == NoProc \notin Procs
ASSUME InodeAssumption == MaxInodes \in Nat

VARIABLES phase,     \* how far each process got
          fd,        \* the inode each process has open (0: none)
          lockFile,  \* the inode at <socket>.lock (0: no file)
          flock,     \* per inode: who holds its flock
          inodes,    \* lock files created so far
          pidFile,   \* whose pid <socket>.pid holds
          socket,    \* who bound the socket file
          crossed    \* who met a late cleanup, or a daemon that did (history)

lockVars == <<phase, fd, lockFile, flock, inodes, pidFile, socket, crossed>>

Inodes == 1..MaxInodes

\* acquire: "opened", "locked", "cleared" (stale pid removed); start:
\* "owner", "bound", "serving", "deaf" (its accept loop ended on an error); a
\* stop or a failed start: "closed" (listener dropped), "unlocked", "unnamed"
\* (pid file removed), "leaving".
Late == {"unlocked", "unnamed"}
Phases == {"out", "opened", "refused", "leaving", "locked", "cleared", "owner", "bound",
           "serving", "deaf", "closed"} \cup Late

\* Phases in which a process believes it is the daemon.
Owning == {"locked", "cleared", "owner", "bound", "serving", "deaf", "closed"}

LockTypeOK ==
  /\ phase \in [Procs -> Phases]
  /\ fd \in [Procs -> Inodes \cup {0}]
  /\ lockFile \in Inodes \cup {0}
  /\ flock \in [Inodes -> Procs \cup {NoProc}]
  /\ inodes \in 0..MaxInodes
  /\ pidFile \in Procs \cup {NoProc}
  /\ socket \in Procs \cup {NoProc}
  /\ crossed \subseteq Procs

LockInit ==
  /\ phase = [p \in Procs |-> "out"]
  /\ fd = [p \in Procs |-> 0]
  /\ lockFile = 0
  /\ flock = [i \in Inodes |-> NoProc]
  /\ inodes = 0
  /\ pidFile = NoProc
  /\ socket = NoProc
  /\ crossed = {}

Step(p, from, to) == phase[p] = from /\ phase' = [phase EXCEPT ![p] = to]

\* Whoever starts beside q may lose its files to it, or share them with it.
Unsafe(q) == phase[q] \in Late \/ (q \in crossed /\ phase[q] \in Owning)

\* Everybody else who has a lock file open is crossed by what p does.
Crossing(p) == crossed' = crossed \cup {q \in Procs \ {p} : fd[q] # 0}

-----------------------------------------------------------------------------
(* InstanceLock::acquire.                                                  *)

\* OpenOptions::create opens the file that is there, or a new one.
OpenLock(p) ==
  /\ Step(p, "out", "opened")
  /\ \/ lockFile # 0 /\ UNCHANGED <<lockFile, inodes>>
     \/ lockFile = 0 /\ inodes < MaxInodes /\ inodes' = inodes + 1 /\ lockFile' = inodes'
  /\ fd' = [fd EXCEPT ![p] = lockFile']
  /\ crossed' = IF \E q \in Procs : Unsafe(q) THEN crossed \cup {p} ELSE crossed
  /\ UNCHANGED <<flock, pidFile, socket>>

\* Mutant: the file is opened for the lock but never locked.
FlockForgotten(p) ==
  /\ Step(p, "opened", "locked")
  /\ UNCHANGED <<fd, lockFile, flock, inodes, pidFile, socket, crossed>>

\* try_lock_exclusive
Flock(p) ==
  /\ Step(p, "opened", "locked")
  /\ flock[fd[p]] = NoProc
  /\ flock' = [flock EXCEPT ![fd[p]] = p]
  /\ IF p \in crossed THEN Crossing(p) ELSE UNCHANGED crossed
  /\ UNCHANGED <<fd, lockFile, inodes, pidFile, socket>>

\* Mutant: the refused start cleans up what it finds.
RefuseCleansUp(p) ==
  /\ Step(p, "opened", "refused")
  /\ flock[fd[p]] # NoProc
  /\ fd' = [fd EXCEPT ![p] = 0]
  /\ pidFile' = NoProc
  /\ UNCHANGED <<lockFile, flock, inodes, socket, crossed>>

\* WouldBlock: AlreadyRunning with the pid that the pid file holds.
Refuse(p) ==
  /\ Step(p, "opened", "refused")
  /\ flock[fd[p]] # NoProc
  /\ fd' = [fd EXCEPT ![p] = 0]
  /\ UNCHANGED <<lockFile, flock, inodes, pidFile, socket, crossed>>

RemoveStalePid(p) ==
  /\ Step(p, "locked", "cleared")
  /\ pidFile' = NoProc
  /\ UNCHANGED <<fd, lockFile, flock, inodes, socket, crossed>>

WritePid(p) ==
  /\ Step(p, "cleared", "owner")
  /\ pidFile' = p
  /\ UNCHANGED <<fd, lockFile, flock, inodes, socket, crossed>>

-----------------------------------------------------------------------------
(* Daemon::start after acquire, and Drop.                                  *)

\* Listener::bind removes a stale socket file and binds.
Bind(p) ==
  /\ Step(p, "owner", "bound")
  /\ socket' = p
  /\ UNCHANGED <<fd, lockFile, flock, inodes, pidFile, crossed>>

Serve(p) ==
  /\ Step(p, "bound", "serving")
  /\ UNCHANGED <<fd, lockFile, flock, inodes, pidFile, socket, crossed>>

\* accept fails: the thread that has the listener ends and drops it, and the
\* process goes on.
AcceptFails(p) ==
  /\ Step(p, "serving", "deaf")
  /\ socket' = NoProc
  /\ UNCHANGED <<fd, lockFile, flock, inodes, pidFile, crossed>>

\* A shutdown, or an error later in start: the listener, if there is one, is
\* dropped first and unlinks the socket path.
CloseListener(p) ==
  /\ phase[p] \in {"owner", "bound", "serving", "deaf"}
  /\ phase' = [phase EXCEPT ![p] = "closed"]
  /\ socket' = IF phase[p] \in {"owner", "deaf"} THEN socket ELSE NoProc
  /\ UNCHANGED <<fd, lockFile, flock, inodes, pidFile, crossed>>

\* InstanceLock::drop: unlock, remove the pid file, remove the lock file.
Unlock(p) ==
  /\ Step(p, "closed", "unlocked")
  /\ flock' = [flock EXCEPT ![fd[p]] = NoProc]
  /\ Crossing(p)
  /\ UNCHANGED <<fd, lockFile, inodes, pidFile, socket>>

RemovePid(p) ==
  /\ Step(p, "unlocked", "unnamed")
  /\ pidFile' = NoProc
  /\ UNCHANGED <<fd, lockFile, flock, inodes, socket, crossed>>

RemoveLockFile(p) ==
  /\ Step(p, "unnamed", "leaving")
  /\ lockFile' = 0
  /\ UNCHANGED <<fd, flock, inodes, pidFile, socket, crossed>>

Exit(p) ==
  /\ phase[p] \in {"refused", "leaving"}
  /\ phase' = [phase EXCEPT ![p] = "out"]
  /\ fd' = [fd EXCEPT ![p] = 0]
  /\ crossed' = crossed \ {p}
  /\ UNCHANGED <<lockFile, flock, inodes, pidFile, socket>>

\* The process dies, or acquire returns on an I/O error: its file is closed,
\* and so its flock freed.
Die(p) ==
  /\ phase[p] # "out"
  /\ phase' = [phase EXCEPT ![p] = "out"]
  /\ fd' = [fd EXCEPT ![p] = 0]
  /\ crossed' = crossed \ {p}
  /\ flock' = [i \in Inodes |-> IF flock[i] = p THEN NoProc ELSE flock[i]]
  /\ UNCHANGED <<lockFile, inodes, pidFile, socket>>

ProcStep(p) ==
  \/ Flock(p) \/ Refuse(p) \/ RemoveStalePid(p) \/ WritePid(p) \/ Bind(p) \/ Serve(p)
  \/ Unlock(p) \/ RemovePid(p) \/ RemoveLockFile(p) \/ Exit(p)

LockNext == \E p \in Procs : OpenLock(p) \/ ProcStep(p) \/ AcceptFails(p) \/ CloseListener(p) \/ Die(p)

LockSpec == LockInit /\ [][LockNext]_lockVars

-----------------------------------------------------------------------------
(* Properties.                                                             *)

\* At most one process believes it is the daemon of the socket, whatever a
\* crashed one left behind (lock.rs 3-5): one that did not cross a late cleanup
\* of another's, nor a daemon that did, is alone.
OneOwner ==
  \A p, q \in Procs : phase[p] \in Owning /\ phase[q] \in Owning => p = q \/ p \in crossed

\* Clients and tools that follow the two files reach the daemon that serves: no
\* start, no refusal, no crash takes them away, and a cleanup only those of a
\* process that crossed it.
FilesNameDaemon ==
  \A p \in Procs : phase[p] = "serving" => (pidFile = p /\ socket = p) \/ p \in crossed

\* What a crashed daemon left behind never keeps the next one from starting:
\* a start is refused only while another process is the daemon.
RefusedByDaemon ==
  [][\A p \in Procs : phase[p] = "opened" /\ phase'[p] = "refused"
       => \E q \in Procs \ {p} : phase[q] \in Owning]_lockVars

-----------------------------------------------------------------------------
(* The inductive invariant behind OneOwner.                                *)

\* A process that owns a lock owns that of the file it has open.
Holds(p) == fd[p] \in Inodes /\ flock[fd[p]] = p

\* One that crossed nothing has the file at the path, and nobody to fear.
Straight(p) ==
  /\ phase[p] # "leaving" => fd[p] = lockFile
  /\ \A q \in Procs \ {p} : ~Unsafe(q)

LockInv ==
  /\ \A p \in Procs : phase[p] \in Owning => Holds(p)
  /\ \A p \in Procs : phase[p] \in {"opened", "leaving"} \cup Late => fd[p] \in Inodes
  /\ \A p \in Procs : phase[p] \in {"out", "refused"} => fd[p] = 0
  /\ \A i \in Inodes : flock[i] # NoProc => phase[flock[i]] \in Owning /\ fd[flock[i]] = i
  /\ \A p \in Procs : fd[p] # 0 /\ p \notin crossed => Straight(p)
=============================================================================
