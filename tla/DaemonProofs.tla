---------------------------- MODULE DaemonProofs ----------------------------
(*****************************************************************************)
(* Proofs about the daemon across starts, stops and crashes: the lock that   *)
(* makes it the only one, the ledger of its runs, the launchers that meet in *)
(* it, the numbers of its stats page, and the sweep of idle sessions beside  *)
(* it, for any set of processes, runs and sessions, any clock and any number *)
(* of crashes and failing rewrites.                                          *)
(*****************************************************************************)
EXTENDS InstanceLock, RunLedger, DaemonLife, SessionCatalog, FiniteSetTheorems,
        WellFoundedInduction, TLAPS

-----------------------------------------------------------------------------
\* The instance lock.

OwnerInv == LockTypeOK /\ LockInv

\* The invariant holds before any process starts.
LEMMA OwnerInit == LockInit => OwnerInv
BY ProcAssumption, InodeAssumption
   DEF LockInit, OwnerInv, LockTypeOK, LockInv, Phases, Late, Owning, Inodes

\* No step spoils the lock: a process that opens the lock file beside a late
\* cleanup, or beside a daemon that met one, is marked as it does.
LEMMA OwnerStep == OwnerInv /\ [LockNext]_lockVars => OwnerInv'
<1> SUFFICES ASSUME OwnerInv, [LockNext]_lockVars PROVE OwnerInv'
  OBVIOUS
<1> USE ProcAssumption, InodeAssumption
    DEF OwnerInv, LockTypeOK, Inodes, Phases, Late, Owning, Step
<1>1. ASSUME NEW p \in Procs, OpenLock(p) PROVE OwnerInv'
  <2>1. LockTypeOK'
    BY <1>1 DEF OpenLock
  <2>2. fd' = [fd EXCEPT ![p] = lockFile'] /\ lockFile' \in Inodes
    BY <1>1 DEF OpenLock
  <2>3. \A q \in Procs : Unsafe(q)' => Unsafe(q)
    BY <1>1 DEF OpenLock, Unsafe
  <2>4. p \notin crossed' => Straight(p)'
    BY <1>1, <2>2, <2>3 DEF OpenLock, Straight, Unsafe
  <2>5. ASSUME NEW q \in Procs \ {p}, fd[q] # 0, q \notin crossed PROVE Straight(q)'
    <3>1. Straight(q) /\ fd'[q] = fd[q] /\ phase'[q] = phase[q]
      BY <1>1, <2>2, <2>5 DEF OpenLock, LockInv
    <3>2. phase[q] # "leaving" => lockFile' = lockFile
      BY <1>1, <2>5, <3>1 DEF OpenLock, Straight
    <3> QED
      BY <2>3, <3>1, <3>2 DEF Straight
  <2>6. \A q \in Procs : fd'[q] # 0 /\ q \notin crossed' => Straight(q)'
    BY <1>1, <2>2, <2>4, <2>5 DEF OpenLock
  <2>7. LockInv'
    <3>1. \A q \in Procs \ {p} : phase'[q] = phase[q] /\ fd'[q] = fd[q]
      BY <1>1, <2>2 DEF OpenLock
    <3>2. phase[p] = "out" /\ phase'[p] = "opened" /\ fd'[p] \in Inodes /\ flock' = flock
      BY <1>1, <2>2 DEF OpenLock
    <3> QED
      BY <2>6, <3>1, <3>2 DEF LockInv, Holds
  <2> QED
    BY <2>1, <2>7
<1>2. ASSUME NEW p \in Procs, Flock(p) PROVE OwnerInv'
  <2>1. LockTypeOK'
    BY <1>2 DEF Flock, Crossing
  <2>2. phase[p] = "opened" /\ phase' = [phase EXCEPT ![p] = "locked"] /\ fd[p] \in Inodes
    BY <1>2 DEF Flock, LockInv
  <2>3. ASSUME NEW q \in Procs, fd[q] # 0, q \notin crossed' PROVE Straight(q)'
    <3>1. q \notin crossed /\ (p \in crossed => q = p)
      BY <1>2, <2>3 DEF Flock, Crossing
    <3>2. Straight(q)
      BY <2>3, <3>1 DEF LockInv
    <3> QED
      BY <1>2, <2>2, <3>1, <3>2 DEF Flock, Crossing, Straight, Unsafe
  <2>4. LockInv'
    BY <1>2, <2>2, <2>3 DEF Flock, LockInv, Holds
  <2> QED
    BY <2>1, <2>4
<1>3. ASSUME NEW p \in Procs,
             Refuse(p) \/ RemoveStalePid(p) \/ WritePid(p) \/ Bind(p) \/ Serve(p)
               \/ AcceptFails(p) \/ CloseListener(p) \/ RemovePid(p)
      PROVE  OwnerInv'
  <2>1. LockTypeOK' /\ crossed' = crossed
    BY <1>3 DEF Refuse, RemoveStalePid, WritePid, Bind, Serve, AcceptFails, CloseListener, RemovePid
  <2>2. ASSUME NEW q \in Procs, fd'[q] # 0, q \notin crossed' PROVE Straight(q)'
    <3>1. Straight(q)
      BY <1>3, <2>1, <2>2 DEF LockInv, Refuse, RemoveStalePid, WritePid, Bind, Serve,
         AcceptFails, CloseListener, RemovePid
    <3> QED
      BY <1>3, <2>1, <2>2, <3>1 DEF Straight, Unsafe, Refuse, RemoveStalePid, WritePid, Bind,
         Serve, AcceptFails, CloseListener, RemovePid
  <2>3. LockInv'
    BY <1>3, <2>2 DEF LockInv, Holds, Refuse, RemoveStalePid, WritePid, Bind, Serve,
       AcceptFails, CloseListener, RemovePid
  <2> QED
    BY <2>1, <2>3
<1>4. ASSUME NEW p \in Procs, Unlock(p) PROVE OwnerInv'
  <2>1. phase[p] = "closed" /\ Holds(p)
    BY <1>4 DEF Unlock, LockInv
  <2>2. LockTypeOK' /\ fd' = fd
    BY <1>4, <2>1 DEF Unlock, Holds, Crossing
  <2>3. ASSUME NEW q \in Procs, fd[q] # 0, q \notin crossed' PROVE Straight(q)'
    <3>1. q = p /\ p \notin crossed
      BY <1>4, <2>3 DEF Unlock, Crossing
    <3>2. fd[p] = lockFile /\ \A r \in Procs \ {p} : ~Unsafe(r)
      BY <2>1, <2>3, <3>1 DEF LockInv, Straight
    <3>3. \A r \in Procs \ {p} : phase[r] \notin Owning
      <4> SUFFICES ASSUME NEW r \in Procs \ {p}, phase[r] \in Owning PROVE FALSE
        OBVIOUS
      <4>1. Holds(r) /\ r \notin crossed
        BY <3>2 DEF LockInv, Unsafe
      <4>2. fd[r] = lockFile
        BY <4>1 DEF LockInv, Straight, Holds
      <4> QED
        BY <2>1, <3>2, <4>1, <4>2 DEF Holds
    <3> QED
      BY <1>4, <3>1, <3>2, <3>3 DEF Unlock, Straight, Unsafe
  <2>4. LockInv'
    BY <1>4, <2>1, <2>2, <2>3 DEF Unlock, LockInv, Holds
  <2> QED
    BY <2>2, <2>4
<1>5. ASSUME NEW p \in Procs, RemoveLockFile(p) PROVE OwnerInv'
  <2>1. LockTypeOK' /\ Unsafe(p)
    BY <1>5 DEF RemoveLockFile, Unsafe
  <2>2. \A q \in Procs \ {p} : fd[q] # 0 => q \in crossed
    BY <2>1 DEF LockInv, Straight
  <2>3. fd[p] # 0 /\ p \notin crossed => Straight(p)'
    BY <1>5 DEF RemoveLockFile, LockInv, Straight, Unsafe
  <2>4. LockInv'
    BY <1>5, <2>2, <2>3 DEF RemoveLockFile, LockInv, Holds
  <2> QED
    BY <2>1, <2>4
<1>6. ASSUME NEW p \in Procs, Exit(p) \/ Die(p) PROVE OwnerInv'
  <2>1. LockTypeOK'
    BY <1>6 DEF Exit, Die
  <2>2. phase' = [phase EXCEPT ![p] = "out"] /\ fd' = [fd EXCEPT ![p] = 0]
        /\ crossed' = crossed \ {p} /\ lockFile' = lockFile
    BY <1>6 DEF Exit, Die
  <2>3. \A i \in Inodes : flock'[i] = IF flock[i] = p THEN NoProc ELSE flock[i]
    BY <1>6 DEF Exit, Die, LockInv
  <2>4. ASSUME NEW q \in Procs, fd'[q] # 0, q \notin crossed' PROVE Straight(q)'
    <3>1. q # p /\ Straight(q)
      BY <2>2, <2>4 DEF LockInv
    <3> QED
      BY <2>2, <2>4, <3>1 DEF Straight, Unsafe
  <2>5. \A q \in Procs : phase'[q] # "out" => q # p /\ phase'[q] = phase[q] /\ fd'[q] = fd[q]
    BY <2>2
  <2>6. \A q \in Procs : phase'[q] \in Owning => Holds(q)'
    BY <2>1, <2>3, <2>5 DEF LockInv, Holds
  <2>7. \A i \in Inodes : flock'[i] # NoProc
          => phase'[flock'[i]] \in Owning /\ fd'[flock'[i]] = i
    BY <2>1, <2>2, <2>3 DEF LockInv
  <2>8. LockInv'
    BY <2>2, <2>4, <2>5, <2>6, <2>7 DEF LockInv
  <2> QED
    BY <2>1, <2>8
<1>7. CASE UNCHANGED lockVars
  BY <1>7 DEF lockVars, LockInv, Holds, Straight, Unsafe
<1> QED
  BY <1>1, <1>2, <1>3, <1>4, <1>5, <1>6, <1>7 DEF LockNext, ProcStep

\* An owner that crossed no late cleanup is the only one.
LEMMA OwnerAlone ==
  ASSUME OwnerInv, NEW p \in Procs, NEW q \in Procs, p \notin crossed,
         phase[p] \in Owning, phase[q] \in Owning
  PROVE  p = q
<1> SUFFICES ASSUME p # q PROVE FALSE
  OBVIOUS
<1> USE DEF OwnerInv, LockTypeOK, LockInv, Inodes, Owning
<1>1. Holds(p) /\ Holds(q)
  OBVIOUS
<1>2. fd[p] = lockFile /\ ~Unsafe(q)
  BY <1>1 DEF Straight, Holds
<1>3. q \notin crossed
  BY <1>2 DEF Unsafe
<1>4. fd[q] = lockFile
  BY <1>1, <1>3 DEF Straight, Holds
<1> QED
  BY <1>1, <1>2, <1>4 DEF Holds

\* With crashes at any moment, leftover files of any kind and clean stops
\* beside starts, two processes are only ever both the daemon of one socket
\* when both crossed a late cleanup or a daemon that did (lock.rs acquire and
\* Drop).
THEOREM Exclusive == LockSpec => []OneOwner
<1>1. OwnerInv => OneOwner
  BY OwnerAlone DEF OneOwner
<1>2. LockSpec => []OwnerInv
  BY OwnerInit, OwnerStep, PTL DEF LockSpec
<1> QED
  BY <1>1, <1>2, PTL

\* A start is only ever refused because another process is the daemon: what a
\* crash or a cleanup left behind refuses nobody.
THEOREM RefusedOnlyByDaemon == LockSpec => RefusedByDaemon
<1>1. OwnerInv /\ [LockNext]_lockVars =>
        [\A p \in Procs : phase[p] = "opened" /\ phase'[p] = "refused"
           => \E q \in Procs \ {p} : phase[q] \in Owning]_lockVars
  <2> SUFFICES ASSUME OwnerInv, [LockNext]_lockVars, NEW p \in Procs,
                      phase[p] = "opened", phase'[p] = "refused"
               PROVE  \E q \in Procs \ {p} : phase[q] \in Owning
    OBVIOUS
  <2>1. Refuse(p)
    BY DEF OwnerInv, LockTypeOK, LockNext, ProcStep, Step, OpenLock, Flock, Refuse, RemoveStalePid, WritePid,
       Bind, Serve, AcceptFails, CloseListener, Unlock, RemovePid, RemoveLockFile, Exit, Die, lockVars
  <2>2. fd[p] \in Inodes /\ flock[fd[p]] \in Procs
    BY <2>1 DEF OwnerInv, LockTypeOK, LockInv, Refuse
  <2>3. phase[flock[fd[p]]] \in Owning
    BY <2>1, <2>2 DEF OwnerInv, LockInv, Refuse
  <2> QED
    BY <2>2, <2>3 DEF Owning
<1>2. LockSpec => []OwnerInv
  BY OwnerInit, OwnerStep, PTL DEF LockSpec
<1> QED
  BY <1>1, <1>2, PTL DEF RefusedByDaemon, LockSpec

\* The pid file and the socket file are those of the process that wrote them
\* and still is the daemon, if it crossed no late cleanup.
NamesInv ==
  \A p \in Procs \ crossed :
    /\ phase[p] \in {"owner", "bound", "serving", "deaf"} => pidFile = p
    /\ phase[p] \in {"bound", "serving"} => socket = p

\* A step of q leaves the files that name p alone: a daemon that q shares the
\* files with, or cleans up under, has crossed.
LEMMA StepNames == OwnerInv /\ NamesInv /\ [LockNext]_lockVars => NamesInv'
<1> SUFFICES ASSUME OwnerInv, NamesInv, [LockNext]_lockVars PROVE NamesInv'
  OBVIOUS
<1> USE DEF OwnerInv, LockTypeOK, NamesInv, Step
<1>1. ASSUME NEW q \in Procs,
             OpenLock(q) \/ Flock(q) \/ Refuse(q) \/ Serve(q) \/ Unlock(q)
               \/ RemoveLockFile(q) \/ Exit(q) \/ Die(q)
      PROVE  NamesInv'
  BY <1>1 DEF OpenLock, Flock, Refuse, Serve, Unlock, RemoveLockFile, Exit, Die, Crossing
<1>2. ASSUME NEW q \in Procs,
             RemoveStalePid(q) \/ WritePid(q) \/ Bind(q) \/ AcceptFails(q) \/ CloseListener(q)
      PROVE  NamesInv'
  <2>1. \A p \in Procs \ crossed : phase[p] \in Owning => p = q
    BY <1>2, OwnerAlone DEF RemoveStalePid, WritePid, Bind, AcceptFails, CloseListener, Owning
  <2> QED
    BY <1>2, <2>1 DEF RemoveStalePid, WritePid, Bind, AcceptFails, CloseListener, Owning
<1>3. ASSUME NEW q \in Procs, RemovePid(q) PROVE NamesInv'
  <2>1. ASSUME NEW p \in Procs \ crossed, p # q PROVE phase[p] \notin Owning
    <3>1. Unsafe(q)
      BY <1>3 DEF RemovePid, Unsafe, Late
    <3> QED
      BY <2>1, <3>1 DEF LockInv, Straight, Holds, Inodes
  <2> QED
    BY <1>3, <2>1 DEF RemovePid, Owning
<1>4. CASE UNCHANGED lockVars
  BY <1>4 DEF lockVars
<1> QED
  BY <1>1, <1>2, <1>3, <1>4 DEF LockNext, ProcStep

\* The pid file and the socket file name the daemon that serves, whoever
\* crashed, was refused or cleaned up, unless it crossed a late cleanup
\* (lock.rs Drop, socket.rs Listener).
THEOREM FilesName == LockSpec => []FilesNameDaemon
<1>1. LockInit => NamesInv
  BY DEF LockInit, NamesInv
<1>2. NamesInv => FilesNameDaemon
  BY DEF NamesInv, FilesNameDaemon
<1>3. LockSpec => []OwnerInv
  BY OwnerInit, OwnerStep, PTL DEF LockSpec
<1>4. LockSpec => []NamesInv
  BY <1>1, <1>3, StepNames, PTL DEF LockSpec
<1> QED
  BY <1>2, <1>4, PTL

-----------------------------------------------------------------------------
\* The run ledger.

RowsInv == TypeOK /\ LedgerInv

\* What every row of a sequence of rows is.
LEMMA RowTypes ==
  ASSUME NEW f \in Seq(Rows), NEW i \in DOMAIN f
  PROVE  f[i] \in Rows /\ f[i].seq \in Nat /\ f[i].run \in Runs /\ f[i].run # NoRun
<1>1. f[i] \in Rows
  OBVIOUS
<1> QED
  BY <1>1, RunAssumption DEF Rows

\* The number after the last one of a numbered file is above every other.
LEMMA NextSeqAbove ==
  ASSUME NEW f \in Seq(Rows),
         \A i, j \in DOMAIN f : i < j => f[i].seq < f[j].seq
  PROVE  LET m == Max({0} \cup {f[i].seq : i \in DOMAIN f})
         IN m \in Nat /\ \A i \in DOMAIN f : f[i].seq <= m
<1> DEFINE S == {0} \cup {f[i].seq : i \in DOMAIN f}
<1>1. \A i \in DOMAIN f : f[i].seq \in Nat
  BY RowTypes
<1>2. \E m \in S : \A x \in S : m >= x
  <2>1. CASE f = <<>>
    BY <2>1
  <2>2. CASE f # <<>>
    <3>1. Len(f) \in DOMAIN f /\ \A i \in DOMAIN f : i <= Len(f)
      BY <2>2
    <3>2. \A i \in DOMAIN f : f[i].seq <= f[Len(f)].seq
      BY <3>1, <1>1
    <3> QED
      BY <3>1, <3>2, <1>1
  <2> QED
    BY <2>1, <2>2
<1>3. Max(S) \in S /\ \A x \in S : Max(S) >= x
  BY <1>2 DEF Max
<1>4. S \subseteq Nat
  BY <1>1
<1> QED
  BY <1>3, <1>4

\* The invariant holds of an empty ledger.
LEMMA RowsInit == Init => RowsInv
BY RunAssumption, BoundAssumption
   DEF Init, RowsInv, TypeOK, LedgerInv, SeqsIncrease, SettledStaysSettled, FileFollowsRows,
       FileKeepsSettled, Idle, Identity

\* Every start, finish, write, crash and restart keeps it.
LEMMA RowsStep == RowsInv /\ [Next]_vars => RowsInv'
<1> SUFFICES ASSUME RowsInv, [Next]_vars PROVE RowsInv'
  OBVIOUS
<1> USE RunAssumption, TimeAssumption, BoundAssumption
<1>0. /\ rows \in Seq(Rows) /\ file \in Seq(Rows) /\ before \in Seq(Rows)
      /\ nextSeq \in Nat
      /\ flush.phase \in {"idle", "opening", "writing"}
  BY DEF RowsInv, TypeOK, Idle
<1>t. /\ \A i \in DOMAIN rows : rows[i].seq \in Nat /\ rows[i].run \in Runs /\ rows[i].run # NoRun
      /\ \A i \in DOMAIN file : file[i].seq \in Nat /\ file[i].run \in Runs /\ file[i].run # NoRun
  BY <1>0, RowTypes
<1>1. ASSUME NEW r \in Runs, NEW t \in Times, Start(r, t) PROVE RowsInv'
  <2> DEFINE row == [seq |-> nextSeq, run |-> r, started |-> t,
                     finished |-> NoTime, status |-> NoStatus]
  <2>1. row \in Rows
    BY <1>0 DEF Rows
  <2>2. rows' = Append(rows, row)
    BY <1>1 DEF Start
  <2>3. /\ rows' \in Seq(Rows) /\ Len(rows') = Len(rows) + 1
        /\ \A i \in DOMAIN rows : i \in DOMAIN rows' /\ rows'[i] = rows[i]
        /\ \A i \in DOMAIN rows' : i \in DOMAIN rows \/ i = Len(rows) + 1
        /\ rows'[Len(rows) + 1] = row
    BY <1>0, <2>1, <2>2
  <2>4. TypeOK'
    <3>1. flush' \in [phase : {"opening", "writing"}, finishing : Runs \cup {NoRun}]
      BY <1>1 DEF Start, Flushing
    <3> QED
      BY <1>1, <1>0, <2>3, <3>1 DEF Start, RowsInv, TypeOK, client, counters
  <2>5. SeqsIncrease'
    BY <1>1, <1>0, <1>t, <2>3 DEF Start, RowsInv, LedgerInv, SeqsIncrease
  <2>6. SettledStaysSettled'
    BY <1>1, <2>3 DEF Start, RowsInv, LedgerInv, SettledStaysSettled, FileKeepsSettled
  <2>7. FileFollowsRows'
    BY <1>1, <1>0, <2>3 DEF Start, Flushing, RowsInv, LedgerInv, FileFollowsRows, Identity
  <2>8. FileKeepsSettled'
    <3>1. flush'.finishing = NoRun
      BY <1>1 DEF Start, Flushing
    <3>2. \A i \in DOMAIN rows' : rows'[i].run # NoRun /\ rows'[i].run \in used'
      BY <1>1, <1>t, <2>3 DEF Start, RowsInv, LedgerInv, FileKeepsSettled
    <3> QED
      BY <1>1, <3>1, <3>2 DEF Start, RowsInv, LedgerInv, FileKeepsSettled
  <2> QED
    BY <2>4, <2>5, <2>6, <2>7, <2>8 DEF RowsInv, LedgerInv
<1>2. ASSUME NEW r \in Runs, NEW t \in Times, NEW st \in Statuses, Finish(r, t, st)
      PROVE  RowsInv'
  <2>1. /\ rows' \in Seq(Rows) /\ Len(rows') = Len(rows) /\ DOMAIN rows' = DOMAIN rows
        /\ \A i \in DOMAIN rows :
             /\ Identity(rows'[i]) = Identity(rows[i])
             /\ rows[i].finished # NoTime => rows'[i].finished # NoTime
             /\ rows[i].run = r => rows'[i].finished # NoTime
    <3>1. \A i \in DOMAIN rows : rows[i] \in Rows
      BY <1>0
    <3>2. \A i \in DOMAIN rows : Settle(rows[i], t, st) \in Rows
      BY <3>1 DEF Rows, Settle
    <3>3. DOMAIN rows = 1..Len(rows) /\ Len(rows) \in Nat
      BY <1>0
    <3>4. rows' = [i \in 1..Len(rows) |->
                     IF rows[i].run = r /\ rows[i].finished = NoTime
                     THEN Settle(rows[i], t, st) ELSE rows[i]]
      BY <1>2, <3>3 DEF Finish
    <3>5. \A i \in 1..Len(rows) : rows'[i] \in Rows
      BY <3>1, <3>2, <3>3, <3>4
    <3>6. rows' \in Seq(Rows) /\ Len(rows') = Len(rows) /\ DOMAIN rows' = DOMAIN rows
      BY <3>3, <3>4, <3>5
    <3>7. \A i \in DOMAIN rows : Identity(rows'[i]) = Identity(rows[i])
      BY <3>1, <3>3, <3>4 DEF Identity, Settle
    <3>8. \A i \in DOMAIN rows :
             /\ rows[i].finished # NoTime => rows'[i].finished # NoTime
             /\ rows[i].run = r => rows'[i].finished # NoTime
      BY <3>1, <3>3, <3>4 DEF Settle
    <3> QED
      BY <3>6, <3>7, <3>8
  <2>2. \A i \in DOMAIN rows : rows'[i].run = rows[i].run /\ rows'[i].seq = rows[i].seq
    BY <2>1 DEF Identity
  <2>3. r \in used
    BY <1>2 DEF Finish, RowsInv, LedgerInv, FileKeepsSettled
  <2>4. TypeOK'
    <3>1. flush' \in [phase : {"opening", "writing"}, finishing : Runs \cup {NoRun}]
      BY <1>2 DEF Finish, Flushing
    <3> QED
      BY <1>2, <1>0, <2>1, <3>1 DEF Finish, RowsInv, TypeOK, client, counters
  <2>5. SeqsIncrease'
    BY <1>2, <2>1, <2>2 DEF Finish, RowsInv, LedgerInv, SeqsIncrease
  <2>6. SettledStaysSettled'
    BY <1>2, <2>1, <2>2 DEF Finish, RowsInv, LedgerInv, SettledStaysSettled
  <2>7. FileFollowsRows'
    BY <1>2, <1>0, <2>1 DEF Finish, Flushing, RowsInv, LedgerInv, FileFollowsRows
  <2>8. FileKeepsSettled'
    BY <1>2, <2>1, <2>2, <2>3 DEF Finish, Flushing, RowsInv, LedgerInv, FileKeepsSettled
  <2> QED
    BY <2>4, <2>5, <2>6, <2>7, <2>8 DEF RowsInv, LedgerInv
<1>3. CASE ReadFromCursor
  <2>1. cursor' \in Nat
    BY <1>0, <1>t, <1>3 DEF ReadFromCursor, RowsInv, TypeOK
  <2>2. seen' \subseteq Runs
    BY <1>t, <1>3 DEF ReadFromCursor, RowsInv, TypeOK
  <2> QED
    BY <1>3, <2>1, <2>2 DEF ReadFromCursor, RowsInv, TypeOK, LedgerInv, SeqsIncrease,
       SettledStaysSettled, FileFollowsRows, FileKeepsSettled, history, counters
<1>4. CASE FlushOpen
  BY <1>4, <1>0 DEF FlushOpen, RowsInv, TypeOK, LedgerInv, SeqsIncrease, SettledStaysSettled,
     FileFollowsRows, FileKeepsSettled, history, client, counters, Idle
<1>5. CASE FlushRow
  <2>1. rows[Len(file) + 1] \in Rows /\ Len(file) + 1 \in DOMAIN rows
    BY <1>5, <1>0 DEF FlushRow
  <2>2. /\ file' \in Seq(Rows) /\ Len(file') = Len(file) + 1 /\ Len(file') <= Len(rows)
        /\ \A i \in DOMAIN file' : file'[i] = rows[i] /\ i \in DOMAIN rows
    BY <1>5, <1>0, <2>1 DEF FlushRow, RowsInv, LedgerInv, FileFollowsRows
  <2>3. TypeOK'
    BY <1>5, <2>2 DEF FlushRow, RowsInv, TypeOK, history, client, counters
  <2>4. LedgerInv'
    BY <1>5, <2>2 DEF FlushRow, RowsInv, LedgerInv, SeqsIncrease, SettledStaysSettled,
       FileFollowsRows, FileKeepsSettled, history
  <2> QED
    BY <2>3, <2>4 DEF RowsInv
<1>6. CASE FlushDone
  <2>1. DOMAIN file = DOMAIN rows /\ \A i \in DOMAIN rows : file[i] = rows[i]
    BY <1>6, <1>0 DEF FlushDone, RowsInv, LedgerInv, FileFollowsRows
  <2>2. settled' \subseteq used /\ settled' \subseteq Runs
    BY <1>6 DEF FlushDone, RowsInv, TypeOK, LedgerInv, FileKeepsSettled
  <2>3. \A i \in DOMAIN rows : rows[i].run \in settled' => rows[i].finished # NoTime
    BY <1>6 DEF FlushDone, RowsInv, LedgerInv, SettledStaysSettled, FileKeepsSettled
  <2>4. TypeOK'
    BY <1>6, <2>2 DEF FlushDone, RowsInv, TypeOK, client, counters
  <2>5. SeqsIncrease' /\ SettledStaysSettled' /\ FileFollowsRows'
    BY <1>6, <2>3 DEF FlushDone, RowsInv, LedgerInv, SeqsIncrease, SettledStaysSettled,
       FileFollowsRows, Idle
  <2>6. FileKeepsSettled'
    BY <1>6, <2>1, <2>2, <2>3, <1>t DEF FlushDone, RowsInv, LedgerInv, FileKeepsSettled, Idle
  <2> QED
    BY <2>4, <2>5, <2>6 DEF RowsInv, LedgerInv
<1>7. CASE FlushFail
  <2>1. TypeOK'
    BY <1>7 DEF FlushFail, RowsInv, TypeOK, client
  <2>2. LedgerInv'
    BY <1>7, <1>t DEF FlushFail, RowsInv, LedgerInv, SeqsIncrease, SettledStaysSettled,
       FileFollowsRows, FileKeepsSettled, Idle
  <2> QED
    BY <2>1, <2>2 DEF RowsInv
<1>8. CASE Crash
  <2>1. TypeOK'
    <3>1. up' \in BOOLEAN
      BY <1>8 DEF Crash
    <3>2. crashes' \in 0..MaxCrashes
      BY <1>8 DEF Crash, RowsInv, TypeOK
    <3> QED
      BY <1>8, <3>1, <3>2 DEF Crash, RowsInv, TypeOK, history, client
  <2>2. LedgerInv'
    BY <1>8 DEF Crash, RowsInv, LedgerInv, SeqsIncrease, SettledStaysSettled, FileFollowsRows,
       FileKeepsSettled, history
  <2> QED
    BY <2>1, <2>2 DEF RowsInv
<1>9. CASE Open
  <2>1. /\ \A i \in DOMAIN file : i \in DOMAIN rows
        /\ \A i \in DOMAIN file : file[i].seq = rows[i].seq /\ file[i].run = rows[i].run
    BY <1>0 DEF RowsInv, LedgerInv, FileFollowsRows, Identity
  <2>2. \A i, j \in DOMAIN file : i < j => file[i].seq < file[j].seq
    BY <2>1 DEF RowsInv, LedgerInv, SeqsIncrease
  <2>3. nextSeq' \in Nat /\ \A i \in DOMAIN file : file[i].seq < nextSeq'
    <3> DEFINE m == Max({0} \cup {file[i].seq : i \in DOMAIN file})
    <3>1. m \in Nat /\ \A i \in DOMAIN file : file[i].seq <= m
      BY <1>0, <2>2, NextSeqAbove
    <3>2. nextSeq' = 1 + m
      BY <1>9 DEF Open
    <3> HIDE DEF m
    <3> QED
      BY <3>1, <3>2, <1>t
  <2>4. TypeOK'
    BY <1>9, <1>0, <2>3 DEF Open, RowsInv, TypeOK, client, counters
  <2>5. SeqsIncrease'
    BY <1>9, <2>2, <2>3 DEF Open, SeqsIncrease
  <2>6. SettledStaysSettled' /\ FileFollowsRows'
    BY <1>9, <1>0 DEF Open, RowsInv, LedgerInv, SettledStaysSettled, FileFollowsRows,
       FileKeepsSettled, Idle
  <2>7. FileKeepsSettled'
    BY <1>9, <2>1, <1>t DEF Open, RowsInv, LedgerInv, FileKeepsSettled, Idle
  <2> QED
    BY <2>4, <2>5, <2>6, <2>7 DEF RowsInv, LedgerInv
<1>10. CASE UNCHANGED vars
  BY <1>10 DEF vars, history, client, counters, RowsInv, TypeOK, LedgerInv, SeqsIncrease,
     SettledStaysSettled, FileFollowsRows, FileKeepsSettled
<1> QED
  BY <1>1, <1>2, <1>3, <1>4, <1>5, <1>6, <1>7, <1>8, <1>9, <1>10 DEF Next, FlushStep

\* The inductive invariant holds in every environment.
THEOREM RowsInductive == Spec => []RowsInv
BY RowsInit, RowsStep, PTL DEF Spec

\* Every variable keeps its type.
THEOREM LedgerTyped == Spec => []TypeOK
<1>1. RowsInv => TypeOK
  BY DEF RowsInv
<1> QED
  BY <1>1, RowsInductive, PTL

\* Rows are numbered in order, and no number is given twice (state.rs start,
\* open_for_socket).
THEOREM Numbered == Spec => []SeqsIncrease
<1>1. RowsInv => SeqsIncrease
  BY DEF RowsInv, LedgerInv
<1> QED
  BY <1>1, RowsInductive, PTL

\* What finish reported as settled is never open again (state.rs finish).
THEOREM Settled == Spec => []SettledStaysSettled
<1>1. RowsInv => SettledStaysSettled
  BY DEF RowsInv, LedgerInv
<1> QED
  BY <1>1, RowsInductive, PTL

\* A restart reads back the beginning of the dead process's rows (state.rs
\* flush, open_for_socket).
THEOREM TailOnly == Spec => CrashLosesTailOnly
<1>1. RowsInv /\ [Next]_vars =>
        [up' /\ ~up => /\ Len(rows') <= Len(rows)
                       /\ \A i \in DOMAIN rows' : Identity(rows'[i]) = Identity(rows[i])]_vars
  <2> SUFFICES ASSUME RowsInv, [Next]_vars, up', ~up
               PROVE  /\ Len(rows') <= Len(rows)
                      /\ \A i \in DOMAIN rows' : Identity(rows'[i]) = Identity(rows[i])
    OBVIOUS
  <2>1. Open
    BY DEF Next, FlushStep, Start, Finish, ReadFromCursor, FlushOpen, FlushRow, FlushDone,
       FlushFail, Crash, Locked, vars
  <2> QED
    BY <2>1 DEF Open, RowsInv, LedgerInv, FileFollowsRows
<1> QED
  BY <1>1, RowsInductive, PTL DEF CrashLosesTailOnly, Spec

\* Until a crash the daemon is up and no cursor is past the last number given.
CursorInv == crashes = 0 => up /\ cursor < nextSeq /\ CursorMissesNothing

\* Only a crash gives numbers again: without one a new row is above every
\* cursor, and a read sends all rows above the cursor it moves.
LEMMA StepCursor == RowsInv /\ CursorInv /\ [Next]_vars => CursorInv'
<1> SUFFICES ASSUME RowsInv, CursorInv, [Next]_vars, crashes' = 0 PROVE CursorInv'
  BY DEF CursorInv
<1>0. /\ rows \in Seq(Rows) /\ nextSeq \in Nat /\ cursor \in Nat /\ crashes \in Nat
      /\ \A i \in DOMAIN rows : rows[i].seq \in Nat
  BY RowTypes, BoundAssumption DEF RowsInv, TypeOK
<1>1. ASSUME NEW r \in Runs, NEW t \in Times, Start(r, t) PROVE CursorInv'
  <2>1. /\ \A i \in DOMAIN rows : rows'[i] = rows[i]
        /\ \A i \in DOMAIN rows' : i \in DOMAIN rows \/ rows'[i].seq = nextSeq
    BY <1>1, <1>0 DEF Start
  <2> QED
    BY <1>1, <1>0, <2>1 DEF Start, counters, client, CursorInv, CursorMissesNothing
<1>2. ASSUME NEW r \in Runs, NEW t \in Times, NEW st \in Statuses, Finish(r, t, st)
      PROVE  CursorInv'
  <2>1. /\ DOMAIN rows' = DOMAIN rows
        /\ \A i \in DOMAIN rows : rows'[i].seq = rows[i].seq /\ rows'[i].run = rows[i].run
    BY <1>2 DEF Finish, Settle
  <2> QED
    BY <1>2, <2>1 DEF Finish, counters, client, CursorInv, CursorMissesNothing
<1>3. CASE ReadFromCursor
  <2>1. \A i \in DOMAIN rows : rows[i].run \in seen'
    BY <1>3, <1>0 DEF ReadFromCursor, CursorInv, CursorMissesNothing, counters
  <2>2. cursor' < nextSeq
    BY <1>3, <1>0 DEF ReadFromCursor, CursorInv, counters, RowsInv, LedgerInv, SeqsIncrease
  <2> QED
    BY <1>3, <2>1, <2>2 DEF ReadFromCursor, CursorInv, CursorMissesNothing, counters
<1>4. CASE FlushStep
  BY <1>4 DEF FlushStep, FlushOpen, FlushRow, FlushDone, FlushFail, CursorInv,
     CursorMissesNothing, client, counters
<1>5. CASE Crash
  BY <1>5, <1>0 DEF Crash
<1>6. CASE Open
  BY <1>6 DEF Open, CursorInv, counters
<1>7. CASE UNCHANGED vars
  BY <1>7 DEF vars, client, counters, CursorInv, CursorMissesNothing
<1> QED
  BY <1>1, <1>2, <1>3, <1>4, <1>5, <1>6, <1>7 DEF Next

\* A client that follows a daemon that did not crash with its cursor has been
\* sent every run the cursor is past, failing rewrites included (state.rs
\* read_from_cursor).
THEOREM CursorComplete == Spec => []CursorMissesNothing
<1>1. Init => CursorInv
  BY DEF Init, CursorInv, CursorMissesNothing
<1>2. Spec => []CursorInv
  BY <1>1, RowsInductive, StepCursor, PTL DEF Spec
<1>3. CursorInv => CursorMissesNothing
  BY DEF CursorInv, CursorMissesNothing
<1> QED
  BY <1>2, <1>3, PTL

-----------------------------------------------------------------------------
\* The stats page.

\* The least-number principle.
LEMMA Least ==
  ASSUME NEW T \in SUBSET Nat, T # {}
  PROVE  \E n \in T : \A m \in T : n <= m
<1> DEFINE R == OpToRel(<, Nat)
<1>1. IsWellFoundedOn(R, Nat) BY NatLessThanWellFounded
<1>2. PICK n \in T : \A m \in T : ~(<<m, n>> \in R) BY <1>1, WFMin
<1>3. \A m \in T : ~(m < n) BY <1>2 DEF OpToRel
<1>. QED BY <1>3

\* Induction over a set of numbers.
LEMMA Climb ==
  ASSUME NEW n \in Nat, NEW T, 0 \in T, \A k \in 0..(n - 1) : k \in T => k + 1 \in T
  PROVE  \A k \in 0..n : k \in T
<1> SUFFICES ASSUME NEW k \in 0..n, k \notin T PROVE FALSE
  OBVIOUS
<1> DEFINE M == {m \in 0..n : m \notin T}
<1>1. M \in SUBSET Nat /\ M # {}
  OBVIOUS
<1>2. PICK m \in M : \A l \in M : m <= l
  BY <1>1, Least
<1>3. m - 1 \in 0..(n - 1) /\ m - 1 \in 0..n
  BY <1>2
<1>4. m - 1 \in T
  BY <1>2, <1>3
<1>5. m - 1 + 1 \in T
  BY <1>3, <1>4
<1> QED
  BY <1>2, <1>5

\* What the buckets of a series add up to.
Sum(counts) == FoldLeft(LAMBDA sum, runs : sum + runs, 0, counts)

\* The last of a set of numbers that grew by one.
LEMMA Newest ==
  ASSUME NEW k \in Nat, NEW t \in SUBSET (1..(k + 1)), k + 1 \in t
  PROVE  Max(t) = k + 1
<1>1. \A m \in t : k + 1 >= m
  OBVIOUS
<1>2. \A x \in t : (\A y \in t : x >= y) => x = k + 1
  OBVIOUS
<1> QED
  BY <1>1, <1>2 DEF Max

\* A fold to the left that adds up is what the partial sums come to.
LEMMA SumIs ==
  ASSUME NEW s \in Seq(Nat), NEW p \in [0..Len(s) -> Nat], p[0] = 0,
         \A k \in 1..Len(s) : p[k] = p[k - 1] + s[k]
  PROVE  Sum(s) = p[Len(s)]
<1> DEFINE n == Len(s)
           Eq(f, t) == f[t] = IF t = {} THEN 0 ELSE f[t \ {Max(t)}] + s[Max(t)]
           iter == CHOOSE f : f = [t \in SUBSET (1..n) |->
                                     IF t = {} THEN 0 ELSE f[t \ {Max(t)}] + s[Max(t)]]
<1>0. n \in Nat /\ DOMAIN s = 1..n
  OBVIOUS
<1>1. Sum(s) = iter[1..n]
  BY <1>0 DEF Sum, FoldLeft, MapThenFoldSet
<1>2. \E f : f = [t \in SUBSET (1..n) |-> IF t = {} THEN 0 ELSE f[t \ {Max(t)}] + s[Max(t)]]
  <2> DEFINE Good(k) == \E f : \A t \in SUBSET (1..k) : Eq(f, t)
             T == {k \in 0..n : Good(k)}
  <2>1. 0 \in T
    <3> DEFINE f == [t \in SUBSET (1..0) |-> 0]
    <3>1. \A t \in SUBSET (1..0) : t = {}
      OBVIOUS
    <3>2. \A t \in SUBSET (1..0) : Eq(f, t)
      BY <3>1
    <3>3. Good(0)
      BY <3>2
    <3>4. 0 \in 0..n
      BY <1>0
    <3> HIDE DEF Good
    <3> QED
      BY <3>3, <3>4
  <2>2. ASSUME NEW k \in 0..(n - 1), k \in T PROVE k + 1 \in T
    <3>1. PICK f : \A t \in SUBSET (1..k) : Eq(f, t)
      BY <2>2
    <3> DEFINE g == [t \in SUBSET (1..(k + 1)) |->
                       IF k + 1 \in t THEN f[t \ {k + 1}] + s[k + 1] ELSE f[t]]
    <3>2. ASSUME NEW t \in SUBSET (1..(k + 1)) PROVE Eq(g, t)
      <4>1. CASE k + 1 \in t
        <5>0. k \in Nat
          BY <1>0
        <5>1. Max(t) = k + 1
          BY <4>1, <5>0, Newest
        <5>2. t \ {k + 1} \in SUBSET (1..(k + 1)) /\ k + 1 \notin t \ {k + 1} /\ t # {}
          BY <4>1
        <5>3. g[t] = f[t \ {k + 1}] + s[k + 1] /\ g[t \ {k + 1}] = f[t \ {k + 1}]
          BY <4>1, <5>2
        <5> QED
          BY <5>1, <5>2, <5>3
      <4>2. CASE k + 1 \notin t
        <5>0. k \in Nat
          BY <1>0
        <5>1. t \in SUBSET (1..k)
          BY <4>2, <5>0
        <5>2. t \ {Max(t)} \in SUBSET (1..(k + 1)) /\ k + 1 \notin t \ {Max(t)}
          BY <4>2
        <5>3. g[t] = f[t] /\ g[t \ {Max(t)}] = f[t \ {Max(t)}]
          BY <4>2, <5>2
        <5> QED
          BY <3>1, <5>1, <5>3
      <4> QED
        BY <4>1, <4>2
    <3>3. Good(k + 1)
      BY <3>2
    <3>4. k + 1 \in 0..n
      BY <1>0
    <3> QED
      BY <3>3, <3>4
  <2>3. n \in T
    <3> HIDE DEF T
    <3>1. \A k \in 0..n : k \in T
      BY <1>0, <2>1, <2>2, Climb
    <3> QED
      BY <1>0, <3>1
  <2>4. PICK f : \A t \in SUBSET (1..n) : Eq(f, t)
    BY <2>3
  <2> DEFINE g == [t \in SUBSET (1..n) |-> f[t]]
  <2>5. ASSUME NEW t \in SUBSET (1..n) PROVE Eq(g, t)
    <3>1. t \ {Max(t)} \in SUBSET (1..n)
      OBVIOUS
    <3> QED
      BY <2>4, <3>1
  <2>6. g = [t \in SUBSET (1..n) |-> IF t = {} THEN 0 ELSE g[t \ {Max(t)}] + s[Max(t)]]
    BY <2>5
  <2> QED
    BY <2>6
<1>3. iter = [t \in SUBSET (1..n) |-> IF t = {} THEN 0 ELSE iter[t \ {Max(t)}] + s[Max(t)]]
  BY <1>2
<1> HIDE DEF iter
<1>4. \A t \in SUBSET (1..n) : iter[t] = IF t = {} THEN 0 ELSE iter[t \ {Max(t)}] + s[Max(t)]
  BY <1>3
<1>5. \A k \in 0..n : iter[1..k] = p[k]
  <2> DEFINE T == {k \in 0..n : iter[1..k] = p[k]}
  <2>1. 0 \in T
    <3>1. 1..0 = {} /\ 1..0 \in SUBSET (1..n)
      OBVIOUS
    <3>2. iter[1..0] = 0
      BY <1>4, <3>1
    <3> QED
      BY <1>0, <3>2
  <2>2. ASSUME NEW k \in 0..(n - 1), k \in T PROVE k + 1 \in T
    <3>1. k \in Nat /\ k + 1 \in 1..n /\ k + 1 \in 0..n /\ k + 1 - 1 = k
      BY <1>0
    <3> DEFINE t == 1..(k + 1)
    <3>2. t \in SUBSET (1..n) /\ t \in SUBSET (1..(k + 1)) /\ k + 1 \in t /\ t \ {k + 1} = 1..k
      BY <1>0, <3>1
    <3> HIDE DEF t
    <3>3. Max(t) = k + 1
      BY <3>1, <3>2, Newest
    <3>a. t \in SUBSET (1..n) /\ t # {} /\ Max(t) = k + 1 /\ t \ {k + 1} = 1..k
      BY <3>2, <3>3
    <3>b. iter[t] = iter[1..k] + s[k + 1]
      BY <1>4, <3>a
    <3>5. iter[1..(k + 1)] = iter[1..k] + s[k + 1]
      BY <3>b DEF t
    <3>c. k + 1 \in 1..Len(s)
      BY <3>1
    <3>6. p[k + 1] = p[k] + s[k + 1]
      <4>1. p[k + 1] = p[k + 1 - 1] + s[k + 1]
        BY <3>c
      <4> QED
        BY <3>1, <4>1
    <3> QED
      BY <2>2, <3>1, <3>5, <3>6
  <2> HIDE DEF T
  <2>3. \A k \in 0..n : k \in T
    BY <1>0, <2>1, <2>2, Climb
  <2> QED
    BY <2>3 DEF T
<1> QED
  BY <1>0, <1>1, <1>5

\* Runs start at an instant.
LEMMA StartTimes ==
  ASSUME rows \in Seq(Rows)
  PROVE  \A i \in DOMAIN rows : rows[i].started \in Times /\ rows[i].started \in Nat
<1>1. ASSUME NEW i \in DOMAIN rows PROVE rows[i].started \in Times
  <2>1. rows[i] \in Rows
    OBVIOUS
  <2> QED
    BY <2>1 DEF Rows
<1> QED
  BY <1>1, TimeAssumption

\* The places of the rows of a window.
LEMMA SinceIs ==
  ASSUME NEW part, NEW floor
  PROVE  /\ DOMAIN Since(part, floor) = {i \in DOMAIN part : part[i].started >= floor}
         /\ \A i \in DOMAIN Since(part, floor) : Since(part, floor)[i] = part[i]
         /\ Since(part, floor) = [i \in {j \in DOMAIN part : part[j].started >= floor} |-> part[i]]
BY DEF Since, RestrictValues, Restrict

\* What a snapshot leaves out is before the window, and before the one before.
LEMMA SnapshotSuffices ==
  ASSUME rows \in Seq(Rows)
  PROVE  SnapshotIsEnough
<1> SUFFICES ASSUME NEW range \in Ranges, NEW at \in Times
             PROVE  AggregateStats(Snapshot(rows, range, at), range, at)
                      = AggregateStats(rows, range, at)
  BY DEF SnapshotIsEnough
<1>1. CASE range = All
  BY <1>1 DEF Snapshot
<1>2. CASE range # All
  <2> DEFINE start == at - range
             floor == at - 2 * range
             part == Since(rows, floor)
             Between(r) == start - range <= r.started /\ r.started < start
  <2>1. range \in Nat /\ at \in Nat /\ \A i \in DOMAIN rows : rows[i].started \in Nat
    BY <1>2, StartTimes, WindowAssumption, TimeAssumption DEF Ranges
  <2>2. /\ start \in Int /\ floor \in Int /\ floor <= start /\ start - range = floor
    BY <2>1
  <2>3. Snapshot(rows, range, at) = part
    BY <1>2 DEF Snapshot
  <2>4. WindowStart(rows, range, at) = start /\ WindowStart(part, range, at) = start
    BY <1>2 DEF WindowStart
  <2>p. /\ DOMAIN part = {i \in DOMAIN rows : rows[i].started >= floor}
        /\ \A i \in DOMAIN part : part[i] = rows[i]
    BY SinceIs
  <2> HIDE DEF part, start, floor
  <2>5. Since(part, start) = Since(rows, start)
    <3>1. {i \in DOMAIN part : part[i].started >= start} = {i \in DOMAIN rows : rows[i].started >= start}
      BY <2>1, <2>2, <2>p
    <3>2. [i \in {j \in DOMAIN part : part[j].started >= start} |-> part[i]]
            = [i \in {j \in DOMAIN rows : rows[j].started >= start} |-> rows[i]]
      BY <2>p, <3>1
    <3>3. /\ Since(part, start) = [i \in {j \in DOMAIN part : part[j].started >= start} |-> part[i]]
          /\ Since(rows, start) = [i \in {j \in DOMAIN rows : rows[j].started >= start} |-> rows[i]]
      BY DEF Since, RestrictValues, Restrict
    <3> QED
      BY <3>2, <3>3
  <2>6. Previous(part, range, start) = Previous(rows, range, start)
    <3>1. {i \in DOMAIN part : Between(part[i])} = {i \in DOMAIN rows : Between(rows[i])}
      BY <2>1, <2>2, <2>p
    <3>2. [i \in {j \in DOMAIN part : Between(part[j])} |-> part[i]]
            = [i \in {j \in DOMAIN rows : Between(rows[j])} |-> rows[i]]
      BY <2>p, <3>1
    <3>3. RestrictValues(part, LAMBDA r : start - range <= r.started /\ r.started < start)
            = RestrictValues(rows, LAMBDA r : start - range <= r.started /\ r.started < start)
      BY <3>2 DEF RestrictValues, Restrict
    <3> QED
      BY <3>3 DEF Previous
  <2> QED
    BY <2>3, <2>4, <2>5, <2>6 DEF AggregateStats
<1> QED
  BY <1>1, <1>2

\* Division by the number of buckets keeps the order.
LEMMA DivKeepsOrder ==
  ASSUME NEW n \in Nat \ {0}, NEW x \in Nat, NEW y \in Nat, x <= y
  PROVE  x \div n \in Nat /\ y \div n \in Nat /\ x \div n <= y \div n
OBVIOUS

\* The edges of the buckets rise from the start of the window.
Edge(k, start, at) == start + ((at - start) * k) \div Buckets

LEMMA EdgesRise ==
  ASSUME NEW start \in Int, NEW at \in Int, start <= at
  PROVE  /\ Edge(0, start, at) = start
         /\ \A k \in Nat : Edge(k, start, at) \in Int
         /\ \A k \in Nat : Edge(k, start, at) <= Edge(k + 1, start, at)
<1> DEFINE span == at - start
<1>0. span \in Nat /\ Buckets \in Nat \ {0}
  BY BucketAssumption
<1> HIDE DEF span
<1>1. 0 \div Buckets = 0
  BY <1>0
<1>2. span * 0 = 0
  BY <1>0
<1>3. ASSUME NEW k \in Nat
      PROVE  /\ (span * k) \div Buckets \in Nat
             /\ (span * k) \div Buckets <= (span * (k + 1)) \div Buckets
             /\ (span * (k + 1)) \div Buckets \in Nat
  <2> DEFINE x == span * k
             y == span * (k + 1)
  <2>1. x \in Nat /\ y \in Nat /\ x <= y
    <3>1. x \in Nat /\ y = x + span
      BY <1>0
    <3> QED
      BY <1>0, <3>1
  <2> HIDE DEF x, y
  <2>2. x \div Buckets \in Nat /\ y \div Buckets \in Nat /\ x \div Buckets <= y \div Buckets
    BY <1>0, <2>1, DivKeepsOrder
  <2> QED
    BY <2>2 DEF x, y
<1>4. \A k \in Nat : Edge(k, start, at) = start + (span * k) \div Buckets
  BY DEF Edge, span
<1> QED
  <2>1. Edge(0, start, at) = start
    BY <1>1, <1>2, <1>4
  <2>2. ASSUME NEW k \in Nat
        PROVE  Edge(k, start, at) \in Int /\ Edge(k, start, at) <= Edge(k + 1, start, at)
    <3> DEFINE x == (span * k) \div Buckets
               y == (span * (k + 1)) \div Buckets
    <3>1. x \in Nat /\ y \in Nat /\ x <= y
      BY <1>3
    <3>2. Edge(k, start, at) = start + x /\ Edge(k + 1, start, at) = start + y
      BY <1>4
    <3> HIDE DEF x, y
    <3> QED
      BY <3>1, <3>2
  <2> QED
    BY <2>1, <2>2

\* Where a window begins.
LEMMA StartIs ==
  ASSUME rows \in Seq(Rows), NEW range \in Ranges, NEW at \in Times
  PROVE  WindowStart(rows, range, at) \in Int
<1>1. CASE range = All
  <2> DEFINE T == {at} \cup {rows[i].started : i \in DOMAIN rows}
  <2>1. T \in SUBSET Nat /\ T # {}
    BY StartTimes, TimeAssumption
  <2> HIDE DEF T
  <2>2. \E x \in T : \A y \in T : x =< y
    BY <2>1, Least
  <2>3. Min(T) \in T
    BY <2>2 DEF Min
  <2> QED
    BY <1>1, <2>1, <2>3 DEF WindowStart, T
<1>2. CASE range # All
  <2>1. range \in Nat /\ at \in Nat
    BY <1>2, WindowAssumption, TimeAssumption DEF Ranges
  <2> QED
    BY <1>2, <2>1 DEF WindowStart
<1> QED
  BY <1>1, <1>2

\* The buckets of a window split its runs.
LEMMA SeriesSums ==
  ASSUME rows \in Seq(Rows), NEW range \in Ranges, NEW at \in Times,
         \A i \in DOMAIN rows : rows[i].started <= at,
         AggregateStats(rows, range, at).throughput # <<>>
  PROVE  Sum(AggregateStats(rows, range, at).throughput) = AggregateStats(rows, range, at).total
<1> DEFINE start == WindowStart(rows, range, at)
           part == Since(rows, start)
           C == DOMAIN part
           edge(k) == Edge(k, start, at)
           B(b) == {i \in C : InBucket(b - 1, rows[i].started, start, at)}
           U(k) == IF k = Buckets THEN C ELSE {i \in C : rows[i].started < edge(k)}
           series == [b \in 1..Buckets |-> Cardinality(B(b))]
           p == [k \in 0..Buckets |-> Cardinality(U(k))]
<1>1. start \in Int /\ at \in Nat /\ Buckets \in Nat \ {0}
  BY StartIs, TimeAssumption, BucketAssumption
<1>2. /\ AggregateStats(rows, range, at).throughput = Throughput(part, start, at)
      /\ AggregateStats(rows, range, at).total = Cardinality(C)
  BY DEF AggregateStats
<1>3. start < at
  <2>1. Throughput(part, start, at) # <<>>
    BY <1>2
  <2> HIDE DEF start, part
  <2>2. ASSUME at <= start PROVE FALSE
    <3>1. Throughput(part, start, at) = <<>>
      BY <2>2 DEF Throughput
    <3> QED
      BY <2>1, <3>1
  <2>3. ~(at <= start)
    BY <2>2
  <2> QED
    BY <1>1, <2>3
<1> HIDE DEF start
<1>4. /\ C = {i \in DOMAIN rows : rows[i].started >= start} /\ IsFiniteSet(C)
      /\ \A i \in C : part[i] = rows[i] /\ rows[i].started \in Nat
                      /\ start <= rows[i].started /\ rows[i].started <= at
  <2>1. C = {i \in DOMAIN rows : rows[i].started >= start} /\ \A i \in C : part[i] = rows[i]
    BY SinceIs
  <2>2. 1 \in Int /\ Len(rows) \in Int /\ DOMAIN rows = 1..Len(rows)
    OBVIOUS
  <2>3. IsFiniteSet(C)
    <3>1. IsFiniteSet(1..Len(rows))
      BY <2>2, FS_Interval
    <3>2. C \subseteq 1..Len(rows)
      BY <2>1, <2>2
    <3> QED
      BY <3>1, <3>2, FS_Subset
  <2> QED
    BY <1>1, <2>1, <2>3, StartTimes
<1> HIDE DEF part, C
<1>5. Throughput(part, start, at) = series
  <2>1. \A b \in 1..Buckets :
          {i \in DOMAIN part : InBucket(b - 1, part[i].started, start, at)} = B(b)
    BY <1>4 DEF C
  <2>2. ~(at <= start)
    BY <1>1, <1>3
  <2>3. Throughput(part, start, at)
          = [b \in 1..Buckets |-> Cardinality({i \in DOMAIN part :
                                     InBucket(b - 1, part[i].started, start, at)})]
    BY <2>2 DEF Throughput, CountWhere
  <2>4. \A b \in 1..Buckets :
          Cardinality({i \in DOMAIN part : InBucket(b - 1, part[i].started, start, at)})
            = Cardinality(B(b))
    BY <2>1
  <2> HIDE DEF B
  <2> QED
    BY <2>3, <2>4
<1>6. /\ edge(0) = start
      /\ \A k \in Nat : edge(k) \in Int /\ edge(k) <= edge(k + 1)
  <2>1. start \in Int /\ at \in Int /\ start <= at
    BY <1>1, <1>3
  <2>2. /\ Edge(0, start, at) = start
        /\ \A k \in Nat : Edge(k, start, at) \in Int
        /\ \A k \in Nat : Edge(k, start, at) <= Edge(k + 1, start, at)
    BY <2>1, EdgesRise
  <2> QED
    BY <2>2
<1>7. \A k \in 0..Buckets : U(k) \in SUBSET C /\ IsFiniteSet(U(k)) /\ Cardinality(U(k)) \in Nat
  BY <1>4, FS_Subset, FS_CardinalityType
<1>8. U(0) = {} /\ U(Buckets) = C
  <2>1. U(0) = {i \in C : rows[i].started < start}
    BY <1>1, <1>6
  <2>2. \A i \in C : ~(rows[i].started < start)
    BY <1>1, <1>4
  <2> QED
    BY <2>1, <2>2
<1>9. ASSUME NEW k \in 1..Buckets
      PROVE  U(k - 1) \cup B(k) = U(k) /\ U(k - 1) \cap B(k) = {} /\ B(k) \in SUBSET C
  <2>1. k - 1 \in Nat /\ k - 1 # Buckets /\ k \in Nat
    BY <1>1
  <2>2. edge(k - 1) \in Int /\ edge(k) \in Int /\ edge(k - 1) <= edge(k)
    BY <1>6, <2>1
  <2>3. \A t \in Nat : t <= at =>
          (InBucket(k - 1, t, start, at) <=> t >= edge(k - 1) /\ (t < edge(k) \/ k = Buckets))
    BY <1>1, <2>1 DEF InBucket, Edge
  <2> HIDE DEF edge
  <2> QED
    BY <1>1, <1>4, <2>1, <2>2, <2>3
<1>10. series \in Seq(Nat) /\ Len(series) = Buckets
  <2>1. \A b \in 1..Buckets : Cardinality(B(b)) \in Nat
    BY <1>4, <1>9, FS_Subset, FS_CardinalityType
  <2> HIDE DEF B
  <2> QED
    BY <1>1, <2>1
<1>11. ASSUME NEW k \in 1..Buckets PROVE p[k] = p[k - 1] + series[k]
  <2>1. k \in 0..Buckets /\ k - 1 \in 0..Buckets
    BY <1>1
  <2>2. IsFiniteSet(U(k - 1)) /\ IsFiniteSet(B(k))
    BY <1>4, <1>7, <1>9, <2>1, FS_Subset
  <2> HIDE DEF U, B
  <2>3. Cardinality(U(k - 1) \cup B(k)) = Cardinality(U(k - 1)) + Cardinality(B(k))
    <3>1. Cardinality(U(k - 1) \cup B(k))
            = Cardinality(U(k - 1)) + Cardinality(B(k)) - Cardinality(U(k - 1) \cap B(k))
      BY <2>2, FS_Union
    <3>2. Cardinality(U(k - 1) \cap B(k)) = 0
      BY <1>9, FS_EmptySet
    <3>3. Cardinality(U(k - 1)) \in Nat /\ Cardinality(B(k)) \in Nat
      BY <2>2, FS_CardinalityType
    <3> QED
      BY <3>1, <3>2, <3>3
  <2> QED
    BY <1>9, <2>1, <2>3
<1>12. p \in [0..Buckets -> Nat] /\ p[0] = 0 /\ p[Buckets] = Cardinality(C)
  <2> HIDE DEF U
  <2>1. p \in [0..Buckets -> Nat] /\ p[0] = Cardinality(U(0)) /\ p[Buckets] = Cardinality(U(Buckets))
    BY <1>1, <1>7
  <2> QED
    BY <1>8, <2>1, FS_EmptySet
<1> HIDE DEF p, series
<1>13. Sum(series) = p[Buckets]
  BY <1>10, <1>11, <1>12, SumIs
<1> QED
  BY <1>2, <1>5, <1>12, <1>13

\* A snapshot and the whole ledger give the same numbers, and a series counts
\* every run of its window once: of any rows, at any time, in any number of
\* buckets (state.rs stats, aggregate_stats, bucket_runs).
THEOREM StatsRight == Spec => []StatsComplete
<1>1. TypeOK => StatsComplete
  <2> SUFFICES ASSUME rows \in Seq(Rows) PROVE StatsComplete
    BY DEF TypeOK
  <2>1. SeriesCountsOnce
    <3> SUFFICES ASSUME NEW range \in Ranges, NEW at \in Times,
                        \A i \in DOMAIN rows : rows[i].started <= at,
                        AggregateStats(rows, range, at).throughput # <<>>
                 PROVE  Sum(AggregateStats(rows, range, at).throughput)
                          = AggregateStats(rows, range, at).total
      BY DEF SeriesCountsOnce, Sum
    <3> QED
      BY SeriesSums
  <2> QED
    BY <2>1, SnapshotSuffices DEF StatsComplete
<1> QED
  BY <1>1, LedgerTyped, PTL

-----------------------------------------------------------------------------
\* How a daemon comes and goes.

\* A call is at a process, and the states of the processes and launchers.
CallsAt(places) == {NoCall} \cup [at : places, whom : Launchers]
ProcessStates == {"none", "spawned", "gone"} \cup Live
LauncherStates == {"idle", "probe", "recheck", "spawn", "wait"} \cup Ended
LifeTyped ==
  /\ process \in [Launchers -> ProcessStates]
  /\ launcher \in [Launchers -> LauncherStates]
  /\ omp \in BOOLEAN /\ broken \in BOOLEAN /\ turns \in 0..MaxTurns
  /\ shutdown \subseteq Launchers /\ accepting \subseteq Launchers
  /\ ticking \subseteq Launchers /\ turn \subseteq Launchers
  /\ deaf \subseteq Launchers /\ late \subseteq Launchers
  /\ ping \in [Launchers -> CallsAt({"connected", "handled"})]
  /\ stop \in CallsAt({"connected", "handled", "told"})

\* One process at most is past the lock, and who accepts serves.  Until
\* something is told to stop, or fails, a process that was spawned has one that is up or on its way, whoever
\* serves accepts, every ping is at a process with a socket, and a launcher gives
\* up only on a start under way.
Up == {"spawned", "starting", "bound", "serving"}
Unspawned == {"idle", "probe", "recheck", "spawn"}
Calm == shutdown = {} /\ ~broken /\ deaf = {}
MeetInv ==
  /\ \A d, e \in Launchers : process[d] \in Live /\ process[e] \in Live => d = e
  /\ \A l \in Launchers : launcher[l] = "wait" => process[l] # "none"
  /\ \A l \in Launchers : launcher[l] \in Unspawned => process[l] = "none"
  /\ \A d \in accepting : process[d] = "serving"
  /\ Calm =>
       /\ \A d \in Launchers : process[d] \notin {"joining", "resetting"}
       /\ (\E d \in Launchers : process[d] # "none") => \E d \in Launchers : process[d] \in Up
       /\ \A d \in Launchers : process[d] = "serving" => d \in accepting
       /\ \A l \in Launchers :
            ping[l].at # "none" => process[ping[l].whom] \in {"bound", "serving"}
       /\ \A l \in Launchers : launcher[l] = "failed" => l \in late

LifeInv == LifeTyped /\ MeetInv

\* The invariant holds before anything is launched.
LEMMA LifeStart == LifeInit => LifeInv
<1> SUFFICES ASSUME LifeInit PROVE LifeInv OBVIOUS
<1>1. LifeTyped
  <2>1. turns \in 0..MaxTurns BY LifeAssumption DEF LifeInit
  <2>2. omp \in BOOLEAN /\ broken \in BOOLEAN BY DEF LifeInit
  <2>3. process \in [Launchers -> ProcessStates] /\ launcher \in [Launchers -> LauncherStates]
    BY DEF LifeInit, ProcessStates, LauncherStates
  <2>4. /\ ping \in [Launchers -> CallsAt({"connected", "handled"})]
        /\ stop \in CallsAt({"connected", "handled", "told"})
    BY DEF LifeInit, CallsAt
  <2>5. /\ shutdown = {} /\ accepting = {} /\ ticking = {} /\ turn = {}
        /\ deaf = {} /\ late = {}
    BY DEF LifeInit
  <2>. QED BY <2>1, <2>2, <2>3, <2>4, <2>5 DEF LifeTyped
<1>2. MeetInv BY DEF LifeInit, MeetInv, Live, NoCall
<1>. QED BY <1>1, <1>2 DEF LifeInv

\* Every step keeps the types.
LEMMA LifeTypes == LifeTyped /\ [LifeNext]_lifeVars => LifeTyped'
<1> SUFFICES ASSUME LifeTyped, [LifeNext]_lifeVars PROVE LifeTyped' OBVIOUS
<1> USE DEF LifeTyped, hosted
<1>1. ASSUME NEW d \in Launchers, Accept(d) PROVE LifeTyped'
  <2>1. CASE \E l \in Launchers :
          /\ ping[l] = [at |-> "connected", whom |-> d]
          /\ ping' = [ping EXCEPT ![l].at = "handled"] /\ UNCHANGED stop
    <3>1. PICK l \in Launchers : /\ ping[l] = [at |-> "connected", whom |-> d]
                                 /\ ping' = [ping EXCEPT ![l].at = "handled"] /\ UNCHANGED stop
      BY <2>1
    <3>2. ping' = [ping EXCEPT ![l] = [at |-> "handled", whom |-> d]]
      <4>1. [ping[l] EXCEPT !.at = "handled"] = [at |-> "handled", whom |-> d] BY <3>1
      <4>2. ping' = [ping EXCEPT ![l] = [ping[l] EXCEPT !.at = "handled"]] BY <3>1
      <4>. QED BY <4>1, <4>2
    <3>3. [at |-> "handled", whom |-> d] \in CallsAt({"connected", "handled"}) BY DEF CallsAt
    <3>. QED BY <3>1, <3>2, <3>3, <1>1 DEF Accept
  <2>2. CASE stop = [at |-> "connected", whom |-> d] /\ stop' = [stop EXCEPT !.at = "handled"] /\ UNCHANGED ping
    <3>1. stop' = [at |-> "handled", whom |-> d] BY <2>2
    <3>2. stop' \in CallsAt({"connected", "handled", "told"}) BY <3>1 DEF CallsAt
    <3>. QED BY <2>2, <3>2, <1>1 DEF Accept
  <2>. QED BY <1>1, <2>1, <2>2 DEF Accept
<1>2. ASSUME NEW l \in Launchers, Launching(l) PROVE LifeTyped'
  <2>1. CASE Launch(l) BY <2>1 DEF Launch, LauncherStates
  <2>2. CASE Connect(l)
    <3>1. PICK d \in Listening : ping' = [ping EXCEPT ![l] = [at |-> "connected", whom |-> d]]
      BY <2>2 DEF Connect
    <3>2. [at |-> "connected", whom |-> d] \in CallsAt({"connected", "handled"})
      BY DEF CallsAt, Listening
    <3>. QED BY <2>2, <3>1, <3>2 DEF Connect
  <2>3. NoCall \in CallsAt({"connected", "handled"}) BY DEF CallsAt
  <2>4. CASE Unanswered(l)
    <3>1. AfterNo(l) \in LauncherStates BY DEF AfterNo, LauncherStates
    <3>. QED BY <2>3, <2>4, <3>1 DEF Unanswered
  <2>5. CASE Pong(l) BY <2>3, <2>5 DEF Pong, LauncherStates, Ended
  <2>6. CASE Spawn(l) BY <2>6 DEF Spawn, LauncherStates, ProcessStates
  <2>7. CASE GiveUp(l)
    <3>1. late' \subseteq Launchers BY <2>7 DEF GiveUp
    <3>. QED BY <2>3, <2>7, <3>1 DEF GiveUp, LauncherStates, Ended
  <2>. QED BY <1>2, <2>1, <2>2, <2>4, <2>5, <2>6, <2>7 DEF Launching
<1>3. ASSUME NEW d \in Launchers, Coming(d) \/ StartFails(d) \/ LoopBreaks(d) \/ Stopping(d)
      PROVE  LifeTyped'
  <2>1. CASE StartUp(d) BY <2>1 DEF StartUp, ProcessStates, Live
  <2>2. CASE BeginServe(d) BY <2>2 DEF BeginServe, ProcessStates, Live
  <2>3. CASE StartFails(d) BY <2>3 DEF StartFails, ProcessStates
  <2>4. CASE AcceptEnds(d) BY <2>4 DEF AcceptEnds
  <2>5. CASE MainStops(d) BY <2>5 DEF MainStops, ProcessStates, Live
  <2>6. CASE JoinReaper(d) BY <2>6 DEF JoinReaper, ProcessStates, Live
  <2>7. CASE ExitProcess(d) BY <2>7 DEF ExitProcess, ProcessStates
  <2>8. CASE BindSocket(d) BY <2>8 DEF BindSocket, ProcessStates, Live
  <2>9. CASE LoopBreaks(d) BY <2>9 DEF LoopBreaks
  <2>. QED BY <1>3, <2>1, <2>2, <2>3, <2>4, <2>5, <2>6, <2>7, <2>8, <2>9 DEF Coming, Stopping
<1>4. ASSUME NEW d \in Launchers, Signal(d) \/ TickBegins(d) \/ TickEnds(d) \/ TurnGivesUp(d) PROVE LifeTyped'
  BY <1>4 DEF Signal, TickBegins, TickEnds, TurnGivesUp
<1>5. ASSUME NEW d \in Launchers, TurnTakes(d) PROVE LifeTyped'
  <2>1. turns' \in 0..MaxTurns BY <1>5, LifeAssumption DEF TurnTakes
  <2>. QED BY <2>1, <1>5 DEF TurnTakes
<1>6. CASE Stop
  <2>1. CASE StopConnects
    <3>1. stop' \in CallsAt({"connected", "handled", "told"})
      BY <2>1 DEF StopConnects, CallsAt, Listening
    <3>. QED BY <2>1, <3>1 DEF StopConnects
  <2>2. ASSUME stop.at \in {"connected", "handled"}, stop' = [stop EXCEPT !.at = "told"]
        PROVE  stop.whom \in Launchers /\ stop' \in CallsAt({"connected", "handled", "told"})
    <3>1. stop \in [at : {"connected", "handled", "told"}, whom : Launchers]
      BY <2>2 DEF CallsAt, NoCall
    <3>. QED BY <2>2, <3>1 DEF CallsAt
  <2>3. CASE StopHandled BY <2>2, <2>3 DEF StopHandled
  <2>4. CASE StopFails BY <2>2, <2>4 DEF StopFails, Lost
  <2>. QED BY <1>6, <2>1, <2>3, <2>4 DEF Stop
<1>7. CASE UNCHANGED lifeVars BY <1>7 DEF lifeVars
<1>. QED BY <1>1, <1>2, <1>3, <1>4, <1>5, <1>6, <1>7 DEF LifeNext

\* Every step keeps one process past the lock and somebody on the way up.
LEMMA LifeMeets == LifeInv /\ [LifeNext]_lifeVars => MeetInv'
<1> SUFFICES ASSUME LifeInv, [LifeNext]_lifeVars PROVE MeetInv' OBVIOUS
<1> USE DEF hosted
<1>0. /\ process \in [Launchers -> ProcessStates] /\ launcher \in [Launchers -> LauncherStates]
      /\ ping \in [Launchers -> CallsAt({"connected", "handled"})]
      /\ MeetInv
  BY DEF LifeInv, LifeTyped
<1>a. \A l \in Launchers : ping[l].at # "none" => ping[l].whom \in Launchers
  BY <1>0 DEF CallsAt, NoCall
\* Steps that leave the processes alone.
<1>1. ASSUME process' = process, shutdown \subseteq shutdown', broken' = broken, deaf \subseteq deaf',
             late \subseteq late', accepting' \subseteq accepting, Calm' => accepting' = accepting,
             \A l \in Launchers : ping'[l].at # "none" =>
               ping[l].at # "none" /\ ping'[l].whom = ping[l].whom,
             \A l \in Launchers : launcher'[l] = "wait" => launcher[l] = "wait",
             \A l \in Launchers : launcher'[l] \in Unspawned => launcher[l] \in Unspawned,
             \A l \in Launchers : launcher'[l] = "failed" =>
               launcher[l] = "failed" \/ ~Calm' \/ l \in late'
      PROVE  MeetInv'
  <2>1. Calm' => Calm BY <1>1 DEF Calm
  <2>. QED BY <2>1, <1>0, <1>1 DEF MeetInv
<1>2. ASSUME NEW l \in Launchers, Launch(l) \/ Unanswered(l) \/ Pong(l) PROVE MeetInv'
  <2>1. /\ process' = process /\ shutdown' = shutdown /\ broken' = broken /\ deaf' = deaf
        /\ late' = late /\ accepting' = accepting
    BY <1>2 DEF Launch, Unanswered, Pong
  <2>2. ASSUME NEW m \in Launchers
        PROVE  /\ launcher'[m] = "wait" => launcher[m] = "wait"
               /\ launcher'[m] = "failed" => launcher[m] = "failed"
               /\ launcher'[m] \in Unspawned => launcher[m] \in Unspawned
    <3>1. CASE Launch(l) BY <3>1, <1>0 DEF Launch, Unspawned
    <3>3. CASE Unanswered(l)
      <4>1. AfterNo(l) # "failed" /\ (AfterNo(l) = "wait" => launcher[l] = "wait") BY DEF AfterNo
      <4>2. AfterNo(l) \in Unspawned /\ Pinging(l) => launcher[l] \in Unspawned
        BY DEF AfterNo, Unspawned, Pinging
      <4>. QED BY <4>1, <4>2, <3>3, <1>0 DEF Unanswered
    <3>4. CASE Pong(l) BY <3>4, <1>0 DEF Pong, Unspawned
    <3>. QED BY <1>2, <3>1, <3>3, <3>4
  <2>3. ASSUME NEW m \in Launchers, ping'[m].at # "none" PROVE ping'[m] = ping[m]
    <3>1. ping' = ping \/ ping' = [ping EXCEPT ![l] = NoCall] BY <1>2 DEF Launch, Unanswered, Pong
    <3>. QED BY <2>3, <3>1, <1>0 DEF NoCall
  <2>. QED BY <2>1, <2>2, <2>3, <1>1
\* A probe connects to a process with a socket.
<1>14. ASSUME NEW l \in Launchers, Connect(l) PROVE MeetInv'
  <2>1. PICK d \in Listening : ping' = [ping EXCEPT ![l] = [at |-> "connected", whom |-> d]]
    BY <1>14 DEF Connect
  <2>2. /\ process' = process /\ launcher' = launcher /\ shutdown' = shutdown /\ broken' = broken
        /\ deaf' = deaf /\ late' = late /\ accepting' = accepting
    BY <1>14 DEF Connect
  <2>3. d \in Launchers /\ (process[d] = "bound" \/ d \in accepting) BY <2>1 DEF Listening
  <2>4. process[d] \in {"bound", "serving"} BY <2>3, <1>0 DEF MeetInv
  <2>5. \A m \in Launchers : ping'[m].at # "none" /\ m # l => ping'[m] = ping[m] BY <2>1, <1>0
  <2>6. ping'[l].whom = d BY <2>1, <1>0
  <2>7. Calm' => Calm BY <2>2 DEF Calm
  <2>. QED BY <2>2, <2>4, <2>5, <2>6, <2>7, <1>0 DEF MeetInv
<1>3. ASSUME NEW l \in Launchers, Spawn(l) PROVE MeetInv'
  <2>1. /\ process' = [process EXCEPT ![l] = "spawned"] /\ launcher' = [launcher EXCEPT ![l] = "wait"]
        /\ shutdown' = shutdown /\ broken' = broken /\ deaf' = deaf /\ late' = late
        /\ accepting' = accepting /\ ping' = ping /\ launcher[l] = "spawn"
    BY <1>3 DEF Spawn
  <2>2. process[l] = "none" BY <2>1, <1>0 DEF MeetInv, Unspawned
  <2>3. Calm' => Calm BY <2>1 DEF Calm
  <2>4. process'[l] = "spawned" /\ \A m \in Launchers : m # l => process'[m] = process[m]
    BY <2>1, <1>0
  <2>5. ASSUME Calm', NEW m \in Launchers, ping'[m].at # "none"
        PROVE  process'[ping'[m].whom] \in {"bound", "serving"}
    BY <2>1, <2>2, <2>3, <2>4, <2>5, <1>0, <1>a DEF MeetInv
  <2>6. \A d \in accepting' : process'[d] = "serving"
    BY <2>1, <2>2, <2>4, <1>0 DEF MeetInv, LifeInv, LifeTyped
  <2>7. \A m \in Launchers :
          /\ launcher'[m] = "wait" => process'[m] # "none"
          /\ launcher'[m] \in Unspawned => process'[m] = "none"
    BY <2>1, <2>4, <1>0 DEF MeetInv, Unspawned
  <2>8. \A d, e \in Launchers : process'[d] \in Live /\ process'[e] \in Live => d = e
    BY <2>4, <1>0 DEF MeetInv, Live
  <2>9. Calm' =>
          /\ \A d \in Launchers : process'[d] \notin {"joining", "resetting"}
          /\ \E d \in Launchers : process'[d] \in Up
          /\ \A d \in Launchers : process'[d] = "serving" => d \in accepting'
          /\ \A m \in Launchers : launcher'[m] = "failed" => m \in late'
    BY <2>1, <2>3, <2>4, <1>0 DEF MeetInv, Up
  <2>. QED BY <2>5, <2>6, <2>7, <2>8, <2>9 DEF MeetInv
\* Who gives up while all is calm has seen no socket: somebody is on the way.
<1>4. ASSUME NEW l \in Launchers, GiveUp(l) PROVE MeetInv'
  <2>1. /\ process' = process /\ shutdown' = shutdown /\ broken' = broken /\ deaf' = deaf
        /\ accepting' = accepting /\ ping' = [ping EXCEPT ![l] = NoCall]
        /\ launcher[l] = "wait" /\ launcher' = [launcher EXCEPT ![l] = "failed"]
        /\ late' = late \cup {m \in {l} : ComingUp}
        /\ (ping[l] = NoCall /\ Listening = {}) \/ Lost(ping[l])
    BY <1>4 DEF GiveUp
  <2>2. ASSUME Calm PROVE ComingUp
    <3>1. ~Lost(ping[l])
      <4>1. ping[l].at # "none" =>
              /\ ping[l].whom \in Launchers
              /\ process[ping[l].whom] \in {"bound", "serving"}
        BY <2>2, <1>0, <1>a DEF MeetInv
      <4>2. ping[l].at # "none" => ping[l].whom \in Listening
        BY <4>1, <2>2, <1>0 DEF MeetInv, Listening
      <4>. QED BY <4>1, <4>2 DEF Lost
    <3>2. Listening = {} BY <2>1, <3>1
    <3>3. PICK d \in Launchers : process[d] \in Up BY <2>1, <2>2, <1>0 DEF MeetInv
    <3>4. process[d] \notin {"bound", "serving"} BY <3>2, <2>2, <1>0 DEF Listening, MeetInv
    <3>. QED BY <3>3, <3>4 DEF Up, ComingUp
  <2>3. Calm' => Calm BY <2>1 DEF Calm
  <2>4. Calm' => l \in late' BY <2>1, <2>2, <2>3
  <2>5. \A m \in Launchers : ping'[m].at # "none" => ping'[m] = ping[m] BY <2>1, <1>0 DEF NoCall
  <2>6. \A m \in Launchers :
          /\ launcher'[m] = "wait" => launcher[m] = "wait"
          /\ launcher'[m] = "failed" => launcher[m] = "failed" \/ m = l
          /\ launcher'[m] \in Unspawned => launcher[m] \in Unspawned
    BY <2>1, <1>0 DEF Unspawned
  <2>. QED BY <2>1, <2>4, <2>5, <2>6, <1>1
<1>5. ASSUME NEW d \in Launchers, StartUp(d) PROVE MeetInv'
  <2>1. /\ process[d] = "spawned" /\ launcher' = launcher /\ shutdown' = shutdown /\ broken' = broken
        /\ deaf' = deaf /\ late' = late /\ accepting' = accepting /\ ping' = ping
        /\ process' = [process EXCEPT ![d] =
             IF \E e \in Launchers : process[e] \in Live THEN "gone" ELSE "starting"]
    BY <1>5 DEF StartUp
  <2>2. CASE \E e \in Launchers : process[e] \in Live
    <3>1. PICK e \in Launchers : process[e] \in Live BY <2>2
    <3>2. process' = [process EXCEPT ![d] = "gone"] /\ e # d BY <2>1, <2>2, <3>1 DEF Live
    <3>3. process'[e] = process[e] BY <3>2, <1>0
    <3>4. \A f \in Launchers : process'[f] \in Live => process[f] \in Live BY <3>2, <1>0 DEF Live
    <3>5. Calm => process'[e] \in Up
      BY <3>1, <3>3, <1>0 DEF MeetInv, Live, Up
    <3>6. \A f \in Launchers :
            /\ process'[f] \in {"joining", "resetting"} => process[f] \in {"joining", "resetting"}
            /\ process'[f] = "none" => process[f] = "none"
            /\ process[f] \in {"bound", "serving"} => process'[f] = process[f]
            /\ process'[f] = "serving" => process[f] = "serving"
      BY <2>1, <3>2, <1>0
    <3>7. Calm' => Calm BY <2>1 DEF Calm
    <3>8. \A f \in accepting' : process'[f] = "serving"
      BY <2>1, <3>2, <1>0 DEF MeetInv, LifeInv, LifeTyped
    <3>. QED BY <2>1, <3>4, <3>5, <3>6, <3>7, <3>8, <1>0, <1>a DEF MeetInv
  <2>3. CASE ~\E e \in Launchers : process[e] \in Live
    <3>1. process' = [process EXCEPT ![d] = "starting"] BY <2>1, <2>3
    <3>2. Calm' => Calm BY <2>1 DEF Calm
    <3>. QED BY <2>1, <2>3, <3>1, <3>2, <1>0, <1>a DEF MeetInv, Live, Up
  <2>. QED BY <2>2, <2>3
<1>6. ASSUME NEW d \in Launchers, NEW from \in {"starting", "bound"}, NEW to \in {"bound", "serving"},
             process[d] = from, process' = [process EXCEPT ![d] = to], to = "serving" => d \in accepting',
             accepting \subseteq accepting', accepting' \subseteq accepting \cup {x \in {d} : to = "serving"},
             launcher' = launcher, shutdown' = shutdown, broken' = broken, deaf' = deaf,
             late' = late, ping' = ping
      PROVE  MeetInv'
  <2>1. Calm' => Calm BY <1>6 DEF Calm
  <2>2. \A f \in Launchers : f # d => process'[f] = process[f] BY <1>6, <1>0
  <2>3. process'[d] = to BY <1>6, <1>0
  <2>4. \A e, f \in Launchers : process'[e] \in Live /\ process'[f] \in Live => e = f
    BY <1>6, <2>2, <2>3, <1>0 DEF MeetInv, Live
  <2>5. \A f \in accepting' : process'[f] = "serving"
    BY <1>6, <2>2, <2>3, <1>0 DEF MeetInv, LifeInv, LifeTyped
  <2>6. ASSUME Calm', NEW l \in Launchers, ping'[l].at # "none"
        PROVE  process'[ping'[l].whom] \in {"bound", "serving"}
    BY <1>6, <2>1, <2>2, <2>3, <2>6, <1>0, <1>a DEF MeetInv
  <2>7. \A l \in Launchers :
          /\ launcher'[l] = "wait" => process'[l] # "none"
          /\ launcher'[l] \in Unspawned => process'[l] = "none"
    BY <1>6, <2>2, <2>3, <1>0 DEF MeetInv
  <2>8. Calm' =>
          /\ \A e \in Launchers : process'[e] \notin {"joining", "resetting"}
          /\ (\E e \in Launchers : process'[e] # "none") => \E e \in Launchers : process'[e] \in Up
          /\ \A e \in Launchers : process'[e] = "serving" => e \in accepting'
          /\ \A l \in Launchers : launcher'[l] = "failed" => l \in late'
    BY <1>6, <2>1, <2>2, <2>3, <1>0 DEF MeetInv, Up
  <2>. QED BY <2>4, <2>5, <2>6, <2>7, <2>8 DEF MeetInv
<1>15. ASSUME NEW d \in Launchers, BindSocket(d) \/ BeginServe(d) PROVE MeetInv'
  <2>1. CASE BindSocket(d) BY <2>1, <1>6 DEF BindSocket
  <2>2. CASE BeginServe(d) BY <2>2, <1>6 DEF BeginServe
  <2>. QED BY <1>15, <2>1, <2>2
\* Once something was told to stop or fails, a process may end.
<1>7. ASSUME NEW d \in Launchers, NEW state \in {"joining", "resetting", "gone"},
             process[d] \in Live \cup {"spawned"}, state # "gone" => process[d] \in Live,
             d \notin accepting, process' = [process EXCEPT ![d] = state],
             launcher' = launcher, accepting' = accepting, ~Calm'
      PROVE  MeetInv'
  BY <1>0, <1>7 DEF MeetInv, Live
<1>8. ASSUME NEW d \in Launchers, StartFails(d) PROVE MeetInv'
  <2>1. d \notin accepting BY <1>8, <1>0 DEF StartFails, MeetInv
  <2>. QED BY <1>7, <1>8, <2>1 DEF StartFails, Live, Calm
<1>9. ASSUME NEW d \in Launchers, AcceptEnds(d) \/ LoopBreaks(d) \/ Signal(d) \/ TickBegins(d)
                                  \/ TickEnds(d) \/ TurnTakes(d) \/ TurnGivesUp(d)
      PROVE  MeetInv'
  <2>1. CASE AcceptEnds(d)
    <3>1. ~Calm' BY <2>1 DEF AcceptEnds, Calm
    <3>. QED BY <1>1, <2>1, <3>1 DEF AcceptEnds
  <2>2. CASE LoopBreaks(d)
    <3>1. ~Calm' BY <2>2 DEF LoopBreaks, Calm
    <3>. QED BY <1>1, <2>2, <3>1 DEF LoopBreaks
  <2>3. CASE Signal(d) BY <1>1, <2>3 DEF Signal
  <2>4. CASE TickBegins(d) \/ TickEnds(d) \/ TurnTakes(d) \/ TurnGivesUp(d)
    BY <1>1, <2>4 DEF TickBegins, TickEnds, TurnTakes, TurnGivesUp
  <2>. QED BY <1>9, <2>1, <2>2, <2>3, <2>4
<1>16. ASSUME NEW d \in Launchers, Accept(d) PROVE MeetInv'
  <2>1. /\ process' = process /\ shutdown' = shutdown /\ broken' = broken /\ deaf' = deaf
        /\ late' = late /\ accepting' = accepting /\ launcher' = launcher
    BY <1>16 DEF Accept
  <2>2. ASSUME NEW m \in Launchers, ping'[m].at # "none"
        PROVE  ping[m].at # "none" /\ ping'[m].whom = ping[m].whom
    <3>1. CASE ping' = ping BY <2>2, <3>1
    <3>2. ASSUME NEW l \in Launchers, ping[l] = [at |-> "connected", whom |-> d],
                 ping' = [ping EXCEPT ![l].at = "handled"]
          PROVE  ping[m].at # "none" /\ ping'[m].whom = ping[m].whom
      <4>1. [ping[l] EXCEPT !.at = "handled"] = [at |-> "handled", whom |-> d] BY <3>2
      <4>2. ping' = [ping EXCEPT ![l] = [at |-> "handled", whom |-> d]] BY <3>2, <4>1
      <4>. QED BY <2>2, <3>2, <4>2, <1>0
    <3>. QED BY <1>16, <3>1, <3>2 DEF Accept
  <2>. QED BY <2>1, <2>2, <1>1
<1>10. ASSUME NEW d \in Launchers, MainStops(d) PROVE MeetInv'
  BY <1>7, <1>10 DEF MainStops, Live, Calm
<1>11. ASSUME NEW d \in Launchers, JoinReaper(d) \/ ExitProcess(d) PROVE MeetInv'
  <2>1. /\ process[d] \in {"joining", "resetting"} /\ launcher' = launcher
        /\ shutdown' = shutdown /\ broken' = broken /\ deaf' = deaf /\ accepting' = accepting
        /\ \E state \in {"resetting", "gone"} : process' = [process EXCEPT ![d] = state]
    BY <1>11 DEF JoinReaper, ExitProcess
  <2>2. ~Calm BY <2>1, <1>0 DEF MeetInv
  <2>3. ~Calm' BY <2>1, <2>2 DEF Calm
  <2>4. d \notin accepting BY <2>1, <1>0 DEF MeetInv
  <2>. QED BY <2>1, <2>3, <2>4, <1>7 DEF Live
<1>12. CASE Stop
  <2>1. /\ process' = process /\ shutdown \subseteq shutdown' /\ broken' = broken /\ deaf' = deaf
        /\ late' = late /\ accepting' = accepting /\ launcher' = launcher /\ ping' = ping
    BY <1>12 DEF Stop, StopConnects, StopHandled, StopFails
  <2>. QED BY <1>1, <2>1
<1>13. CASE UNCHANGED lifeVars
  <2>1. /\ process' = process /\ shutdown' = shutdown /\ broken' = broken /\ deaf' = deaf
        /\ late' = late /\ accepting' = accepting /\ launcher' = launcher /\ ping' = ping
    BY <1>13 DEF lifeVars
  <2>. QED BY <1>1, <2>1
<1>. QED BY <1>2, <1>3, <1>4, <1>5, <1>8, <1>9, <1>10, <1>11, <1>12, <1>13, <1>14, <1>15, <1>16
         DEF LifeNext, Launching, Coming, Stopping

\* Types: processes, launchers, and the calls that are always at a process.
THEOREM LifeTypesHold == LifeSpec => []LifeTypeOK
<1>1. LifeInv => LifeTypeOK
  <2> SUFFICES ASSUME LifeInv PROVE LifeTypeOK OBVIOUS
  <2>1. CallsAt({"connected", "handled"}) \subseteq
          [at : {"none", "connected", "handled"}, whom : Launchers \cup {Nobody}]
    BY DEF CallsAt, NoCall
  <2>2. CallsAt({"connected", "handled", "told"}) \subseteq
          [at : {"none", "connected", "handled", "told"}, whom : Launchers \cup {Nobody}]
    BY DEF CallsAt, NoCall
  <2>. QED BY <2>1, <2>2 DEF LifeInv, LifeTyped, LifeTypeOK, ProcessStates, LauncherStates
<1>2. LifeInv /\ [LifeNext]_lifeVars => LifeInv' BY LifeTypes, LifeMeets DEF LifeInv
<1>. QED BY <1>1, <1>2, LifeStart, PTL DEF LifeSpec

\* Launchers that overlap meet in one daemon, however many there are: at most
\* one process is past the lock, and no launcher fails because it met another.
\* It fails only after a stop, a failed start or an accept loop that ended on an
\* error, or on a budget that ran out over a start short of its socket.
THEOREM OneDaemonMeets == LifeSpec => []LaunchesMeet
<1>1. LifeInv => LaunchesMeet
  <2> SUFFICES ASSUME LifeInv PROVE LaunchesMeet OBVIOUS
  <2> DEFINE past == {d \in Launchers : process[d] \in Live}
  <2>1. \A d, e \in past : d = e BY DEF LifeInv, MeetInv
  <2>2. Cardinality(past) <= 1
    <3>. HIDE DEF past
    <3>1. CASE past = {}
      <4>1. Cardinality(past) = 0 BY <3>1, FS_EmptySet
      <4>. QED BY <4>1
    <3>2. ASSUME NEW d \in past PROVE Cardinality(past) <= 1
      <4>1. past = {d} BY <2>1
      <4>2. Cardinality(past) = 1 BY <4>1, FS_Singleton
      <4>. QED BY <4>2
    <3>. QED BY <3>1, <3>2
  <2>3. \A l \in Launchers : launcher[l] = "failed" =>
          shutdown # {} \/ broken \/ deaf # {} \/ l \in late
    BY DEF LifeInv, MeetInv, Calm
  <2>. QED BY <2>2, <2>3 DEF LaunchesMeet
<1>2. LifeInv /\ [LifeNext]_lifeVars => LifeInv' BY LifeTypes, LifeMeets DEF LifeInv
<1>. QED BY <1>1, <1>2, LifeStart, PTL DEF LifeSpec

-----------------------------------------------------------------------------
\* The sweep of idle sessions.

SweepTyped ==
  sweep \in [todo : Seq(Ids), moved : SUBSET Ids, listed : SUBSET Ids, used : SUBSET Ids,
             keep : Nat, at : Clock, refused : BOOLEAN]

\* No stamp lies ahead of the clock, and a row knows when it was last used.
StampsInv ==
  \A s \in Ids :
    /\ lastUse[s] <= now
    /\ live[s] # NoSession => /\ live[s].updated <= now /\ live[s].access <= now
                              /\ Touched(live[s]) = lastUse[s]
    /\ files[s] # NoSession => files[s].updated <= now /\ files[s].access <= now

\* What a sweep has still to do: each session once, listed, not in use then and
\* not moved yet.
ToDo == {sweep.todo[i] : i \in DOMAIN sweep.todo}
ToDoInv ==
  /\ \A i, j \in DOMAIN sweep.todo : sweep.todo[i] = sweep.todo[j] => i = j
  /\ sweep.at <= now
  /\ ToDo \cup sweep.moved \subseteq sweep.listed \ sweep.used
  /\ ToDo \cap sweep.moved = {}
  /\ Cardinality(sweep.moved) <= MaxSessions
  /\ sweep.todo # <<>> => Cardinality(sweep.moved) < MaxSessions

\* The sessions it was told to keep.
KeepInv ==
  ToDo \cup sweep.moved # {} =>
    \E spared \in SUBSET sweep.listed :
      Cardinality(spared) >= sweep.keep /\ spared \cap (ToDo \cup sweep.moved) = {}

\* What it was to take is still to do, gone, or used again.
TakeInv ==
  sweep.keep = 0 /\ ~sweep.refused /\ Cardinality(sweep.moved) < MaxSessions =>
    \A s \in sweep.listed \ (sweep.used \cup sweep.moved) :
      s \in ToDo \/ live[s] = NoSession \/ lastUse[s] >= sweep.at

SweepInv == CatalogTypeOK /\ SweepTyped /\ StampsInv /\ ToDoInv /\ KeepInv /\ TakeInv

\* A list of sessions by recency has each of them once.
LEMMA Listing ==
  ASSUME SweepInv, NEW ids \in SUBSET SessionsIn(live), NEW list \in Recency(ids)
  PROVE  /\ list \in Seq(Ids) /\ DOMAIN list = 1..Len(list)
         /\ {list[i] : i \in DOMAIN list} = ids
         /\ \A i, j \in DOMAIN list : list[i] = list[j] => i = j
<1> DEFINE D == 1..Cardinality(ids)
<1>1. ids \in SUBSET Ids /\ IsFiniteSet(ids) /\ Cardinality(ids) \in Nat
  BY CatalogAssumption, FS_Subset, FS_CardinalityType DEF SessionsIn
<1>2. list \in [D -> ids] /\ \A i, j \in D : i # j => list[i] # list[j]
  <2>1. list \in [D -> ids] /\ \A i, j \in D : i < j => MoreRecent(list[i], list[j])
    BY DEF Recency
  <2>2. \A s \in ids : Touched(live[s]) \in Int => ~MoreRecent(s, s)
    BY <1>1, CatalogAssumption DEF MoreRecent
  <2>3. \A s \in ids : Touched(live[s]) \in Int
    BY DEF Touched, SweepInv, CatalogTypeOK, Clock, SessionRows, SessionsIn
  <2> QED
    BY <1>1, <2>1, <2>2, <2>3
<1>3. list \in Seq(Ids) /\ DOMAIN list = D /\ Len(list) = Cardinality(ids)
  BY <1>1, <1>2
<1>4. Cardinality(D) = Cardinality(ids)
  BY <1>1, FS_Interval
<1>5. \A s \in ids : \E i \in D : list[i] = s
  <2> SUFFICES ASSUME NEW s \in ids, \A i \in D : list[i] # s PROVE FALSE
    OBVIOUS
  <2>1. list \in [D -> ids \ {s}]
    BY <1>2
  <2>2. IsFiniteSet(ids \ {s}) /\ Cardinality(ids \ {s}) = Cardinality(ids) - 1
    BY <1>1, FS_RemoveElement
  <2>3. Cardinality(ids \ {s}) < Cardinality(D)
    BY <1>1, <1>4, <2>2
  <2>4. IsFiniteSet(D)
    BY <1>1, FS_Interval
  <2> HIDE DEF D
  <2>5. \E i, j \in D : i # j /\ list[i] = list[j]
    BY <2>1, <2>2, <2>3, <2>4, FS_PigeonHole
  <2> QED BY <1>2, <2>5
<1> QED
  BY <1>2, <1>3, <1>5

\* The first n of a list without repetitions.
LEMMA FirstOnes ==
  ASSUME NEW list \in Seq(Ids), \A i, j \in DOMAIN list : list[i] = list[j] => i = j,
         NEW n \in Nat, n < Len(list)
  PROVE  Cardinality({list[i] : i \in 1..n}) >= n
<1> DEFINE first == {list[i] : i \in 1..n}
           f == [i \in 1..n |-> list[i]]
<1>1. IsFiniteSet(1..n) /\ Cardinality(1..n) = n
  BY FS_Interval
<1>2. first \in SUBSET Ids
  OBVIOUS
<1>3. IsFiniteSet(first) /\ Cardinality(first) \in Nat
  BY <1>2, CatalogAssumption, FS_Subset, FS_CardinalityType
<1>4. f \in [1..n -> first] /\ \A i, j \in 1..n : f[i] = f[j] => i = j
  OBVIOUS
<1>5. ~(Cardinality(first) < n)
  <2> HIDE DEF first, f
  <2> QED BY <1>1, <1>3, <1>4, FS_PigeonHole
<1> QED
  BY <1>3, <1>5

\* Nothing is listed at first.
LEMMA SweepInit == CatalogInit => SweepInv
<1> SUFFICES ASSUME CatalogInit PROVE SweepInv
  OBVIOUS
<1>1. Cardinality({}) = 0
  BY FS_EmptySet
<1>2. sweep.todo = <<>> /\ sweep.moved = {} /\ sweep.listed = {} /\ sweep.at = 0 /\ now = 0
  BY DEF CatalogInit, NoSweep
<1>3. ToDo = {}
  BY <1>2 DEF ToDo
<1>4. CatalogTypeOK /\ SweepTyped
  BY CatalogAssumption DEF CatalogInit, NoSweep, CatalogTypeOK, SweepTyped, Clock
<1>5. StampsInv
  BY DEF CatalogInit, StampsInv
<1>6. ToDoInv /\ KeepInv /\ TakeInv
  BY <1>1, <1>2, <1>3, BatchAssumption DEF ToDoInv, KeepInv, TakeInv
<1> QED
  BY <1>4, <1>5, <1>6 DEF SweepInv

\* The invariant of the sweep while the sweep does not move.
LEMMA SweepRests ==
  ASSUME SweepInv, UNCHANGED sweep, now' >= now, now \in Int, now' \in Int
  PROVE  SweepTyped' /\ ToDoInv' /\ KeepInv'
<1>1. ToDo' = ToDo
  BY DEF ToDo
<1>2. sweep.at \in Int
  BY DEF SweepInv, SweepTyped, Clock
<1>3. SweepTyped'
  BY DEF SweepInv, SweepTyped
<1>4. ToDoInv'
  BY <1>1, <1>2 DEF SweepInv, ToDoInv
<1>5. KeepInv'
  BY <1>1 DEF SweepInv, KeepInv
<1> QED
  BY <1>3, <1>4, <1>5

\* The sweep was listed in the past.
LEMMA ClockIsInt == ASSUME SweepInv PROVE now \in Int /\ sweep.at \in Int /\ sweep.at <= now
BY DEF SweepInv, CatalogTypeOK, SweepTyped, ToDoInv, Clock

\* What a request that uses a session leaves there.
LEMMA UseKeeps ==
  ASSUME SweepInv, NEW s \in Ids, NEW row \in SessionRows, Use(s, row),
         row.updated <= now, row.access <= now, Touched(row) = now
  PROVE  SweepInv'
<1> USE DEF Use, Request
<1>1. CatalogTypeOK'
  BY CatalogAssumption DEF SweepInv, CatalogTypeOK, Clock
<1>2. StampsInv'
  BY DEF SweepInv, CatalogTypeOK, StampsInv, Clock, Touched
<1>3. SweepTyped' /\ ToDoInv' /\ KeepInv'
  BY ClockIsInt, SweepRests
<1>4. TakeInv'
  BY DEF SweepInv, TakeInv, ToDo, ToDoInv, CatalogTypeOK
<1> QED
  BY <1>1, <1>2, <1>3, <1>4 DEF SweepInv

\* The rows that the requests write.
LEMMA RowsUsed ==
  ASSUME SweepInv, NEW s \in Ids, Request
  PROVE  /\ Row(s) \in SessionRows /\ Row(s).updated <= now /\ Row(s).access <= now
         /\ \A row \in SessionRows : row.updated <= now /\ row.access <= now =>
              /\ Updated(row) \in SessionRows /\ Touched(Updated(row)) = now
              /\ Updated(row).updated <= now /\ Updated(row).access <= now
              /\ TouchSessionAccess(row) \in SessionRows
              /\ Touched(TouchSessionAccess(row)) = now
              /\ TouchSessionAccess(row).updated <= now
              /\ TouchSessionAccess(row).access <= now
              /\ TouchSessionAccess(row).messages = row.messages
              /\ Updated(row).messages = row.messages
<1>1. now \in Clock /\ now \in Nat /\ 0 \in Clock /\ 0 \in 0..MaxMessages
  BY CatalogAssumption DEF SweepInv, CatalogTypeOK, Clock
<1>2. Row(s) \in SessionRows /\ Row(s).updated <= now /\ Row(s).access <= now
  BY <1>1 DEF Row, NewRow, SessionRows, SweepInv, StampsInv, CatalogTypeOK
<1>3. ASSUME NEW row \in SessionRows, row.updated <= now, row.access <= now
      PROVE  /\ Updated(row) \in SessionRows /\ Touched(Updated(row)) = now
             /\ Updated(row).updated <= now /\ Updated(row).access <= now
             /\ TouchSessionAccess(row) \in SessionRows
             /\ Touched(TouchSessionAccess(row)) = now
             /\ TouchSessionAccess(row).updated <= now
             /\ TouchSessionAccess(row).access <= now
             /\ TouchSessionAccess(row).messages = row.messages
             /\ Updated(row).messages = row.messages
  BY <1>1, <1>3 DEF Updated, TouchSessionAccess, Touched, SessionRows, Clock
<1> QED
  BY <1>2, <1>3

\* A session that is touched, or updated, is used.
LEMMA TouchKeeps ==
  ASSUME SweepInv, NEW s \in Ids, NEW row \in SessionRows, Request,
         row.updated <= now, row.access <= now,
         Use(s, TouchSessionAccess(row)) \/ Use(s, Updated(row))
  PROVE  SweepInv'
<1>1. /\ Updated(row) \in SessionRows /\ Touched(Updated(row)) = now
      /\ Updated(row).updated <= now /\ Updated(row).access <= now
      /\ TouchSessionAccess(row) \in SessionRows /\ Touched(TouchSessionAccess(row)) = now
      /\ TouchSessionAccess(row).updated <= now /\ TouchSessionAccess(row).access <= now
  BY RowsUsed
<1>2. CASE Use(s, TouchSessionAccess(row))
  <2> QED BY <1>1, <1>2, UseKeeps
<1>3. CASE Use(s, Updated(row))
  <2> QED BY <1>1, <1>3, UseKeeps
<1> QED BY <1>2, <1>3

\* A client keeps the invariant: to use a session stamps its row, whatever way it is used.
LEMMA ClientKeeps == ASSUME SweepInv, Client PROVE SweepInv'
<1>1. PICK s \in Ids :
        \/ SessionCreate(s) \/ SessionUpdateTitle(s) \/ SessionAppend(s)
        \/ SessionGet(s) \/ SessionRestore(s) \/ SessionDelete(s)
        \/ SessionPurge(s) \/ SessionArchive(s)
        \/ \E n \in 0..MaxMessages : SessionTruncate(s, n)
  BY DEF Client
<1>2. /\ live[s] # NoSession => /\ live[s] \in SessionRows
                                /\ live[s].updated <= now /\ live[s].access <= now
      /\ files[s] # NoSession => /\ files[s] \in SessionRows
                                 /\ files[s].updated <= now /\ files[s].access <= now
  BY DEF SweepInv, CatalogTypeOK, StampsInv
<1>3. CASE SessionCreate(s)
  <2>1. Use(s, Updated(Row(s))) /\ Request BY <1>3 DEF SessionCreate, Use
  <2>2. Row(s) \in SessionRows /\ Row(s).updated <= now /\ Row(s).access <= now
    BY <2>1, RowsUsed
  <2> QED BY <2>1, <2>2, TouchKeeps
<1>4. CASE SessionUpdateTitle(s)
  <2>1. Use(s, Updated(live[s])) /\ live[s] # NoSession /\ Request BY <1>4 DEF SessionUpdateTitle, Use
  <2> QED BY <1>2, <2>1, TouchKeeps
<1>5. CASE SessionAppend(s)
  <2> DEFINE row == [Updated(Row(s)) EXCEPT !.messages = @ + 1]
  <2>1. Use(s, row) /\ Request /\ Row(s).messages < MaxMessages BY <1>5 DEF SessionAppend, Use
  <2>2. /\ Row(s) \in SessionRows /\ Updated(Row(s)) \in SessionRows
        /\ Updated(Row(s)).messages = Row(s).messages
        /\ Updated(Row(s)).updated <= now /\ Updated(Row(s)).access <= now
        /\ Touched(Updated(Row(s))) = now
    BY <2>1, RowsUsed
  <2>3. /\ row \in SessionRows /\ row.updated <= now /\ row.access <= now
        /\ Touched(row) = now
    BY <2>1, <2>2, CatalogAssumption DEF SessionRows, Touched
  <2> QED BY <2>1, <2>3, UseKeeps
<1>6. CASE SessionGet(s)
  <2>1. Use(s, Opened(s)) /\ Request /\ (live[s] # NoSession \/ files[s] # NoSession)
    BY <1>6 DEF SessionGet, Use, SessionsIn
  <2>2. \/ live[s] # NoSession /\ Use(s, TouchSessionAccess(live[s]))
        \/ files[s] # NoSession /\ Use(s, TouchSessionAccess(files[s]))
    BY <2>1 DEF Opened, Restored
  <2>3. CASE live[s] # NoSession /\ Use(s, TouchSessionAccess(live[s]))
    <3>1. live[s] \in SessionRows /\ live[s].updated <= now /\ live[s].access <= now
      BY <1>2, <2>3
    <3> QED BY <2>1, <2>3, <3>1, TouchKeeps
  <2>4. CASE files[s] # NoSession /\ Use(s, TouchSessionAccess(files[s]))
    <3>1. files[s] \in SessionRows /\ files[s].updated <= now /\ files[s].access <= now
      BY <1>2, <2>4
    <3> QED BY <2>1, <2>4, <3>1, TouchKeeps
  <2> QED BY <2>2, <2>3, <2>4
<1>7. CASE SessionRestore(s)
  <2>1. Use(s, TouchSessionAccess(files[s])) /\ Request /\ files[s] # NoSession
    BY <1>7 DEF SessionRestore, Use, Restored
  <2>2. files[s] \in SessionRows /\ files[s].updated <= now /\ files[s].access <= now
    BY <1>2, <2>1
  <2> QED BY <2>1, <2>2, TouchKeeps
<1>8. CASE SessionDelete(s) \/ SessionPurge(s) \/ SessionArchive(s)
  <2> USE <1>8 DEF SessionDelete, SessionPurge, SessionArchive, MoveOut, Request
  <2>0. /\ UNCHANGED <<now, sweep, lastUse>> /\ uses' = uses + 1 /\ uses < MaxUses
        /\ live' = live \/ live' = [live EXCEPT ![s] = NoSession]
        /\ \/ files' = files \/ files' = [files EXCEPT ![s] = NoSession]
           \/ files' = [files EXCEPT ![s] = live[s]]
    OBVIOUS
  <2>1. CatalogTypeOK'
    <3> USE DEF SweepInv, CatalogTypeOK
    <3>1. uses' \in 0..MaxUses
      BY <2>0, CatalogAssumption
    <3>2. live[s] \in SessionRows \cup {NoSession} /\ NoSession \in SessionRows \cup {NoSession}
      OBVIOUS
    <3>3. /\ live' \in [Ids -> SessionRows \cup {NoSession}]
          /\ files' \in [Ids -> SessionRows \cup {NoSession}]
      BY <2>0, <3>2
    <3> QED
      BY <2>0, <3>1, <3>3
  <2>2. StampsInv' BY DEF SweepInv, CatalogTypeOK, StampsInv
  <2>3. SweepTyped' /\ ToDoInv' /\ KeepInv' BY ClockIsInt, SweepRests
  <2>4. TakeInv'
    <3>1. live'[s] = live[s] \/ live'[s] = NoSession BY DEF SweepInv, CatalogTypeOK
    <3>2. \A t \in Ids \ {s} : live'[t] = live[t] BY DEF SweepInv, CatalogTypeOK
    <3>3. ToDo' = ToDo /\ sweep.listed \subseteq Ids BY DEF ToDo, SweepInv, SweepTyped
    <3> QED BY <3>1, <3>2, <3>3 DEF SweepInv, TakeInv
  <2> QED BY <2>1, <2>2, <2>3, <2>4 DEF SweepInv
<1>9. ASSUME NEW n \in 0..MaxMessages, SessionTruncate(s, n) PROVE SweepInv'
  <2> USE <1>9 DEF SessionTruncate, Request
  <2>0. /\ [live[s] EXCEPT !.messages = n] \in SessionRows
        /\ Touched([live[s] EXCEPT !.messages = n]) = Touched(live[s])
    BY <1>2 DEF SessionRows, Touched
  <2>1. CatalogTypeOK' BY <2>0, CatalogAssumption DEF SweepInv, CatalogTypeOK
  <2>2. StampsInv' BY <1>2, <2>0 DEF SweepInv, CatalogTypeOK, StampsInv, SessionRows
  <2>3. SweepTyped' /\ ToDoInv' /\ KeepInv' BY ClockIsInt, SweepRests
  <2>4. TakeInv' BY DEF SweepInv, TakeInv, ToDo, CatalogTypeOK
  <2> QED BY <2>1, <2>2, <2>3, <2>4 DEF SweepInv
<1> QED
  BY <1>1, <1>3, <1>4, <1>5, <1>6, <1>7, <1>8, <1>9

\* The list leaves out the sessions to keep and those in use, and no other.
LEMMA ListKeeps == ASSUME SweepInv, NEW keep \in Keeps, SweepList(keep) PROVE SweepInv'
<1>1. PICK list \in Recency(SessionsIn(live)) :
        \E todo \in Recency({s \in {list[i] : i \in keep + 1..Len(list)} : IsIdle(s)}) :
          sweep' = [todo |-> todo, moved |-> {}, listed |-> SessionsIn(live),
                    keep |-> keep, at |-> now, refused |-> FALSE,
                    used |-> {s \in Ids : lastUse[s] >= now - IdleFor}]
  BY DEF SweepList
<1> DEFINE idle == {s \in {list[i] : i \in keep + 1..Len(list)} : IsIdle(s)}
           inUse == {s \in Ids : lastUse[s] >= now - IdleFor}
<1>2. PICK todo \in Recency(idle) :
        sweep' = [todo |-> todo, moved |-> {}, listed |-> SessionsIn(live),
                  keep |-> keep, at |-> now, refused |-> FALSE, used |-> inUse]
  BY <1>1
<1>3. SessionsIn(live) \in SUBSET Ids /\ keep \in Nat /\ now \in Clock
  BY CatalogAssumption DEF SessionsIn, SweepInv, CatalogTypeOK
<1>4. /\ list \in Seq(Ids) /\ DOMAIN list = 1..Len(list) /\ Len(list) \in Nat
      /\ {list[i] : i \in DOMAIN list} = SessionsIn(live)
      /\ \A i, j \in DOMAIN list : list[i] = list[j] => i = j
  BY <1>3, Listing
<1>5. idle \in SUBSET SessionsIn(live) /\ idle \in SUBSET Ids
  BY <1>3, <1>4
<1>6. /\ todo \in Seq(Ids) /\ {todo[i] : i \in DOMAIN todo} = idle
      /\ \A i, j \in DOMAIN todo : todo[i] = todo[j] => i = j
  <2> HIDE DEF idle
  <2> QED BY <1>5, Listing
<1>7. ToDo' = idle /\ sweep'.moved = {}
  BY <1>2, <1>6 DEF ToDo
<1>8. \A s \in SessionsIn(live) : Touched(live[s]) = lastUse[s]
  BY DEF SweepInv, StampsInv, SessionsIn
<1>9. \A s \in SessionsIn(live) : IsIdle(s) <=> s \notin inUse
  <2> SUFFICES ASSUME NEW s \in SessionsIn(live) PROVE IsIdle(s) <=> s \notin inUse
    OBVIOUS
  <2>1. lastUse[s] \in Int /\ now \in Int /\ IdleFor \in Int /\ s \in Ids
    BY <1>3, CatalogAssumption DEF SweepInv, CatalogTypeOK, Clock
  <2>2. Touched(live[s]) = lastUse[s]
    BY <1>8
  <2>3. s \in inUse <=> lastUse[s] >= now - IdleFor
    BY <2>1
  <2> QED BY <2>1, <2>2, <2>3 DEF IsIdle
<1>10. UNCHANGED <<now, live, files, lastUse, uses>>
  BY DEF SweepList
<1>11. CatalogTypeOK' /\ SweepTyped' /\ StampsInv'
  <2>1. CatalogTypeOK' BY <1>2, <1>6, <1>10 DEF SweepInv, CatalogTypeOK
  <2>2. SweepTyped' BY <1>2, <1>3, <1>6, <1>10 DEF SweepTyped
  <2>3. StampsInv' BY <1>10 DEF SweepInv, StampsInv
  <2> QED BY <2>1, <2>2, <2>3
<1>12. ToDoInv'
  <2>1. idle \cap inUse = {}
    BY <1>5, <1>9
  <2>2. Cardinality({}) = 0
    BY FS_EmptySet
  <2> HIDE DEF idle, inUse
  <2> QED BY <1>2, <1>3, <1>5, <1>6, <1>7, <1>10, <2>1, <2>2, BatchAssumption DEF ToDoInv, Clock
<1>13. KeepInv'
  <2> SUFFICES ASSUME idle # {}
               PROVE  \E spared \in SUBSET SessionsIn(live) :
                        Cardinality(spared) >= keep /\ spared \cap idle = {}
    <3> HIDE DEF idle, inUse
    <3> QED BY <1>2, <1>7 DEF KeepInv
  <2>1. keep < Len(list)
    BY <1>3, <1>4
  <2> DEFINE spared == {list[i] : i \in 1..keep}
  <2>3. Cardinality(spared) >= keep
    <3> HIDE DEF idle, inUse
    <3> QED BY <1>3, <1>4, <2>1, FirstOnes
  <2>4. spared \cap idle = {} /\ spared \subseteq SessionsIn(live)
    BY <1>3, <1>4, <2>1
  <2> HIDE DEF spared, idle
  <2> QED BY <2>3, <2>4
<1>14. TakeInv'
  <2>1. keep = 0 => \A s \in SessionsIn(live) \ inUse : s \in idle
    BY <1>4, <1>9
  <2> HIDE DEF idle, inUse
  <2> QED BY <1>2, <1>7, <2>1 DEF TakeInv
<1> QED
  BY <1>11, <1>12, <1>13, <1>14 DEF SweepInv

\* The sweep takes a session, finds it gone, or is refused and ends.
LEMMA NextKeeps == ASSUME SweepInv, SweepNext PROVE SweepInv'
<1> DEFINE s == Head(sweep.todo)
<1>1. /\ sweep.todo \in Seq(Ids) /\ sweep.todo # <<>> /\ s \in Ids
      /\ Tail(sweep.todo) \in Seq(Ids) /\ Len(sweep.todo) \in Nat /\ Len(sweep.todo) > 0
      /\ s = sweep.todo[1] /\ DOMAIN sweep.todo = 1..Len(sweep.todo)
      /\ DOMAIN Tail(sweep.todo) = 1..(Len(sweep.todo) - 1)
      /\ \A i \in DOMAIN Tail(sweep.todo) : Tail(sweep.todo)[i] = sweep.todo[i + 1]
  BY DEF SweepNext, SweepInv, CatalogTypeOK
<1>2. \A i, j \in DOMAIN sweep.todo : sweep.todo[i] = sweep.todo[j] => i = j
  BY DEF SweepInv, ToDoInv
<1>3. s \in ToDo /\ {Tail(sweep.todo)[i] : i \in DOMAIN Tail(sweep.todo)} = ToDo \ {s}
  <2>1. s \in ToDo
    BY <1>1 DEF ToDo
  <2>2. ASSUME NEW i \in DOMAIN Tail(sweep.todo) PROVE Tail(sweep.todo)[i] \in ToDo \ {s}
    <3>1. i + 1 \in DOMAIN sweep.todo /\ 1 \in DOMAIN sweep.todo /\ i + 1 # 1
      BY <1>1
    <3> QED BY <1>1, <1>2, <3>1 DEF ToDo
  <2>3. ASSUME NEW t \in ToDo \ {s}
        PROVE  \E i \in DOMAIN Tail(sweep.todo) : Tail(sweep.todo)[i] = t
    <3>1. PICK i \in DOMAIN sweep.todo : sweep.todo[i] = t
      BY DEF ToDo
    <3>2. i - 1 \in DOMAIN Tail(sweep.todo)
      BY <1>1, <3>1
    <3>3. Tail(sweep.todo)[i - 1] = t
      BY <1>1, <3>1, <3>2
    <3> QED BY <3>2, <3>3
  <2> QED BY <2>1, <2>2, <2>3
<1>4. \A i, j \in DOMAIN Tail(sweep.todo) : Tail(sweep.todo)[i] = Tail(sweep.todo)[j] => i = j
  <2> SUFFICES ASSUME NEW i \in DOMAIN Tail(sweep.todo), NEW j \in DOMAIN Tail(sweep.todo),
                      Tail(sweep.todo)[i] = Tail(sweep.todo)[j]
               PROVE  i = j
    OBVIOUS
  <2>1. /\ i \in 1..(Len(sweep.todo) - 1) /\ j \in 1..(Len(sweep.todo) - 1)
        /\ Len(sweep.todo) \in Nat
    BY <1>1
  <2>2. i + 1 \in 1..Len(sweep.todo) /\ j + 1 \in 1..Len(sweep.todo)
    BY <2>1
  <2>3. i + 1 \in DOMAIN sweep.todo /\ j + 1 \in DOMAIN sweep.todo
    BY <1>1, <2>2
  <2>4. sweep.todo[i + 1] = sweep.todo[j + 1]
    BY <1>1
  <2>5. i + 1 = j + 1
    BY <1>2, <2>3, <2>4
  <2> QED
    BY <2>1, <2>5
<1>5. {<<>>[i] : i \in DOMAIN <<>>} = {} /\ <<>> \in Seq(Ids)
  OBVIOUS
<1>6. UNCHANGED <<now, lastUse, uses>> /\ sweep.todo # <<>>
  BY DEF SweepNext
<1>7. /\ IsFiniteSet(sweep.moved) /\ Cardinality(sweep.moved) \in Nat
      /\ Cardinality(sweep.moved \cup {s}) = Cardinality(sweep.moved) + 1
  <2>1. s \notin sweep.moved /\ sweep.moved \in SUBSET Ids
    BY <1>3 DEF SweepInv, ToDoInv, SweepTyped
  <2> QED BY <2>1, CatalogAssumption, FS_Subset, FS_CardinalityType, FS_AddElement
<1> HIDE DEF s
<1>8. CASE live[s] = NoSession
  <2>1. sweep' = [sweep EXCEPT !.todo = Tail(@)] /\ UNCHANGED <<live, files>>
    BY <1>8 DEF SweepNext, MoveOut, s
  <2>2. /\ sweep'.todo = Tail(sweep.todo) /\ sweep'.moved = sweep.moved
        /\ sweep'.listed = sweep.listed /\ sweep'.used = sweep.used /\ sweep'.at = sweep.at
        /\ sweep'.keep = sweep.keep /\ sweep'.refused = sweep.refused
    BY <2>1 DEF SweepInv, SweepTyped
  <2>3. ToDo' = ToDo \ {s}
    BY <1>3, <2>2 DEF ToDo
  <2>4. CatalogTypeOK' /\ SweepTyped' /\ StampsInv'
    BY <1>1, <1>6, <2>1, <2>2 DEF SweepInv, CatalogTypeOK, SweepTyped, StampsInv
  <2>5. ToDoInv'
    BY <1>4, <1>6, <2>2, <2>3 DEF SweepInv, ToDoInv
  <2>6. KeepInv'
    BY <2>2, <2>3 DEF SweepInv, KeepInv
  <2>7. TakeInv'
    BY <1>6, <1>8, <2>1, <2>2, <2>3 DEF SweepInv, TakeInv
  <2> QED BY <2>4, <2>5, <2>6, <2>7 DEF SweepInv
<1>9. CASE live[s] # NoSession /\ ArchiveRefused(s)
  <2>1. sweep' = [sweep EXCEPT !.todo = <<>>, !.refused = TRUE] /\ UNCHANGED <<live, files>>
    BY <1>9 DEF SweepNext, MoveOut, s
  <2>2. /\ sweep'.todo = <<>> /\ sweep'.moved = sweep.moved
        /\ sweep'.listed = sweep.listed /\ sweep'.used = sweep.used /\ sweep'.at = sweep.at
        /\ sweep'.keep = sweep.keep /\ sweep'.refused = TRUE
    BY <2>1 DEF SweepInv, SweepTyped
  <2>3. ToDo' = {}
    BY <1>5, <2>2 DEF ToDo
  <2>4. CatalogTypeOK' /\ SweepTyped' /\ StampsInv'
    BY <1>5, <1>6, <2>1, <2>2 DEF SweepInv, CatalogTypeOK, SweepTyped, StampsInv
  <2>5. ToDoInv'
    BY <1>6, <2>2, <2>3 DEF SweepInv, ToDoInv
  <2>6. KeepInv'
    BY <2>2, <2>3 DEF SweepInv, KeepInv
  <2>7. TakeInv'
    BY <2>2 DEF TakeInv
  <2> QED BY <2>4, <2>5, <2>6, <2>7 DEF SweepInv
<1>10. CASE MoveOut(s)
  <2> DEFINE last == Cardinality(sweep.moved) + 1 = MaxSessions
  <2>1. sweep' = [sweep EXCEPT !.todo = IF last THEN <<>> ELSE Tail(@), !.moved = @ \cup {s}]
    BY <1>10 DEF SweepNext, MoveOut, s
  <2>2. /\ sweep'.todo = (IF last THEN <<>> ELSE Tail(sweep.todo))
        /\ sweep'.moved = sweep.moved \cup {s}
        /\ sweep'.listed = sweep.listed /\ sweep'.used = sweep.used /\ sweep'.at = sweep.at
        /\ sweep'.keep = sweep.keep /\ sweep'.refused = sweep.refused
    BY <2>1 DEF SweepInv, SweepTyped
  <2>3. ToDo' = (IF last THEN {} ELSE ToDo \ {s})
    <3>1. CASE last
      <4>1. sweep'.todo = <<>>
        BY <2>2, <3>1
      <4> QED
        BY <1>5, <3>1, <4>1 DEF ToDo
    <3>2. CASE ~last
      <4>1. sweep'.todo = Tail(sweep.todo)
        BY <2>2, <3>2
      <4> QED
        BY <1>3, <3>2, <4>1 DEF ToDo
    <3> QED
      BY <3>1, <3>2
  <2>4. /\ live' = [live EXCEPT ![s] = NoSession] /\ files' = [files EXCEPT ![s] = live[s]]
        /\ live[s] # NoSession
    BY <1>10 DEF MoveOut
  <2>5. CatalogTypeOK' /\ SweepTyped'
    BY <1>1, <1>5, <1>6, <2>1, <2>2, <2>4 DEF SweepInv, CatalogTypeOK, SweepTyped
  <2>6. StampsInv'
    BY <1>1, <1>6, <2>4 DEF SweepInv, CatalogTypeOK, StampsInv
  <2>7. ToDoInv'
    <3>1. Cardinality(sweep.moved) < MaxSessions
      BY <1>6 DEF SweepInv, ToDoInv
    <3>2. Cardinality(sweep'.moved) = Cardinality(sweep.moved) + 1
      BY <1>7, <2>2
    <3>3. sweep'.at <= now'
      BY <1>6, <2>2 DEF SweepInv, ToDoInv
    <3>4. \A i, j \in DOMAIN sweep'.todo : sweep'.todo[i] = sweep'.todo[j] => i = j
      BY <1>4, <2>2
    <3>5. /\ ToDo' \cup sweep'.moved \subseteq sweep'.listed \ sweep'.used
          /\ ToDo' \cap sweep'.moved = {}
      BY <1>3, <2>2, <2>3 DEF SweepInv, ToDoInv
    <3>6. /\ Cardinality(sweep'.moved) <= MaxSessions
          /\ sweep'.todo # <<>> => Cardinality(sweep'.moved) < MaxSessions
      BY <1>7, <2>2, <3>1, <3>2, BatchAssumption
    <3> QED BY <3>3, <3>4, <3>5, <3>6 DEF ToDoInv
  <2>8. KeepInv'
    BY <1>3, <2>2, <2>3 DEF SweepInv, KeepInv
  <2>9. TakeInv'
    <3> SUFFICES ASSUME sweep'.keep = 0, ~sweep'.refused, Cardinality(sweep'.moved) < MaxSessions,
                        NEW t \in sweep'.listed \ (sweep'.used \cup sweep'.moved)
                 PROVE  t \in ToDo' \/ live'[t] = NoSession \/ lastUse'[t] >= sweep'.at
      BY DEF TakeInv
    <3>1. ~last /\ Cardinality(sweep.moved) < MaxSessions
      BY <1>7, <2>2, BatchAssumption
    <3>2. t \in sweep.listed \ (sweep.used \cup sweep.moved) /\ t # s /\ t \in Ids
      BY <2>2 DEF SweepInv, SweepTyped
    <3>3. t \in ToDo \/ live[t] = NoSession \/ lastUse[t] >= sweep.at
      BY <2>2, <3>1, <3>2 DEF SweepInv, TakeInv
    <3> QED BY <1>6, <2>2, <2>3, <2>4, <3>1, <3>2, <3>3 DEF SweepInv, CatalogTypeOK
  <2> QED BY <2>5, <2>6, <2>7, <2>8, <2>9 DEF SweepInv
<1> QED
  BY <1>8, <1>9, <1>10 DEF SweepNext, s

\* Every step keeps the invariant.
LEMMA SweepStep == SweepInv /\ [CatalogNext]_catalogVars => SweepInv'
<1> SUFFICES ASSUME SweepInv, [CatalogNext]_catalogVars PROVE SweepInv'
  OBVIOUS
<1>1. CASE Tick
  <2> USE <1>1 DEF Tick
  <2>1. CatalogTypeOK' BY CatalogAssumption DEF SweepInv, CatalogTypeOK, Clock
  <2>2. StampsInv' BY DEF SweepInv, CatalogTypeOK, StampsInv, SessionRows, Clock, Touched
  <2>3. SweepTyped' /\ ToDoInv' /\ KeepInv' BY ClockIsInt, SweepRests
  <2>4. TakeInv' BY DEF SweepInv, TakeInv, ToDo
  <2> QED BY <2>1, <2>2, <2>3, <2>4 DEF SweepInv
<1>2. CASE UNCHANGED catalogVars
  <2> USE <1>2 DEF catalogVars
  <2>1. CatalogTypeOK' BY CatalogAssumption DEF SweepInv, CatalogTypeOK
  <2>2. StampsInv' BY DEF SweepInv, StampsInv
  <2>3. SweepTyped' /\ ToDoInv' /\ KeepInv' BY ClockIsInt, SweepRests
  <2>4. TakeInv' BY DEF SweepInv, TakeInv, ToDo
  <2> QED BY <2>1, <2>2, <2>3, <2>4 DEF SweepInv
<1> QED
  BY <1>1, <1>2, ClientKeeps, NextKeeps, ListKeeps DEF CatalogNext

\* Rows, archive files and the sweep keep their types (session, lib.rs; sess.rs).
THEOREM CatalogTyped == CatalogSpec => []CatalogTypeOK
<1>1. SweepInv => CatalogTypeOK
  BY DEF SweepInv
<1> QED
  BY <1>1, SweepInit, SweepStep, PTL DEF CatalogSpec

\* A sweep spares what is used and takes what is not (lib.rs compress_idle_sessions), for any
\* number of sessions, any batch, numbers to keep and idle time, and whatever the clients do
\* to the sessions between its steps.
THEOREM SweepIsRight == CatalogSpec => []SweepsRight
<1>1. SweepInv => SweepsRight
  <2> SUFFICES ASSUME SweepInv PROVE SweepSpares /\ SweepTakes
    BY DEF SweepsRight
  <2>1. SweepSpares
    <3> SUFFICES ASSUME sweep.moved # {}
                 PROVE  Cardinality(sweep.listed \ sweep.moved) >= sweep.keep
      BY DEF SweepSpares, SweepInv, ToDoInv
    <3>1. PICK spared \in SUBSET sweep.listed :
            Cardinality(spared) >= sweep.keep /\ spared \cap sweep.moved = {}
      BY DEF SweepInv, KeepInv
    <3>2. IsFiniteSet(sweep.listed \ sweep.moved) /\ spared \in SUBSET (sweep.listed \ sweep.moved)
      BY <3>1, CatalogAssumption, FS_Subset DEF SweepInv, SweepTyped
    <3>3. Cardinality(spared) <= Cardinality(sweep.listed \ sweep.moved)
      BY <3>2, FS_Subset
    <3>4. Cardinality(spared) \in Nat /\ Cardinality(sweep.listed \ sweep.moved) \in Nat
      BY <3>2, FS_Subset, FS_CardinalityType
    <3>5. sweep.keep \in Nat
      BY DEF SweepInv, SweepTyped
    <3> QED BY <3>1, <3>3, <3>4, <3>5
  <2>2. SweepTakes
    BY DEF SweepTakes, SweepInv, TakeInv, ToDo
  <2> QED BY <2>1, <2>2
<1> QED
  BY <1>1, SweepInit, SweepStep, PTL DEF CatalogSpec
=============================================================================
