------------------------------ MODULE MCSafety ------------------------------
(***************************************************************************)
(* The parts of which everything that is checked is safety, side by side:  *)
(* a behaviour picks one and only that one moves.  All are extended, so    *)
(* that what is assumed and proved of them is of the very definitions that *)
(* are checked here.  The record file is the memory's, and in a part of    *)
(* its own the task store's.                                               *)
(***************************************************************************)
EXTENDS RunLedger, InstanceLock, JsonlFile, TaskGraph, StoreOpening, DaemonLife,
  SessionCatalog, TLC

VARIABLE part

\* The task store without crashes; nobody compacts meanwhile.
Store == INSTANCE JsonlFile WITH
  Heals <- FALSE, Meeting <- {"append", "load"}, Keys <- 1..2, MaxRecords <- 4, MaxDeaths <- 0

\* Three tasks, and every template of two steps whose explicit dependencies
\* agree with the order of its steps or are between neighbours.
Orders == {x \in [1..3 -> Tasks] : Cardinality({x[1], x[2], x[3]}) = 3}
MCTemplates ==
  {[top |-> x[1], steps |-> <<x[2], x[3]>>, deps |-> {}] : x \in Orders} \cup
  {[top |-> x[1], steps |-> <<x[2], x[3]>>, deps |-> {<<x[2], x[3]>>}] : x \in Orders}

\* The runs, the processes and the tasks are given the same three values: one
\* symmetry serves every part.
Symmetry == Permutations(Runs)

allVars == <<vars, lockVars, fileVars, graphVars, catalogVars, openVars, lifeVars>>

PartInit ==
  /\ part \in {"ledger", "lock", "memory", "store", "graph", "catalog", "opening", "life"}
  /\ Init /\ LockInit /\ FileInit /\ GraphInit /\ CatalogInit /\ OpenInit /\ LifeInit
  /\ part # "opening" => tables = {} /\ ~wal
  /\ part # "life" => ~omp

LedgerStep == part = "ledger" /\ Next
  /\ UNCHANGED <<part, lockVars, fileVars, graphVars, catalogVars, openVars, lifeVars>>
LockStep == part = "lock" /\ LockNext
  /\ UNCHANGED <<part, vars, fileVars, graphVars, catalogVars, openVars, lifeVars>>
MemoryStep == part = "memory" /\ FileNext
  /\ UNCHANGED <<part, vars, lockVars, graphVars, catalogVars, openVars, lifeVars>>
StoreStep == part = "store" /\ Store!FileNext
  /\ UNCHANGED <<part, vars, lockVars, graphVars, catalogVars, openVars, lifeVars>>
GraphStep == part = "graph" /\ GraphNext
  /\ UNCHANGED <<part, vars, lockVars, fileVars, catalogVars, openVars, lifeVars>>
CatalogStep == part = "catalog" /\ CatalogNext
  /\ UNCHANGED <<part, vars, lockVars, fileVars, graphVars, openVars, lifeVars>>
OpeningStep == part = "opening" /\ OpenNext
  /\ UNCHANGED <<part, vars, lockVars, fileVars, graphVars, catalogVars, lifeVars>>
LifeStep == part = "life" /\ LifeNext
  /\ UNCHANGED <<part, vars, lockVars, fileVars, graphVars, catalogVars, openVars>>
PartNext ==
  \/ LedgerStep \/ LockStep \/ MemoryStep \/ StoreStep \/ GraphStep
  \/ CatalogStep \/ OpeningStep \/ LifeStep

PartSpec == PartInit /\ [][PartNext]_<<part, allVars>>

-----------------------------------------------------------------------------
\* DaemonLife's: launchers meet in one daemon, and nobody waits for good.
DaemonSettles == LaunchesMeet /\ NobodyStuck
=============================================================================
