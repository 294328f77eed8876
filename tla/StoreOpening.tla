---------------------------- MODULE StoreOpening ----------------------------
(***************************************************************************)
(* SessionDb::open (session, lib.rs): the daemon and the command line open *)
(* the same file, which an older build may have made, and each brings it   *)
(* up to date on its own.  A statement is one step; between two of them    *)
(* the other process may move, hold the lock for longer than the statement *)
(* waits, or be killed.                                                    *)
(*                                                                         *)
(* The file is its journal mode, its tables and the columns that were      *)
(* added to them over time; SQLite itself is known by what the code says   *)
(* of it: a lock error, and the error for a column that is there.          *)
(***************************************************************************)
EXTENDS Integers, Sequences, FiniteSets

CONSTANTS Openers,          \* processes
          InitLockRetries   \* INIT_LOCK_RETRIES

ASSUME RetryAssumption == InitLockRetries \in Nat

\* The columns in the order the open adds them; the last is the snapshots'.
Migrations == <<"turn_log", "parent_id", "attachments", "last_access_ms",
                "tool_calls", "snapshot_tool_calls">>
Columns == {Migrations[i] : i \in 1..Len(Migrations)}
SnapshotColumns == {"snapshot_tool_calls"}

Steps == <<"safe_pragmas", "read_mode", "set_wal", "pragmas", "schema", "migrate">>

VARIABLES wal,      \* the journal mode is WAL
          tables,   \* "base": sessions and messages; "snapshots"
          columns,  \* the columns that are there
          opener    \* each process: where it is, and its attempts at the step

openVars == <<wal, tables, columns, opener>>

ClosedStore == [at |-> "closed", column |-> 1, attempt |-> 0]
OpenedStore == [at |-> "open", column |-> 1, attempt |-> 0]

OpenTypeOK ==
  /\ wal \in BOOLEAN /\ tables \subseteq {"base", "snapshots"} /\ columns \subseteq Columns
  /\ opener \in [Openers ->
       [at : {"closed", "open", "failed", "duplicate", "add"} \cup {Steps[i] : i \in 1..Len(Steps)},
        column : 1..Len(Migrations), attempt : 0..InitLockRetries]]

\* No file; or one whose tables lack any of the columns.
OpenInit ==
  /\ tables \in {{}, {"base"}, {"base", "snapshots"}}
  /\ columns \in SUBSET (IF "snapshots" \in tables THEN Columns
                         ELSE IF "base" \in tables THEN Columns \ SnapshotColumns
                         ELSE {})
  /\ wal \in IF tables = {} THEN {FALSE} ELSE BOOLEAN
  /\ opener = [p \in Openers |-> ClosedStore]

-----------------------------------------------------------------------------
IsAt(p, step) == opener[p].at = step
GoesTo(p, step) == opener' = [opener EXCEPT ![p].at = step, ![p].attempt = 0]

\* run_with_lock_retry: a lock error is tried again so many times
LockError(p, step) ==
  /\ IsAt(p, step)
  /\ IF opener[p].attempt < InitLockRetries
     THEN opener' = [opener EXCEPT ![p].attempt = @ + 1]
     ELSE GoesTo(p, "failed")
  /\ UNCHANGED <<wal, tables, columns>>

\* A statement that is not retried.
Refused(p, step) ==
  /\ IsAt(p, step) /\ GoesTo(p, "failed")
  /\ UNCHANGED <<wal, tables, columns>>

BeginOpen(p) ==
  /\ opener[p].at \in {"closed", "failed"}
  /\ opener' = [opener EXCEPT ![p] = [ClosedStore EXCEPT !.at = "safe_pragmas"]]
  /\ UNCHANGED <<wal, tables, columns>>

\* busy_timeout and foreign_keys, of this connection alone
ApplySafePragmas(p) ==
  /\ IsAt(p, "safe_pragmas") /\ GoesTo(p, "read_mode")
  /\ UNCHANGED <<wal, tables, columns>>

\* enable_wal_if_needed
ReadMode(p) ==
  /\ IsAt(p, "read_mode") /\ GoesTo(p, IF wal THEN "pragmas" ELSE "set_wal")
  /\ UNCHANGED <<wal, tables, columns>>

SetWal(p) ==
  /\ IsAt(p, "set_wal") /\ GoesTo(p, "pragmas")
  /\ wal' = TRUE
  /\ UNCHANGED <<tables, columns>>

ApplyPragmas(p) ==
  /\ IsAt(p, "pragmas") /\ GoesTo(p, "schema")
  /\ UNCHANGED <<wal, tables, columns>>

\* apply_schema: a batch of statements that each commit on their own, so that a
\* lock or a kill may come between them; each makes its table whole, if it is
\* not there.  Those of sessions and messages are taken as one, those of the
\* indexes left out.
CreateTable(table, itsColumns) ==
  /\ tables' = tables \cup {table}
  /\ columns' = IF table \in tables THEN columns ELSE columns \cup itsColumns
  /\ UNCHANGED wal

ApplySchema(p) ==
  /\ IsAt(p, "schema")
  /\ \/ /\ "base" \notin tables /\ CreateTable("base", Columns \ SnapshotColumns)
        /\ UNCHANGED opener
     \/ /\ "base" \in tables /\ CreateTable("snapshots", SnapshotColumns)
        /\ GoesTo(p, "migrate")

NextColumn(p) == Migrations[opener[p].column]

\* The next column, or the end of the open.
Onward(p) ==
  opener' = [opener EXCEPT ![p] =
    IF @.column = Len(Migrations) THEN OpenedStore
    ELSE [at |-> "migrate", column |-> @.column + 1, attempt |-> 0]]

\* apply_..._column: PRAGMA table_info
ReadColumns(p) ==
  /\ IsAt(p, "migrate")
  /\ IF NextColumn(p) \in columns THEN Onward(p) ELSE GoesTo(p, "add")
  /\ UNCHANGED <<wal, tables, columns>>

\* Mutant: a column that another process added fails the open.
AddColumnOnce(p) ==
  /\ IsAt(p, "add")
  /\ IF NextColumn(p) \in columns THEN GoesTo(p, "duplicate") ELSE Onward(p)
  /\ columns' = columns \cup {NextColumn(p)}
  /\ UNCHANGED <<wal, tables>>

\* ALTER TABLE ADD COLUMN; that the column is there by now is as good
AddColumn(p) ==
  /\ IsAt(p, "add") /\ Onward(p)
  /\ columns' = columns \cup {NextColumn(p)}
  /\ UNCHANGED <<wal, tables>>

\* A process ends, or is killed in the middle.
Close(p) ==
  /\ opener[p].at # "closed"
  /\ opener' = [opener EXCEPT ![p] = ClosedStore]
  /\ UNCHANGED <<wal, tables, columns>>

OpenStep(p) ==
  \/ ApplySafePragmas(p) \/ ReadMode(p) \/ SetWal(p) \/ ApplyPragmas(p)
  \/ ApplySchema(p) \/ ReadColumns(p) \/ AddColumn(p)
  \/ \E step \in {"safe_pragmas", "set_wal", "schema", "add"} : LockError(p, step)
  \/ \E step \in {"read_mode", "pragmas", "migrate"} : Refused(p, step)

OpenNext == \E p \in Openers : BeginOpen(p) \/ OpenStep(p) \/ Close(p)

OpenSpec == OpenInit /\ [][OpenNext]_openVars

-----------------------------------------------------------------------------
\* Whoever has opened the store finds every table and column, whatever the
\* file was and whoever else was at it, and an open fails of a lock alone,
\* never of a column that another process added first (lib.rs init_database,
\* is_duplicate_column_error).
OpenIsComplete ==
  \A p \in Openers :
    /\ IsAt(p, "open") => wal /\ tables = {"base", "snapshots"} /\ columns = Columns
    /\ ~IsAt(p, "duplicate")
=============================================================================
