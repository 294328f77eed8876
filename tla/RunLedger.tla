------------------------------ MODULE RunLedger ------------------------------
(***************************************************************************)
(* The persistent run ledger (state.rs RunLedger): rows in memory, and a   *)
(* file that every start and every finish rewrites row by row under the    *)
(* ledger's mutex.  A write may fail, the daemon may die at any point of a *)
(* rewrite, and a client may follow the ledger with a cursor.  A torn line *)
(* is skipped when the file is read, so it is a line that is not there.    *)
(***************************************************************************)
EXTENDS RunStats

CONSTANTS Runs,       \* run ids, each of one start
          NoRun,      \* no run
          Times,      \* values of the wall clock, which may go back
          Statuses,   \* statuses callers finish a run with
          Window,     \* the length of a window of the stats page
          MaxFails,   \* bound: rewrites that fail
          MaxCrashes  \* bound: crashes of the daemon

ASSUME RunAssumption == NoRun \notin Runs
ASSUME TimeAssumption == Times \subseteq Nat /\ NoTime \notin Times
ASSUME WindowAssumption == Window \in Nat \ {0} /\ All # Window
ASSUME BoundAssumption == MaxFails \in Nat /\ MaxCrashes \in Nat

VARIABLES up,       \* is the daemon running?
          rows,     \* RunLedgerInner.runs (of the dead process, once it died)
          nextSeq,  \* RunLedgerInner.next_seq
          file,     \* the complete rows in the file
          flush,    \* the rewrite in progress, with the call it serves
          before,   \* history: the file when the rewrite began
          used,     \* history: runs that were started
          settled,  \* history: runs whose finish returned without error
          cursor,   \* a client's cursor
          seen,     \* the runs the client was sent
          fails, crashes  \* counters for the bounds

client == <<cursor, seen>>
counters == <<fails, crashes>>
history == <<before, used, settled>>
vars == <<up, rows, nextSeq, file, flush, history, client, counters>>

NoStatus == "none"
Rows == [seq : Nat, run : Runs, started : Times,
         finished : Times \cup {NoTime}, status : Statuses \cup {NoStatus}]

Idle == [phase |-> "idle", finishing |-> NoRun]
Flushing(run) == [phase |-> "opening", finishing |-> run]

TypeOK ==
  /\ up \in BOOLEAN
  /\ rows \in Seq(Rows) /\ file \in Seq(Rows) /\ before \in Seq(Rows)
  /\ nextSeq \in Nat
  /\ flush \in {Idle} \cup [phase : {"opening", "writing"}, finishing : Runs \cup {NoRun}]
  /\ used \subseteq Runs /\ settled \subseteq Runs /\ seen \subseteq Runs
  /\ cursor \in Nat
  /\ fails \in 0..MaxFails /\ crashes \in 0..MaxCrashes

Init ==
  /\ up = TRUE
  /\ rows = <<>> /\ file = <<>> /\ before = <<>>
  /\ nextSeq = 1
  /\ flush = Idle
  /\ used = {} /\ settled = {}
  /\ cursor = 0 /\ seen = {}
  /\ fails = 0 /\ crashes = 0

Locked == up /\ flush = Idle   \* the mutex is taken by the call

-----------------------------------------------------------------------------
(* The calls.                                                              *)

\* A new row, with the next number, then the rewrite.  A client uses a run id
\* once.
Start(r, now) ==
  /\ Locked /\ r \notin used
  /\ used' = used \cup {r}
  /\ rows' = Append(rows, [seq |-> nextSeq, run |-> r, started |-> now,
                           finished |-> NoTime, status |-> NoStatus])
  /\ nextSeq' = nextSeq + 1
  /\ flush' = Flushing(NoRun)
  /\ before' = file
  /\ UNCHANGED <<up, file, settled, client, counters>>

Settle(row, now, status) ==
  [seq |-> row.seq, run |-> row.run, started |-> row.started, finished |-> now, status |-> status]

\* Settles the open rows of the run; without one there is no rewrite.
Finish(r, now, status) ==
  /\ Locked
  /\ \E i \in DOMAIN rows : rows[i].run = r /\ rows[i].finished = NoTime
  /\ rows' = [i \in DOMAIN rows |->
                IF rows[i].run = r /\ rows[i].finished = NoTime
                THEN Settle(rows[i], now, status)
                ELSE rows[i]]
  /\ flush' = Flushing(r)
  /\ before' = file
  /\ UNCHANGED <<up, nextSeq, file, used, settled, client, counters>>

\* Mutant: the cursor is the number the next row will get.
ReadAhead ==
  /\ Locked
  /\ seen' = seen \cup {rows[i].run : i \in {j \in DOMAIN rows : rows[j].seq > cursor}}
  /\ cursor' = nextSeq
  /\ UNCHANGED <<up, rows, nextSeq, file, flush, history, counters>>

\* The rows behind the cursor; the cursor moves to the last row, be it back.
ReadFromCursor ==
  /\ Locked
  /\ seen' = seen \cup {rows[i].run : i \in {j \in DOMAIN rows : rows[j].seq > cursor}}
  /\ cursor' = IF rows = <<>> THEN cursor ELSE rows[Len(rows)].seq
  /\ UNCHANGED <<up, rows, nextSeq, file, flush, history, counters>>

-----------------------------------------------------------------------------
(* RunLedgerInner::flush.                                                  *)

\* Mutant: the file is not truncated.
FlushOpenKeeps ==
  /\ up /\ flush.phase = "opening"
  /\ flush' = [flush EXCEPT !.phase = "writing"]
  /\ UNCHANGED <<up, rows, nextSeq, file, history, client, counters>>

FlushOpen ==
  /\ up /\ flush.phase = "opening"
  /\ file' = <<>>
  /\ flush' = [flush EXCEPT !.phase = "writing"]
  /\ UNCHANGED <<up, rows, nextSeq, history, client, counters>>

FlushRow ==
  /\ up /\ flush.phase = "writing" /\ Len(file) < Len(rows)
  /\ file' = Append(file, rows[Len(file) + 1])
  /\ UNCHANGED <<up, rows, nextSeq, flush, history, client, counters>>

\* The call that rewrote the file returns.
FlushDone ==
  /\ up /\ flush.phase = "writing" /\ Len(file) = Len(rows)
  /\ settled' = settled \cup ({flush.finishing} \ {NoRun})
  /\ flush' = Idle
  /\ before' = <<>>
  /\ UNCHANGED <<up, rows, nextSeq, file, used, client, counters>>

\* An I/O error: the call returns it, the rows stay as they are in memory.
FlushFail ==
  /\ up /\ flush.phase # "idle" /\ fails < MaxFails
  /\ fails' = fails + 1
  /\ flush' = Idle
  /\ before' = <<>>
  /\ UNCHANGED <<up, rows, nextSeq, file, used, settled, client, crashes>>

-----------------------------------------------------------------------------
(* The daemon dies, and is started again.                                  *)

Crash ==
  /\ up /\ crashes < MaxCrashes
  /\ up' = FALSE
  /\ crashes' = crashes + 1
  /\ UNCHANGED <<rows, nextSeq, file, flush, history, client, fails>>

\* open_for_socket
Open ==
  /\ ~up /\ up' = TRUE
  /\ rows' = file
  /\ nextSeq' = 1 + Max({0} \cup {file[i].seq : i \in DOMAIN file})
  /\ flush' = Idle
  /\ before' = <<>>
  /\ UNCHANGED <<file, used, settled, client, counters>>

FlushStep == FlushOpen \/ FlushRow \/ FlushDone \/ FlushFail

Next ==
  \/ \E r \in Runs, now \in Times : Start(r, now) \/ \E st \in Statuses : Finish(r, now, st)
  \/ ReadFromCursor
  \/ FlushStep
  \/ Crash \/ Open

Spec == Init /\ [][Next]_vars

-----------------------------------------------------------------------------
(* Properties.                                                             *)

\* Rows are numbered in the order they were made and a number is never given
\* twice among the rows on record, whatever a crash cut off: cursors can
\* tell them apart (state.rs open_for_socket, start).
SeqsIncrease ==
  /\ \A i, j \in DOMAIN rows : i < j => rows[i].seq < rows[j].seq
  /\ \A i \in DOMAIN rows : rows[i].seq < nextSeq

\* A run whose finish returned without error is never open again, through
\* crashes and failing rewrites.
SettledStaysSettled == \A i \in DOMAIN rows : rows[i].run \in settled => rows[i].finished # NoTime

Identity(row) == <<row.seq, row.run, row.started>>

\* A restart loses the newest rows at most: what it reads is the beginning of
\* what the dead process had in memory.
CrashLosesTailOnly ==
  [][up' /\ ~up => /\ Len(rows') <= Len(rows)
                   /\ \A i \in DOMAIN rows' : Identity(rows'[i]) = Identity(rows[i])]_vars

\* As long as no crash cut rows off, a client that follows the ledger with
\* its cursor has been sent every run the cursor is past (state.rs
\* read_from_cursor).
CursorMissesNothing ==
  crashes = 0 => \A i \in DOMAIN rows : rows[i].seq <= cursor => rows[i].run \in seen

Ranges == {Window, All}

\* The copy that is aggregated outside the lock gives the same numbers as the
\* whole ledger, the previous window's included (state.rs stats).
SnapshotIsEnough ==
  \A range \in Ranges, now \in Times :
    AggregateStats(Snapshot(rows, range, now), range, now) = AggregateStats(rows, range, now)

\* The series of a window counts every run of the total once, one that
\* started right now included; only clocks set back take a run out of it.
SeriesCountsOnce ==
  \A range \in Ranges, now \in Times :
    LET stats == AggregateStats(rows, range, now)
    IN (\A i \in DOMAIN rows : rows[i].started <= now) /\ stats.throughput # <<>>
       => FoldLeft(LAMBDA sum, runs : sum + runs, 0, stats.throughput) = stats.total

\* The stats page is right about a window of each kind (state.rs stats,
\* aggregate_stats, bucket_runs).
StatsComplete == SnapshotIsEnough /\ SeriesCountsOnce

-----------------------------------------------------------------------------
(* The inductive invariant behind the safety properties.                   *)

\* The file is the beginning of the rows in memory, which may have settled a
\* run since; a rewrite in progress copies the rows as they are.
FileFollowsRows ==
  /\ Len(file) <= Len(rows)
  /\ \A i \in DOMAIN file : Identity(file[i]) = Identity(rows[i])
  /\ flush.phase = "writing" => \A i \in DOMAIN file : file[i] = rows[i]

\* Neither the file nor the call that is about to return leaves a settled run
\* open.
FileKeepsSettled ==
  /\ \A i \in DOMAIN file : file[i].run \in settled => file[i].finished # NoTime
  /\ \A i \in DOMAIN rows : rows[i].run = flush.finishing => rows[i].finished # NoTime
  /\ settled \subseteq used
  /\ \A i \in DOMAIN rows : rows[i].run \in used
  /\ flush.finishing \in used \cup {NoRun}

LedgerInv == SeqsIncrease /\ SettledStaysSettled /\ FileFollowsRows /\ FileKeepsSettled
=============================================================================
