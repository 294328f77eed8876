------------------------------ MODULE RunStats ------------------------------
(***************************************************************************)
(* The numbers of the stats page, computed from rows of the run ledger     *)
(* (state.rs aggregate_stats, bucket_runs).  A row has the times at which  *)
(* its run started and finished and the status it finished with; the feed  *)
(* of recent runs, the labels and the rates are left out.  Rows are a      *)
(* function of their places in the ledger, and those of a window the part  *)
(* of it that filter() leaves.                                             *)
(***************************************************************************)
EXTENDS Integers, Sequences, FiniteSets, SequencesExt

CONSTANTS All,      \* the range that covers everything on record
          NoTime,   \* finished_at_ms of an open run
          Buckets   \* STATS_BUCKETS

ASSUME BucketAssumption == Buckets \in Nat \ {0}

CountWhere(rows, Test(_)) == Cardinality({i \in DOMAIN rows : Test(rows[i])})

\* The rows of runs that started at a time or later.
Since(rows, floor) == RestrictValues(rows, LAMBDA r : r.started >= floor)

InFlightRow(row) == row.finished = NoTime
OkRow(row) == row.finished # NoTime /\ row.status = "ok"
StoppedRow(row) == row.finished # NoTime /\ row.status \in {"aborted", "paused"}
FailedRow(row) == row.finished # NoTime /\ row.status \notin {"ok", "aborted", "paused"}

\* Durations of the runs that did not finish before they started (the clock
\* may be set back).
Durations(rows) ==
  LET timed == {i \in DOMAIN rows : rows[i].finished # NoTime /\ rows[i].finished >= rows[i].started}
  IN [sum |-> MapThenSumSet(LAMBDA i : rows[i].finished - rows[i].started, timed),
      runs |-> Cardinality(timed)]

WindowStart(rows, range, now) ==
  IF range = All THEN Min({now} \cup {rows[i].started : i \in DOMAIN rows}) ELSE now - range

\* Mutant: every bucket is half open.
InBucketHalfOpen(i, t, start, now) ==
  LET edge(k) == start + ((now - start) * k) \div Buckets
  IN t >= edge(i) /\ t < edge(i + 1)

\* Does bucket i of the window [start, now] count a run started at t?
InBucket(i, t, start, now) ==
  LET edge(k) == start + ((now - start) * k) \div Buckets
  IN t >= edge(i) /\ (t < edge(i + 1) \/ (i = Buckets - 1 /\ t <= now))

\* bucket_runs: run starts per bucket, nothing for an empty window.
Throughput(rows, start, now) ==
  IF now <= start THEN <<>>
  ELSE [i \in 1..Buckets |-> CountWhere(rows, LAMBDA r : InBucket(i - 1, r.started, start, now))]

\* The window before the current one, of the same length.
Previous(rows, range, start) ==
  IF range = All THEN <<>>
  ELSE LET slice == RestrictValues(rows, LAMBDA r : start - range <= r.started /\ r.started < start)
       IN <<[total |-> Cardinality(DOMAIN slice),
             ok |-> CountWhere(slice, OkRow),
             errors |-> CountWhere(slice, StoppedRow) + CountWhere(slice, FailedRow),
             durations |-> Durations(slice)]>>

AggregateStats(rows, range, now) ==
  LET start == WindowStart(rows, range, now)
      current == Since(rows, start)
  IN [total |-> Cardinality(DOMAIN current),
      ok |-> CountWhere(current, OkRow),
      failed |-> CountWhere(current, FailedRow),
      aborted |-> CountWhere(current, StoppedRow),
      inFlight |-> CountWhere(current, InFlightRow),
      durations |-> Durations(current),
      throughput |-> Throughput(current, start, now),
      previous |-> Previous(rows, range, start)]

\* RunLedger::stats copies under the lock only what the two windows need.
Snapshot(rows, range, now) == IF range = All THEN rows ELSE Since(rows, now - 2 * range)
=============================================================================
