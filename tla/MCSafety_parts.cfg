\* One part at a time. Three runs of the ledger, one crash and one failing
\* rewrite; three processes that start, stop and crash as they like; two users of
\* a record file; three tasks and one run at a time; two sessions; two launchers;
\* two openers of the store. The bounds end each history.
SPECIFICATION PartSpec
CONSTANTS
  Runs = {a, b, c}
  NoRun = NoRun
  Times = {0, 2}
  NoTime = NoTime
  Statuses = {"ok"}
  All = All
  Window = 1
  Buckets = 3
  MaxFails = 1
  MaxCrashes = 1
  Procs = {a, b, c}
  NoProc = NoProc
  MaxInodes = 3
  Users = {u1, u2}
  Keys = {1, 2, 3}
  Heals = TRUE
  Meeting = {"append"}
  MaxRecords = 3
  MaxDeaths = 2
  Tasks = {a, b, c}
  Runners = {k1}
  NoRunner = NoRunner
  Templates <- MCTemplates
  Resets = {"open"}
  EditsMeetRuns = FALSE
  MaxAttempts = 1
  Openers = {l1, l2}
  InitLockRetries = 1
  Launchers = {l1, l2}
  Tuis = {l2}
  Nobody = NoProc
  MaxTurns = 1
  Ids = {1, 2}
  NoSession = NoProc
  IdleFor = 1
  Keeps = {0, 1}
  MaxSessions = 1
  MaxMessages = 1
  MaxUses = 4
  MaxTime = 4
SYMMETRY Symmetry
INVARIANTS OneOwner FilesNameDaemon SettledStaysSettled CursorMissesNothing StatsComplete AcknowledgedKept GraphSound SweepsRight OpenIsComplete DaemonSettles
CHECK_DEADLOCK FALSE
