\* Three runs in three environments, and three parts beside them. Once everything is done
\* the daemon is idle for good: no deadlock check.
SPECIFICATION EnvSpec
CONSTANTS
  Runs = {r1, r2, r3}
  NoRun = NoRun
  Orbit = TRUE
  Overlap = TRUE
  BadAttachments = TRUE
  MaxReviews = 1
  MaxAborts = 0
  MaxForks = 0
  MaxCrashes = 1
  Callers = {c1, c2}
  Starter = s
  NoOne = NoOne
  MaxAttempts = 2
  MaxPages = 2
  PipeSize = 1
  MaxIds = 4
  MaxNoise = 1
  Widths = {1, 4}
  Labels = {5, 10}
INVARIANTS ReplyOrReason FrameAligned
PROPERTIES RecordsInOrder SerialEndsOwnRun ServedRunsEnd CallsReturn DeathIsTold
CHECK_DEADLOCK FALSE
