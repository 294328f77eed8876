\* Two `kymido run` of one task.
SPECIFICATION GraphSpec
CONSTANTS
  Tasks = {t1}
  Runners = {k1, k2}
  NoRunner = NoRunner
  Templates = {}
  EditsMeetRuns = FALSE
  Resets = {}
  MaxAttempts = 3
INVARIANT OneWorker
CHECK_DEADLOCK FALSE
