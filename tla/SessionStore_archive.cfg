\* One client that writes to a session it has archived.
SPECIFICATION Spec
CONSTANTS
  Procs = {p1}
  NoSession = NoSession
  Careful = FALSE
  MaxMessages = 2
  MaxCrashes = 0
INVARIANT NothingLost
CHECK_DEADLOCK FALSE
