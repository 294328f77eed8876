\* One part at a time; each may stop: no deadlock check.
SPECIFICATION PartSpec
CONSTANTS
  Procs = {p1, p2}
  NoSession = NoSession
  Careful = TRUE
  MaxMessages = 3
  MaxCrashes = 2
  MaxJobs = 2
  MaxRunning = 1
  Turns = {t1}
  Forgets = TRUE
  MaxPermits = 1
  SizeOf <- MCSizeOf
  SystemChars = 1
  Budget = 6
  KeepChars = 4
  KeepMin = 2
  MaxTurns = 2
  MaxSameError = 1
  MaxFires = 1
  Errors = {"e1"}
  Replies <- MCReplies
  FreshIds = TRUE
  Forks = TRUE
  MaxPrompts = 2
  MaxNotes = 1
  MaxAborts = 1
  MaxPanics = 1
  parent = parent
  child = child
  Sessions = {parent, child}
  NoOwner = NoOwner
  ParentOf <- MCParentOf
  Grace = 2
  MaxRequests = 1
  MaxHandles = 2
  Conns = {c1, c2}
  NoConn = NoConn
  LastProvider = 2
  MaxAttempts = 2
  Indexes = {c1, c2}
  MaxLines = 3
INVARIANTS NothingLost JobOneStory OneReply AbortStops RequestsPaired TurnIsReachable
PROPERTIES ImplementsTranscript KilledIsReported AcpTornDownEnds NewestKept PromptsEnd ReaperSound
CHECK_DEADLOCK FALSE
