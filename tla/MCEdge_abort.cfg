\* A turn of another session than the first is interrupted.
SPECIFICATION PartSpec
CONSTANTS
  Sessions = {p1}
  NoSession = NoSession
  MaxPrompts = 3
  MaxReviews = 2
  Terms = {s1}
  Callers = {c1}
  NoTerm = NoTerm
  MaxSessions = 1
  BufferCap = 2
  PtyCap = 1
  MaxBytes = 3
  MaxReplies = 1
  Topics = {w}
  Conns = {c1, c2}
  Connections = {c1, c2}
  SocketCap = 1
  MaxEvents = 2
  TuiSessions = {"s1", "s2"}
  Home = "s1"
  Silent = {2}
  Reloads = TRUE
  Foreign = 0
  MaxQueue = 2
  MaxSubmits = 4
  MaxRewrites = 2
  Sids = {w1, w2}
  Old = w1
  NoSid = NoSid
  MaxSends = 2
  MaxMoves = 1
INVARIANT AbortHitsShown
CHECK_DEADLOCK FALSE
