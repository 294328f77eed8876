\* A provider with a fallback, two attempts each. A call that has ended stays so.
SPECIFICATION StreamSpec
CONSTANTS
  LastProvider = 2
  MaxAttempts = 2
  Indexes = {c1, c2}
  MaxLines = 3
INVARIANT NothingReplayed
CHECK_DEADLOCK FALSE
