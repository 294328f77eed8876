\* The task store, one operation at a time; a process dies in an append.
SPECIFICATION FileSpec
CONSTANTS
  Users = {u1, u2}
  Keys = {1, 2}
  Heals = FALSE
  Meeting = {}
  MaxRecords = 3
  MaxDeaths = 1
INVARIANT AcknowledgedKept
CHECK_DEADLOCK FALSE
