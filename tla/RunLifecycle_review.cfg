\* A turn that parked in a plan review.
SPECIFICATION Spec
CONSTANTS
  Runs = {r1, r2}
  NoRun = NoRun
  Orbit = TRUE
  Overlap = FALSE
  BadAttachments = FALSE
  MaxReviews = 1
  MaxAborts = 0
  MaxForks = 0
  MaxCrashes = 0
INVARIANTS NoRunLeftOpen
CHECK_DEADLOCK FALSE
