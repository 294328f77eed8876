\* One run of one agent. The run may end: no deadlock check.
SPECIFICATION Spec
CONSTANT MaxPermits = 1
INVARIANT NoOrphan
CHECK_DEADLOCK FALSE
