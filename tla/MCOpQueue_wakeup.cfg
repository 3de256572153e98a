SPECIFICATION Spec
CONSTANTS
  Worker = {w1, w2}
  MaxOps = 2
  Operations <- PoolOperations
  JobCaps = {2}
  InitJobs = 1
INVARIANTS NoLostWakeup
CHECK_DEADLOCK FALSE
