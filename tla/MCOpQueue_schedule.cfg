SPECIFICATION Spec
CONSTANTS
  Worker = {w1, w2, w3}
  MaxOps = 3
  Operations <- ScheduleOperations
  JobCaps = {1}
  InitJobs = 3
SYMMETRY WorkerSymmetry
INVARIANTS Exclusive NoLostWakeup
PROPERTIES ImplementsSchedule StrictlySequential
CONSTRAINT OneBesideTransfer
CHECK_DEADLOCK FALSE
