SPECIFICATION LiveSysSpec
CONSTANTS
  Worker = {w1, w2}
  MaxOps = 2
  Operations <- LiveOperations
  JobCaps = {2}
  InitJobs = 1
  Defaults = {"ask"}
  ViewLimit = 1
PROPERTIES EveryOpEnds
CHECK_DEADLOCK FALSE
