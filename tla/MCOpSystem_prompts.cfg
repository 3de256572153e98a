SPECIFICATION SysSpec
CONSTANTS
  Worker = {w1, w2}
  MaxOps = 2
  Operations <- PromptOperations
  JobCaps = {1, 3}
  InitJobs = 2
  Defaults = {"ask", "rename"}
  ViewLimit = 1
SYMMETRY WorkerSymmetry
INVARIANTS TypeOK Bookkeeping PromptsOpen EventsInOrder PromptsMatchWorkers UIAgreesWithEngine
CHECK_DEADLOCK FALSE
