SPECIFICATION Spec
CONSTANTS
  Tabs <- OneTab
  Threads = 2
  Folders = {"A", "B"}
  FirstFolder <- OnA
  FirstDisks <- OneOnDisk
  Names <- Both
  InFolder <- Folder
  Matching <- Second
  BatchSize = 1
  Progressive = 1
  Created <- Second
  SelectIn <- First
  MaxInputs = 3
INVARIANTS ViewInRange
CHECK_DEADLOCK FALSE
