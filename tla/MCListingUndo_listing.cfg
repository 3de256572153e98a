SPECIFICATION MCSpec
CONSTANTS
  Tabs <- TwoTabs
  Threads = 2
  Folders = {"A", "B"}
  FirstFolder <- OnAandB
  FirstDisks <- OneOnDisk
  Names <- Both
  InFolder <- Folder
  Matching <- Second
  BatchSize = 1
  Progressive = 1
  Created <- Second
  SelectIn <- First
  MaxInputs = 3
  FileFolders = {"s", "d"}
  FileNames = {"f", "g", "f (2)"}
  Contents = {"c1", "c2", "c3", "empty"}
  Empty = "empty"
  Absent = "absent"
  Alternates <- AltNames
  UserOps <- PlainOps
  FirstFiles <- Starts
  MaxDepth = 2
  MaxUser = 3
  MaxUndo = 2
INVARIANTS TypeOK OneListing SettledIsCurrent LoadingIsAnswered
INVARIANTS UndoTypeOK UndoRestores
CHECK_DEADLOCK FALSE
