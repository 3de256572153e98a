SPECIFICATION UndoSpec
CONSTANTS
  FileFolders = {"s", "d"}
  FileNames = {"f", "g", "f (2)"}
  Contents = {"c1", "c2", "c3", "empty"}
  Empty = "empty"
  Absent = "absent"
  Alternates <- AltNames
  UserOps <- PlainOps
  FirstFiles <- Starts
  MaxDepth = 2
  MaxUser = 2
  MaxUndo = 1
PROPERTIES UndoAsksFirst
CHECK_DEADLOCK FALSE
