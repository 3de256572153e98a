SPECIFICATION Spec
CONSTANTS
  ByName <- SortedNames
  OnDisk <- DiskNames
  Dirs <- TheFolders
  Matching <- Filtered
  Page = 2
  Here <- HerePath
  There <- TherePath
  MaxListInputs = 3
INVARIANTS CreatedIsSelected
CHECK_DEADLOCK FALSE
