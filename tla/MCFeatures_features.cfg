SPECIFICATION MCSpec
CONSTANTS
  q1 = q1
  q2 = q2
  s1 = s1
  s2 = s2
  w1 = w1
  here = here
  there = there
  pp = pp
  pq = pq
  read = read
  i1 = i1
  i2 = i2
  c1 = c1
  c2 = c2
  v1 = v1
  z1 = z1
  z2 = z2
  z3 = z3
  b1 = b1
  fa = fa
  fb = fb
  Queries <- MCQueries
  MaxSearches = 2
  Sounds <- MCSounds
  Pages <- MCPages
  Plains = {}
  MaxTouches = 4
  MaxFile = 2
  FilePlaces <- MCFilePlaces
  MaxChanges = 3
  PluginPaths <- MCPluginPaths
  Permissions <- MCPermissions
  MaxPluginEvents = 6
  Icons <- MCIcons
  Sums <- MCSums
  Cells <- MCCells
  Sizes <- MCSizes
  Branches <- MCBranches
  IconsPerFrame = 3
  SumsPerFrame = 1
  SizesAtOnce = 2
  MaxRefreshes = 1
  TopNames = {1}
  DeepNames = {2}
  ComparedFolders <- MCComparedFolders
  FileMetas <- MCFileMetas
  MaxComparisons = 2
  MaxUnread = 1
  MaxSteps = 3
  Entries <- MCEntries
  FilterBytes <- MCFilterBytes
  ShownPath <- MCShownPath
  MaxInputs = 4
  ByName <- SortedNames
  OnDisk <- DiskNames
  Dirs <- TheFolders
  Matching <- Filtered
  Page = 2
  Here <- HerePath
  There <- TherePath
  MaxListInputs = 3
INVARIANT SearchShowsItsQuery
INVARIANT LatestIsAnswered
INVARIANT PreviewIsOfItsPath
INVARIANT SoundFollowsPreview
INVARIANT IndexFollowsDisk
INVARIANT PluginsActAsGranted
INVARIANT LookupsArePending
INVARIANT CompareActsOnWhatIsTicked
INVARIANT ViewIsSortedAndFiltered
INVARIANTS FileListTypeOK BandSelectsItsRows SelectionSurvivesRefresh FolderLeftIsSelected
PROPERTIES OnlyWhatWasPicked ClickMeansItsPress
CHECK_DEADLOCK FALSE
