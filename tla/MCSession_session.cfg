SPECIFICATION MCSpec
CONSTANTS
  Folders <- AllFolders
  Parent <- Parents
  Home = "Root"
  Watchable <- OnDisk
  MaxTabs = 3
  MaxFailures = 1
  MaxInputs = 3
  MaxStarts = 1
INVARIANT SessionTypeOK
INVARIANT LoadingTabIsFound
INVARIANT SettingsReachTheFile
INVARIANT ChangesReachTheTab
PROPERTY StartRestores
PROPERTY TrailKept
PROPERTY LockedKept
PROPERTY NoTabLost
