SPECIFICATION FairSpec
CONSTANTS
  Patchers = {"loop", "updater"}
  Pups = {p1}
  Versions = {1, 2}
  Includes = Includes
  Missing = Missing
  Files <- MCFiles
  Contents <- MCContents
  Kinds = {"install", "uninstall", "purge", "enable", "disable", "upgrade", "rollback", "import", "config", "touch"}
  Faults = {"save", "download", "prepare", "stop", "snapshot", "remove", "nix"}
  Found <- FoundAny
  MaxJobs = 2
  MaxCrashes = 1
INVARIANTS
  TypeOK
  ReadyHasFiles
  WorkInProgress
  SavedIsCurrent
PROPERTIES
  JobsEnd
CHECK_DEADLOCK FALSE
