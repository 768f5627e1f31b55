SPECIFICATION Spec
CONSTANTS
  Patchers = {"loop", "updater"}
  Pups = {p1, p2}
  Versions = {1, 2}
  Includes = Includes
  Missing = Missing
  Files <- MCFiles
  Contents <- MCContents
  Kinds = {"install", "uninstall", "purge", "enable", "disable", "import", "touch"}
  Faults = {}
  Found <- FoundMore
  MaxJobs = 3
  MaxCrashes = 0
INVARIANTS
  Settled
CHECK_DEADLOCK FALSE
