SPECIFICATION Spec
CONSTANTS
  j1 = j1
  j2 = j2
  j3 = j3
  j4 = j4
  Jobs = {j1, j2, j3}
  NoJob = NoJob
  Kind <- CrashKind
  SubJobs <- NoSubJobs
  Scanners = {"ws"}
  WebCalls = {"delete", "clearAll", "debug"}
  JobsCap = 1
  MaxCrashes = 1
  StoreOutcomes = {TRUE, FALSE}
INVARIANTS
  CachedActiveIsStored
PROPERTIES
  DeletedStaysInactive
  AbsSpec
