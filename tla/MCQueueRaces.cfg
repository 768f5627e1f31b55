SPECIFICATION Spec
CONSTANTS
  j1 = j1
  j2 = j2
  j3 = j3
  j4 = j4
  Jobs = {j1, j2, j3, j4}
  NoJob = NoJob
  Kind <- RaceKind
  SubJobs <- RaceSubJobs
  Scanners = {"ticker", "ws"}
  WebCalls = {"delete", "clearCompleted"}
  JobsCap = 2
  MaxCrashes = 0
  StoreOutcomes = {TRUE}
INVARIANTS
  TypeOK
  LiveJobsVisible
  OneAtATime
  DeletedNeverRuns
PROPERTIES
  NoLiveJobOrphaned
