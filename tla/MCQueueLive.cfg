SPECIFICATION FairSpec
CONSTANTS
  j1 = j1
  j2 = j2
  j3 = j3
  j4 = j4
  Jobs = {j1, j2, j3}
  NoJob = NoJob
  Kind <- NixKind
  SubJobs <- NoSubJobs
  Scanners = {"ticker"}
  WebCalls = {"delete"}
  JobsCap = 2
  MaxCrashes = 1
  StoreOutcomes = {TRUE}
PROPERTIES
  RowsSettle
  JobsDrain
