SPECIFICATION FairSpec
CONSTANTS
  Newest = 3
  PreReleases = {2}
  Threshold = 2
  Installed <- FoundBoxes
  Budgets <- Bounds
INVARIANTS CompletedHasLanded RecordedHasLanded
PROPERTIES NoStepBack UserNixKept UpdatesUnlock
CHECK_DEADLOCK FALSE
