SPECIFICATION Spec
CONSTANTS
  Newest = 3
  PreReleases = {2}
  Threshold = 2
  Installed <- FoundBoxes
  Budgets <- Bounds
INVARIANT MigrationIsTaken
CHECK_DEADLOCK FALSE
