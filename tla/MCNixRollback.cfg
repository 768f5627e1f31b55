SPECIFICATION Spec
CONSTANTS
  Patchers = {updater}
  Files = {f1}
  Contents = {Missing, c1}
  Missing = Missing
  MaxOps = 1
  MaxTime = 1
  MaxCrashes = 0
PROPERTIES
  FailedLeavesNoTrace
