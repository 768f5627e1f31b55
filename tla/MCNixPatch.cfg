SPECIFICATION Spec
CONSTANTS
  Patchers = {loop, updater}
  Files = {f1}
  Contents = {Missing, c1}
  Missing = Missing
  MaxOps = 1
  MaxTime = 1
  MaxCrashes = 1
INVARIANTS
  AppliedIsRunning
PROPERTIES
  AbsSpec
