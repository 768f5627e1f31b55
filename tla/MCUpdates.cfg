SPECIFICATION FairSpec
CONSTANTS
  git = git
  dir = dir
  p = p
  Sources <- Both
  Git <- OnlyGit
  Pups <- OnePup
  Tops <- TwoThenOne
  Actors <- Goroutines
  Admins <- TwoAdmins
  Budgets <- SmallBudgets
  MaxEvents = 1
  JobKinds = {"install", "upgrade", "rollback", "purge", "check"}
INVARIANTS TypeOK NoMissedRefresh AddedStaysSaved
PROPERTIES CacheSettles
CHECK_DEADLOCK FALSE
