SPECIFICATION PartsSpec
CONSTANTS
  Sources = {"pup", "job", "journal"}
  Longest = 8
  Limit = 1
  Capacity = 1
  Clients = {a, b}
  LastChange = 3
  ChannelCapacity = 2
  Watched = {p}
  Savers = {main, updater}
  MonCapacity = 1
  FastPolls = 2
  MonitorBounds <- MonBounds
  Order <- StartOrder
  Twins = {"dbx"}
  Signals = 2
INVARIANTS NoGap NothingMissed
PROPERTIES TasksEnd StatusSettles ShutdownEnds
CHECK_DEADLOCK FALSE
