\* Live television under fair scheduling.
CONSTANTS
  Ops <- TvOps
  Env <- TvEnv
  Dirty = {}
  Disciplined = TRUE
  MaxThreads = 2
  MaxCalls = 4
  QueueCap = 2
  NetTries = 2
  SearchTries = 2
SPECIFICATION FairSpec
PROPERTIES QuitHonoured HeartbeatLossEndsPlayer
CHECK_DEADLOCK FALSE
